------------------------ MODULE Provisioning_proofs ------------------------
(***************************************************************************)
(* Proofs about Provisioning, for any number of devices, organizations,    *)
(* claims and check-ins at once: whatever stale copies the handlers write  *)
(* back, credentials and an owner come together, and a device that has an  *)
(* owner is never without one again.  Then, when the agent's token and the *)
(* one in its row are the same, and when the owner is the first one for    *)
(* good.                                                                   *)
(***************************************************************************)
EXTENDS Provisioning, FiniteSetTheorems, TLAPS

LEMMA ImageFinite ==
  ASSUME NEW S, IsFiniteSet(S), NEW f, f = [x \in S |-> f[x]]
  PROVE  IsFiniteSet({f[x] : x \in S})
<1> DEFINE T == {f[x] : x \in S}
<1>1. f \in Surjection(S, T)
  BY DEF Surjection
<1> QED
  BY <1>1, FS_Surjection

LEMMA InUseFinite == IsFiniteSet(InUse)
<1>1. IsFiniteSet({row[d].hash : d \in Devices})
  <2> DEFINE f == [d \in Devices |-> row[d].hash]
  <2>1. IsFiniteSet({f[d] : d \in Devices})
    BY ImageFinite, FiniteAssumption
  <2> QED
    BY <2>1
<1>2. IsFiniteSet({agent[d].token : d \in Devices})
  <2> DEFINE f == [d \in Devices |-> agent[d].token]
  <2>1. IsFiniteSet({f[d] : d \in Devices})
    BY ImageFinite, FiniteAssumption
  <2> QED
    BY <2>1
<1>3. IsFiniteSet({claim[c].copy.hash : c \in Claims})
  <2> DEFINE f == [c \in Claims |-> claim[c].copy.hash]
  <2>1. IsFiniteSet({f[c] : c \in Claims})
    BY ImageFinite, FiniteAssumption
  <2> QED
    BY <2>1
<1>4. IsFiniteSet({checkin[k].copy.hash : k \in Slots})
  <2> DEFINE f == [k \in Slots |-> checkin[k].copy.hash]
  <2>1. IsFiniteSet({f[k] : k \in Slots})
    BY ImageFinite, FiniteAssumption
  <2> QED
    BY <2>1
<1>5. IsFiniteSet({checkin[k].token : k \in Slots})
  <2> DEFINE f == [k \in Slots |-> checkin[k].token]
  <2>1. IsFiniteSet({f[k] : k \in Slots})
    BY ImageFinite, FiniteAssumption
  <2> QED
    BY <2>1
<1>6. IsFiniteSet({ingest.copy.hash})
  BY FS_Singleton
<1> QED
  BY <1>1, <1>2, <1>3, <1>4, <1>5, <1>6, FS_Union DEF InUse

\* There is always a token that nobody has, because finitely many are in use.
LEMMA FreshTokenExists ==
  FreshToken \in Nat /\ FreshToken # NoToken /\ FreshToken \notin InUse
<1> DEFINE n == Cardinality(InUse)
<1>1. n \in Nat
  BY InUseFinite, FS_CardinalityType
<1>2. ~(1..n + 1 \subseteq InUse)
  <2> SUFFICES ASSUME 1..n + 1 \subseteq InUse PROVE FALSE
    OBVIOUS
  <2>1. Cardinality(1..n + 1) <= n
    BY InUseFinite, FS_Subset
  <2>2. Cardinality(1..n + 1) = n + 1
    <3>1. 1 \in Int /\ n + 1 \in Int /\ ~(1 > n + 1) /\ n + 1 - 1 + 1 = n + 1
      BY <1>1
    <3> HIDE DEF n
    <3>2. Cardinality(1..(n + 1)) = IF 1 > n + 1 THEN 0 ELSE n + 1 - 1 + 1
      BY <3>1, FS_Interval
    <3> QED
      BY <3>1, <3>2
  <2> HIDE DEF n
  <2> QED
    BY <1>1, <2>1, <2>2
<1>3. \E t \in 1..n + 1 : t \notin InUse
  BY <1>2
<1>4. FreshToken \in 1..n + 1 /\ FreshToken \notin InUse
  BY <1>3 DEF FreshToken
<1> QED
  BY <1>1, <1>4 DEF NoToken

-----------------------------------------------------------------------------
(* The inductive invariant.                                                *)

\* A handler that is at work has a device, and an organization to give it.
HandlersAtWork ==
    /\ \A c \in Claims : claim[c].pc = "save" => claim[c].dev \in Devices /\ claim[c].org \in Orgs
    /\ \A k \in Slots : checkin[k].pc # "idle" => checkin[k].dev \in Devices
    /\ ingest.busy => ingest.dev \in Devices

\* The use that is about to be counted is within the quota.
CountsWithinQuota == \A k \in Slots : checkin[k].pc = "count" => checkin[k].uses < MaxUses

\* A row as it should be: an owner and credentials come together, and only in a
\* row that is there.
Sound(r) == /\ r \in Row
            /\ r.org # None <=> r.hash # NoToken
            /\ r.org # None => r.exists

RowsSound == \A d \in Devices : Sound(row[d])

\* What is written back as it was read was read from an owned row; only owned
\* devices were ever on the broker.
CopiesOwned ==
    /\ \A k \in Slots : checkin[k].pc = "save" =>
          Sound(checkin[k].copy) /\ checkin[k].copy.org # None
    /\ ingest.busy => Sound(ingest.copy) /\ ingest.copy.org # None
    /\ \A d \in Devices : agent[d].link # "never" => Owned(d)

IInv == TypeOK /\ HandlersAtWork /\ CountsWithinQuota /\ RowsSound /\ CopiesOwned

LEMMA InitIInv == Init => IInv
  BY BoundAssumption, OrgAssumption
  DEF Init, IInv, TypeOK, HandlersAtWork, CountsWithinQuota, RowsSound, Sound, CopiesOwned,
      Row, NoRow, Owners, NoToken, Claim, CheckIn, CheckInPc, NoCheckIn, Agent, NoIngest, Owned

LEMMA NoRowSound == NoRow \in Row /\ NoRow.org = None /\ NoRow.hash = NoToken
  BY DEF NoRow, Row, NoToken

\* Writing a sound row over one that was not better owned keeps the invariant
\* of the table and of those who rely on it.
LEMMA RowWritten ==
  ASSUME IInv, NEW d \in Devices, NEW r, Sound(r), Owned(d) => r.org # None,
         row' = [row EXCEPT ![d] = r], UNCHANGED <<enroll, faults>>
  PROVE  /\ row' \in [Devices -> Row] /\ RowsSound'
         /\ \A x \in Devices : Owned(x) => Owned(x)'
         /\ \A x \in Devices : agent[x].link # "never" => Owned(x)'
  BY DEF IInv, TypeOK, RowsSound, CopiesOwned, Owned, Sound

LEMMA ClaimStep ==
  ASSUME IInv, NEW c \in Claims, ClaimNext(c)
  PROVE  IInv' /\ \A d \in Devices : Owned(d) => Owned(d)'
<1> USE OrgAssumption DEF IInv, TypeOK
<1>1. ASSUME NEW d \in Devices, NEW o \in Orgs, NEW s \in Secrets,
             NEW m \in {MacOf[d]} \cup Mistyped,
             ClaimRefused(c, d, o, s) \/ ClaimRead(c, d, o, s, m)
      PROVE  IInv' /\ \A x \in Devices : Owned(x) => Owned(x)'
  <2>1. claim' \in [Claims -> Claim]
    <3>1. m \in Macs
      BY DEF Macs
    <3> QED
      BY <1>1, <3>1 DEF ClaimRefused, ClaimRead, Claim
  <2>2. HandlersAtWork'
    <3>1. \A x \in Claims : claim'[x].pc = "save" =>
             claim'[x].dev \in Devices /\ claim'[x].org \in Orgs
      <4>1. CASE ClaimRefused(c, d, o, s)
        BY <4>1 DEF ClaimRefused, HandlersAtWork
      <4>2. CASE ClaimRead(c, d, o, s, m)
        BY <4>2 DEF ClaimRead, HandlersAtWork
      <4> QED
        BY <1>1, <4>1, <4>2
    <3>2. UNCHANGED <<checkin, ingest>>
      BY <1>1 DEF ClaimRefused, ClaimRead
    <3> QED
      BY <3>1, <3>2 DEF HandlersAtWork
  <2> QED
    BY <1>1, <2>1, <2>2
    DEF ClaimRefused, ClaimRead, CountsWithinQuota, RowsSound, CopiesOwned, Owned
<1>2. CASE ClaimSave(c)
  <2> DEFINE d == claim[c].dev
             r == IF ~claim[c].copy.exists /\ Collides(d, claim[c].mac)
                  THEN row[d] ELSE ClaimedRow(c)
  <2>1. d \in Devices /\ claim[c].org \in Orgs
    BY <1>2 DEF ClaimSave, HandlersAtWork
  <2>2. ClaimedRow(c) \in Row /\ ClaimedRow(c).org # None /\ ClaimedRow(c).hash # NoToken
        /\ ClaimedRow(c).exists
    BY <2>1, FreshTokenExists DEF ClaimedRow, Claim, Row, Owners
  <2>3. Sound(r) /\ (Owned(d) => r.org # None)
    BY <2>1, <2>2 DEF Sound, RowsSound, Owned
  <2>4. row' = [row EXCEPT ![d] = r]
    BY <1>2 DEF ClaimSave
  <2>5. UNCHANGED <<enroll, checkin, agent, ingest, faults>>
    BY <1>2 DEF ClaimSave
  <2> HIDE DEF d, r
  <2>6. /\ row' \in [Devices -> Row] /\ RowsSound'
        /\ \A x \in Devices : Owned(x) => Owned(x)'
        /\ \A x \in Devices : agent[x].link # "never" => Owned(x)'
    BY <2>1, <2>3, <2>4, <2>5, RowWritten
  <2>7. claim' \in [Claims -> Claim]
    <3>1. claim' = [claim EXCEPT ![c] = [claim[c] EXCEPT !.pc = "done", !.copy = NoRow]]
      BY <1>2 DEF ClaimSave
    <3>2. [claim[c] EXCEPT !.pc = "done", !.copy = NoRow] \in Claim
      <4>1. claim[c] \in Claim /\ NoRow \in Row
        BY NoRowSound
      <4> HIDE DEF IInv, TypeOK
      <4> QED
        BY <4>1 DEF Claim
    <3> QED
      BY <3>1, <3>2
  <2>8. HandlersAtWork' /\ CountsWithinQuota' /\ CopiesOwned'
    BY <1>2, <2>6 DEF ClaimSave, HandlersAtWork, CountsWithinQuota, CopiesOwned
  <2> QED
    BY <2>5, <2>6, <2>7, <2>8
<1> QED
  BY <1>1, <1>2 DEF ClaimNext

\* The steps of a check-in that leave the table alone.
LEMMA CheckInReads ==
  ASSUME IInv, NEW k \in Slots,
         \/ CheckInRead(k) \/ EnrollRead(k) \/ CountUse(k) \/ Answered(k)
  PROVE  IInv' /\ \A d \in Devices : Owned(d) => Owned(d)'
<1> USE BoundAssumption, OrgAssumption DEF IInv, TypeOK
<1>1. CASE CheckInRead(k)
  <2> DEFINE d == checkin[k].dev
  <2>1. d \in Devices
    BY <1>1 DEF CheckInRead, CheckInAt, HandlersAtWork
  <2>2. AfterRead(d) \in {"save", "reply", "enroll", "create"}
        /\ (AfterRead(d) = "save" => Owned(d))
    BY <2>1 DEF AfterRead, Row
  <2>3. checkin' = [checkin EXCEPT ![k].pc = AfterRead(d), ![k].copy = row[d]]
        /\ UNCHANGED <<row, enroll, claim, agent, ingest, faults>>
    BY <1>1 DEF CheckInRead
  <2> HIDE DEF d
  <2>4. checkin' \in [Slots -> CheckIn]
    <3> DEFINE n == [checkin[k] EXCEPT !.pc = AfterRead(d), !.copy = row[d]]
    <3>1. checkin' = [checkin EXCEPT ![k] = n]
      BY <2>3
    <3>2. n \in CheckIn
      BY <2>1, <2>2 DEF CheckIn, CheckInPc
    <3> QED
      BY <3>1, <3>2
  <2>5. /\ checkin'[k].pc = AfterRead(d) /\ checkin'[k].dev = d
        /\ \A j \in Slots : j # k => checkin'[j] = checkin[j]
    BY <2>3 DEF d, CheckIn
  <2>8. HandlersAtWork'
    BY <2>1, <2>3, <2>5 DEF HandlersAtWork
  <2>9. CountsWithinQuota'
    BY <2>2, <2>5 DEF CountsWithinQuota
  <2>6. RowsSound' /\ \A x \in Devices : Owned(x) => Owned(x)'
    BY <2>3 DEF RowsSound, Owned
  <2>7. CopiesOwned'
    <3>1. \A j \in Slots : checkin'[j].pc = "save" =>
             Sound(checkin'[j].copy) /\ checkin'[j].copy.org # None
      <4>1. checkin'[k].copy = row[d]
        BY <2>3 DEF CheckIn
      <4>2. AfterRead(d) = "save" => Sound(row[d]) /\ row[d].org # None
        BY <2>1, <2>2 DEF RowsSound, Owned
      <4> QED
        BY <2>5, <4>1, <4>2 DEF CopiesOwned
    <3> QED
      BY <2>3, <2>6, <3>1 DEF CopiesOwned, Sound, Owned
  <2> QED
    BY <2>3, <2>4, <2>6, <2>7, <2>8, <2>9
<1>2. CASE EnrollRead(k)
  <2>1. checkin' \in [Slots -> CheckIn]
    <3> DEFINE n == [checkin[k] EXCEPT !.pc = IF HasQuota THEN "count" ELSE "create",
                                       !.uses = enroll.used]
    <3>1. checkin' = [checkin EXCEPT ![k] = n]
      BY <1>2 DEF EnrollRead
    <3>2. enroll.used \in Nat /\ checkin[k] \in CheckIn
      OBVIOUS
    <3>3. n \in CheckIn
      BY <3>2 DEF CheckIn, CheckInPc
    <3> QED
      BY <3>1, <3>3
  <2>2. CountsWithinQuota'
    BY <1>2 DEF EnrollRead, CountsWithinQuota, HasQuota
  <2>3. HandlersAtWork'
    BY <1>2 DEF EnrollRead, HandlersAtWork, CheckInAt
  <2> QED
    BY <1>2, <2>1, <2>2, <2>3 DEF EnrollRead, RowsSound, CopiesOwned, Owned
<1>3. CASE CountUse(k)
  <2>1. checkin' \in [Slots -> CheckIn]
    BY <1>3 DEF CountUse, CheckInTo, CheckIn, CheckInPc
  <2>2. enroll' \in [used : 0..MaxUses, valid : BOOLEAN]
    <3>1. checkin[k].uses \in Nat /\ checkin[k].uses < MaxUses
      BY <1>3 DEF CountUse, CheckInAt, CountsWithinQuota, CheckIn
    <3>2. checkin[k].uses + 1 \in 0..MaxUses
      BY <3>1
    <3> QED
      BY <1>3, <3>2 DEF CountUse
  <2>3. HandlersAtWork' /\ CountsWithinQuota'
    BY <1>3 DEF CountUse, CheckInTo, CheckInAt, HandlersAtWork, CountsWithinQuota
  <2> QED
    BY <1>3, <2>1, <2>2, <2>3 DEF CountUse, CheckInTo, RowsSound, CopiesOwned, Owned
<1>4. CASE Answered(k)
  <2>1. checkin' \in [Slots -> CheckIn]
    BY <1>4 DEF Answered, NoCheckIn, NoRow, NoToken, CheckIn, CheckInPc, Row
  <2>2. agent' \in [Devices -> Agent]
    <3> DEFINE d == checkin[k].dev
               n == IF agent[d].waiting # k THEN agent[d]
                    ELSE [agent[d] EXCEPT !.waiting = None, !.token = checkin[k].token]
    <3>1. agent' = [agent EXCEPT ![d] = n]
      BY <1>4 DEF Answered
    <3>2. d \in Devices
      BY <1>4 DEF Answered, CheckInAt, HandlersAtWork
    <3>3. checkin[k].token \in Nat
      BY DEF CheckIn
    <3>5. agent[d] \in Agent
      BY <3>2
    <3>4. n \in Agent
      <4> HIDE DEF IInv, TypeOK, d
      <4> QED
        BY <3>3, <3>5 DEF Agent
    <3> HIDE DEF d, n
    <3> QED
      BY <3>1, <3>4
  <2>3. \A d \in Devices : agent'[d].link = agent[d].link
    BY <1>4 DEF Answered, Agent
  <2>4. HandlersAtWork' /\ CountsWithinQuota'
    BY <1>4 DEF Answered, NoCheckIn, HandlersAtWork, CountsWithinQuota
  <2> QED
    BY <1>4, <2>1, <2>2, <2>3, <2>4
    DEF Answered, NoCheckIn, RowsSound, CopiesOwned, Owned
<1> QED
  BY <1>1, <1>2, <1>3, <1>4

\* The steps of a check-in that write to the table.
LEMMA CheckInWrites ==
  ASSUME IInv, NEW k \in Slots,
         CreateBound(k) \/ CreateUnclaimed(k) \/ SaveCredentials(k)
  PROVE  IInv' /\ \A d \in Devices : Owned(d) => Owned(d)'
<1> USE OrgAssumption DEF IInv, TypeOK
<1> DEFINE d == checkin[k].dev
<1>1. d \in Devices /\ checkin[k] \in CheckIn
  BY DEF CreateBound, CreateUnclaimed, SaveCredentials, CheckInAt, HandlersAtWork
<1>2. \E r : Sound(r) /\ (Owned(d) => r.org # None) /\ row' = [row EXCEPT ![d] = r]
  <2>1. CASE CreateBound(k)
    <3> DEFINE new == [exists |-> TRUE, mac |-> MacOf[d], org |-> EnrollOrg, hash |-> FreshToken,
                    secret |-> None]
    <3>1. Sound(new) /\ new.org # None
      BY <1>1, FreshTokenExists DEF Sound, Row, Owners, Macs
    <3>2. row' = [row EXCEPT ![d] = IF Collides(d, new.mac) THEN row[d] ELSE new]
      BY <2>1 DEF CreateBound, Inserted
    <3>3. Sound(row[d])
      BY <1>1 DEF Sound, RowsSound
    <3> HIDE DEF new, d
    <3> WITNESS IF Collides(d, new.mac) THEN row[d] ELSE new
    <3> QED
      BY <3>1, <3>2, <3>3 DEF Owned
  <2>2. CASE CreateUnclaimed(k)
    <3> DEFINE new == [NoRow EXCEPT !.exists = TRUE, !.mac = MacOf[d]]
    <3>1. row[d].exists \in BOOLEAN /\ Sound(row[d])
      BY <1>1 DEF Sound, RowsSound, Row
    <3>2. row' = [row EXCEPT ![d] = IF Collides(d, new.mac) THEN row[d] ELSE new]
      BY <2>2 DEF CreateUnclaimed, Inserted
    <3>3. Sound(new)
      BY <1>1 DEF Sound, Row, Owners, NoRow, NoToken, Macs
    <3>4. Owned(d) => Collides(d, new.mac)
      BY <3>1 DEF Sound, Owned, Collides
    <3> HIDE DEF new, d
    <3> WITNESS IF Collides(d, new.mac) THEN row[d] ELSE new
    <3> QED
      BY <3>1, <3>2, <3>3, <3>4 DEF Owned
  <2>3. CASE SaveCredentials(k)
    <3> DEFINE new == Refreshed(k, FreshToken)
    <3>1. Sound(checkin[k].copy) /\ checkin[k].copy.org # None
      BY <1>1, <2>3 DEF SaveCredentials, CheckInAt, CopiesOwned, CheckIn
    <3>2. Sound(new) /\ new.org # None
      BY <3>1, FreshTokenExists DEF Sound, Refreshed, Row
    <3>3. row' = [row EXCEPT ![d] = new]
      BY <2>3 DEF SaveCredentials
    <3> QED
      BY <3>2, <3>3
  <2> QED
    BY <2>1, <2>2, <2>3
<1>3. UNCHANGED <<enroll, claim, agent, ingest, faults>>
  BY DEF CreateBound, CreateUnclaimed, SaveCredentials
<1>4. /\ row' \in [Devices -> Row] /\ RowsSound'
      /\ \A x \in Devices : Owned(x) => Owned(x)'
      /\ \A x \in Devices : agent[x].link # "never" => Owned(x)'
  <2> HIDE DEF d
  <2> QED
    BY <1>1, <1>2, <1>3, RowWritten
<1>5. checkin' \in [Slots -> CheckIn] /\ checkin'[k].pc = "reply"
      /\ checkin'[k].dev = d /\ \A j \in Slots : j # k => checkin'[j] = checkin[j]
  <2> DEFINE n(t, r) == [checkin[k] EXCEPT !.pc = "reply", !.token = t, !.copy = r]
  <2>1. \E t \in Nat, r \in Row : checkin' = [checkin EXCEPT ![k] = n(t, r)]
    <3>1. FreshToken \in Nat /\ NoRow \in Row
      BY FreshTokenExists, NoRowSound
    <3>2. checkin[k].token \in Nat /\ checkin[k].copy \in Row
      BY <1>1 DEF CheckIn
    <3>3. CASE CreateBound(k)
      <4>1. checkin' = [checkin EXCEPT ![k] = n(FreshToken, checkin[k].copy)]
        BY <3>3, <1>1 DEF CreateBound, CheckIn
      <4> QED
        BY <3>1, <3>2, <4>1
    <3>4. CASE CreateUnclaimed(k)
      <4>1. checkin' = [checkin EXCEPT ![k] = n(checkin[k].token, checkin[k].copy)]
        BY <3>4, <1>1 DEF CreateUnclaimed, CheckInTo, CheckIn
      <4> QED
        BY <3>2, <4>1
    <3>5. CASE SaveCredentials(k)
      <4>1. checkin' = [checkin EXCEPT ![k] = n(FreshToken, NoRow)]
        BY <3>5, <1>1 DEF SaveCredentials, CheckIn
      <4> QED
        BY <3>1, <4>1
    <3> QED
      BY <3>3, <3>4, <3>5
  <2>2. PICK t \in Nat, r \in Row : checkin' = [checkin EXCEPT ![k] = n(t, r)]
    BY <2>1
  <2>3. n(t, r) \in CheckIn /\ n(t, r).pc = "reply" /\ n(t, r).dev = d
    BY <1>1 DEF CheckIn, CheckInPc
  <2> HIDE DEF n
  <2> QED
    BY <2>2, <2>3
<1>6. HandlersAtWork' /\ CountsWithinQuota' /\ CopiesOwned'
  BY <1>1, <1>3, <1>4, <1>5 DEF HandlersAtWork, CountsWithinQuota, CopiesOwned
<1> QED
  BY <1>3, <1>4, <1>5, <1>6

\* What an agent does about MQTT but connecting.
MqttStarts(d) == InitMqtt(d) \/ InitMqttFails(d) \/ Restart(d)

\* The agent, its connection, and telemetry.
LEMMA DeviceStep ==
  ASSUME IInv, NEW d \in Devices,
         \/ AgentAsks(d) \/ GiveUp(d) \/ MqttStarts(d) \/ IngestRead(d)
         \/ Connect(d) \/ ConnectRefused(d) \/ Drop(d)
  PROVE  IInv' /\ \A x \in Devices : Owned(x) => Owned(x)'
<1> USE BoundAssumption, OrgAssumption DEF IInv, TypeOK
<1>1. ASSUME NEW k \in Slots, CheckInSent(k, d)
      PROVE  IInv' /\ \A x \in Devices : Owned(x) => Owned(x)'
  <2>1. UNCHANGED <<row, enroll, claim, ingest, faults>>
    BY <1>1 DEF CheckInSent
  <2>2. agent' \in [Devices -> Agent] /\ \A x \in Devices : agent'[x].link = agent[x].link
    BY <1>1 DEF CheckInSent, Agent
  <2> DEFINE n == [NoCheckIn EXCEPT !.pc = "read", !.dev = d]
  <2>3. checkin' = [checkin EXCEPT ![k] = n]
    BY <1>1 DEF CheckInSent
  <2>4. n \in CheckIn /\ n.pc = "read" /\ n.dev = d
    BY NoRowSound DEF NoCheckIn, NoToken, CheckIn, CheckInPc
  <2> HIDE DEF n
  <2>5. checkin' \in [Slots -> CheckIn]
    BY <2>3, <2>4
  <2>6. HandlersAtWork' /\ CountsWithinQuota' /\ CopiesOwned'
    BY <2>1, <2>2, <2>3, <2>4 DEF HandlersAtWork, CountsWithinQuota, CopiesOwned, Sound, Owned
  <2> QED
    BY <2>1, <2>2, <2>5, <2>6 DEF RowsSound, Sound, Owned
<1>2. CASE GiveUp(d) \/ Drop(d) \/ Connect(d) \/ MqttStarts(d)
  <2> USE DEF MqttStarts
  <2>1. UNCHANGED <<row, enroll, claim, checkin, ingest>>
    BY <1>2 DEF GiveUp, Drop, Connect, InitMqtt, InitMqttFails, Restart
  <2>2. faults' \in [lost : 0..MaxLost, drops : 0..MaxDrops, inits : 0..MaxFailedInits]
    <3>1. CASE GiveUp(d)
      <4>1. faults.lost + 1 \in 0..MaxLost
        BY <3>1 DEF GiveUp
      <4> QED
        BY <3>1, <4>1 DEF GiveUp
    <3>2. CASE Drop(d) \/ Restart(d)
      <4>1. faults.drops + 1 \in 0..MaxDrops
        BY <3>2 DEF Drop, Restart
      <4> QED
        BY <3>2, <4>1 DEF Drop, Restart
    <3>3. CASE Connect(d) \/ InitMqtt(d)
      BY <3>3 DEF Connect, InitMqtt
    <3>4. CASE InitMqttFails(d)
      <4>1. faults.inits + 1 \in 0..MaxFailedInits
        BY <3>4 DEF InitMqttFails
      <4> QED
        BY <3>4, <4>1 DEF InitMqttFails
    <3> QED
      BY <1>2, <3>1, <3>2, <3>3, <3>4
  <2>3. agent' \in [Devices -> Agent]
    <3>1. CASE GiveUp(d) \/ Drop(d) \/ Connect(d)
      BY <3>1 DEF GiveUp, Drop, Connect, Agent
    <3>2. CASE MqttStarts(d)
      BY <3>2 DEF InitMqtt, InitMqttFails, Restart, Agent
    <3> QED
      BY <1>2, <3>1, <3>2
  <2>4. \A x \in Devices : agent'[x].link # "never" => agent[x].link # "never" \/ Owned(x)
    <3>1. CASE GiveUp(d) \/ Drop(d) \/ Connect(d)
      BY <3>1 DEF GiveUp, Drop, Connect, Accepted, Agent, RowsSound, Sound, Owned
    <3>2. CASE MqttStarts(d)
      BY <3>2 DEF InitMqtt, InitMqttFails, Restart, Agent
    <3> QED
      BY <1>2, <3>1, <3>2
  <2>5. CopiesOwned'
    BY <2>1, <2>4 DEF CopiesOwned, Sound, Owned
  <2> QED
    BY <2>1, <2>2, <2>3, <2>5 DEF HandlersAtWork, CountsWithinQuota, RowsSound, Sound, Owned
<1>3. CASE ConnectRefused(d)
  BY <1>3 DEF ConnectRefused, vars, HandlersAtWork, CountsWithinQuota, RowsSound, Sound,
              CopiesOwned, Owned
<1>4. CASE IngestRead(d)
  <2>1. UNCHANGED <<row, enroll, claim, checkin, agent, faults>>
        /\ ingest' = [busy |-> TRUE, dev |-> d, copy |-> row[d]]
    BY <1>4 DEF IngestRead
  <2>2. Sound(row[d]) /\ row[d].org # None
    BY <1>4 DEF IngestRead, CopiesOwned, RowsSound, Owned
  <2>3. CopiesOwned'
    BY <2>1, <2>2 DEF CopiesOwned, Sound, Owned
  <2> QED
    BY <2>1, <2>3 DEF HandlersAtWork, CountsWithinQuota, RowsSound, Sound, Owned
<1> QED
  BY <1>1, <1>2, <1>3, <1>4 DEF AgentAsks

LEMMA OtherStep ==
  ASSUME IInv, EnrollEnds \/ IngestSave \/ UNCHANGED vars
  PROVE  IInv' /\ \A x \in Devices : Owned(x) => Owned(x)'
<1> USE OrgAssumption DEF IInv, TypeOK
<1>1. CASE EnrollEnds
  BY <1>1 DEF EnrollEnds, HandlersAtWork, CountsWithinQuota, RowsSound, Sound, CopiesOwned, Owned
<1>2. CASE IngestSave
  <2>1. UNCHANGED <<enroll, claim, checkin, agent, faults>> /\ ingest' = NoIngest
    BY <1>2 DEF IngestSave
  <2>2. ingest.dev \in Devices /\ Sound(ingest.copy) /\ ingest.copy.org # None
        /\ row' = [row EXCEPT ![ingest.dev] = ingest.copy]
    BY <1>2 DEF IngestSave, HandlersAtWork, CopiesOwned
  <2>3. /\ row' \in [Devices -> Row] /\ RowsSound'
        /\ \A x \in Devices : Owned(x) => Owned(x)'
        /\ \A x \in Devices : agent[x].link # "never" => Owned(x)'
    BY <2>1, <2>2, RowWritten
  <2>4. ingest' \in [busy : BOOLEAN, dev : Devices \cup {None}, copy : Row]
    BY <2>1, NoRowSound DEF NoIngest
  <2>5. HandlersAtWork' /\ CountsWithinQuota' /\ CopiesOwned'
    BY <2>1, <2>3 DEF HandlersAtWork, CountsWithinQuota, CopiesOwned, Sound, NoIngest
  <2> QED
    BY <2>1, <2>3, <2>4, <2>5
<1>3. CASE UNCHANGED vars
  BY <1>3 DEF vars, HandlersAtWork, CountsWithinQuota, RowsSound, Sound, CopiesOwned, Owned
<1> QED
  BY <1>1, <1>2, <1>3

LEMMA Step ==
  ASSUME IInv, [Next]_vars PROVE IInv' /\ \A d \in Devices : Owned(d) => Owned(d)'
<1>1. ASSUME NEW k \in Slots, CheckInHandler(k)
      PROVE  IInv' /\ \A d \in Devices : Owned(d) => Owned(d)'
  <2>1. CASE CheckInRead(k) \/ EnrollRead(k) \/ CountUse(k) \/ Answered(k)
    BY <2>1, CheckInReads
  <2>2. CASE CreateBound(k) \/ CreateUnclaimed(k) \/ SaveCredentials(k)
    BY <2>2, CheckInWrites
  <2> QED
    BY <1>1, <2>1, <2>2 DEF CheckInHandler
<1> QED
  BY <1>1, ClaimStep, DeviceStep, OtherStep DEF Next, MqttStarts

-----------------------------------------------------------------------------
\* The inductive invariant holds.
LEMMA ProvisionInvariance == Spec => []IInv
<1>1. IInv /\ [Next]_vars => IInv'
  BY Step
<1> QED
  BY InitIInv, <1>1, PTL DEF Spec

\* Type correctness; in particular the counted uses of the enrollment token
\* never exceed its quota, whatever becomes of the bound devices.
THEOREM ProvisionTypeCorrect == Spec => []TypeOK
<1>1. IInv => TypeOK
  BY DEF IInv
<1> QED
  BY <1>1, ProvisionInvariance, PTL

\* A device has credentials exactly if it has an owner.
THEOREM OwnersHaveCredentials == Spec => []CredentialedIffOwned
<1>1. IInv => CredentialedIffOwned
  BY DEF IInv, RowsSound, Sound, CredentialedIffOwned
<1> QED
  BY <1>1, ProvisionInvariance, PTL

\* A device that has an owner keeps one: every row that claims, check-ins and
\* telemetry write back over an owned one is owned, however stale it is.
THEOREM OwnedForGood == Spec => StaysOwned
<1>1. IInv /\ [Next]_vars => [\A d \in Devices : Owned(d) => Owned(d)']_vars
  BY Step
<1> QED
  BY <1>1, ProvisionInvariance, PTL DEF Spec, StaysOwned

-----------------------------------------------------------------------------
(* Nobody is locked out, as long as every device gets its credentials in   *)
(* one way, and the agent waits for a handler as long as it works.         *)

\* A device is claimed once, and not if its agent enrolls it: the second claim
\* of an owner gives the device credentials that its agent never hears of.
ClaimedOnce ==
    \A c \in Claims : claim[c].dev # None =>
       /\ claim[c].dev \notin Enrolling
       /\ \A e \in Claims : claim[e].dev = claim[c].dev => e = c

\* An agent without a token waits for the only handler of its check-in that has
\* not decided what to answer.
OneHandler ==
    /\ \A d \in Devices, k \in Slots : agent[d].waiting = k =>
          checkin[k].dev = d /\ checkin[k].pc # "idle" /\ agent[d].token = NoToken
    /\ \A k \in Slots : checkin[k].pc \notin {"idle", "reply"} =>
          agent[checkin[k].dev].waiting = k

\* What a handler has read is still so when it acts on it.
HandlersKnow ==
    /\ \A k \in Slots : checkin[k].pc # "reply" => checkin[k].token = NoToken
    /\ \A k \in Slots : checkin[k].pc \in {"enroll", "count", "bind"} =>
          checkin[k].dev \in Enrolling /\ ~row[checkin[k].dev].exists
    /\ \A k \in Slots : checkin[k].pc = "save" => Owned(checkin[k].dev)

\* So is what telemetry writes back.
TelemetryFresh ==
    /\ \A d \in Devices : agent[d].link # "never" => agent[d].token # NoToken
    /\ ingest.busy => agent[ingest.dev].token # NoToken /\ ingest.copy = row[ingest.dev]

\* The token an agent has, or is about to get, is the one in its row.
TokensMatch ==
    /\ \A d \in Devices : agent[d].token \in {NoToken, row[d].hash}
    /\ \A d \in Devices, k \in Slots : agent[d].waiting = k /\ checkin[k].pc = "reply" =>
          checkin[k].token \in {NoToken, row[d].hash}

\* An owner comes by the enrollment token or by a claim.
OwnedOneWay ==
    \A d \in Devices : Owned(d) =>
       d \in Enrolling \/ \E c \in Claims : claim[c].pc = "done" /\ claim[c].dev = d

\* What makes NoLockout inductive.
Matching == OneHandler /\ HandlersKnow /\ TelemetryFresh /\ TokensMatch /\ OwnedOneWay

\* Where what is going to be written comes from: it was in hand before, or is what
\* the row has now.
LEMMA CopiesComeFrom ==
  ASSUME IInv, [Next]_vars
  PROVE  /\ \A c \in Claims : claim'[c].pc = "save" =>
               \/ claim'[c] = claim[c]
               \/ /\ UNCHANGED row /\ claim'[c].copy = row[claim'[c].dev]
                  /\ row[claim'[c].dev].org \in {None, claim'[c].org}
                  /\ claim'[c].mac \in {MacOf[claim'[c].dev]} \cup Mistyped
         /\ \A k \in Slots : checkin'[k].pc = "save" =>
               \/ checkin'[k] = checkin[k]
               \/ UNCHANGED row /\ checkin'[k].copy = row[checkin'[k].dev]
         /\ ingest'.busy => \/ ingest' = ingest
                            \/ UNCHANGED row /\ ingest'.copy = row[ingest'.dev]
<1> USE DEF IInv, TypeOK
<1>1. ASSUME NEW c \in Claims, ClaimSave(c)
      PROVE  /\ \A e \in Claims : claim'[e].pc = "save" => claim'[e] = claim[e]
             /\ UNCHANGED <<checkin, ingest>>
  BY <1>1 DEF ClaimSave, Claim
<1>2. ASSUME NEW c \in Claims, NEW d \in Devices, NEW o \in Orgs, NEW s \in Secrets,
             NEW m \in {MacOf[d]} \cup Mistyped,
             ClaimRefused(c, d, o, s) \/ ClaimRead(c, d, o, s, m)
      PROVE  /\ UNCHANGED <<row, checkin, ingest>>
             /\ \A e \in Claims : claim'[e].pc = "save" =>
                   \/ claim'[e] = claim[e]
                   \/ /\ claim'[e].copy = row[claim'[e].dev]
                      /\ row[claim'[e].dev].org \in {None, claim'[e].org}
                      /\ claim'[e].mac \in {MacOf[claim'[e].dev]} \cup Mistyped
  BY <1>2 DEF ClaimRefused, ClaimRead, OtherOwner, Claim
<1>3. ASSUME NEW k \in Slots, CheckInHandler(k)
      PROVE  /\ UNCHANGED <<claim, ingest>>
             /\ \A j \in Slots : checkin'[j].pc = "save" =>
                   \/ checkin'[j] = checkin[j]
                   \/ UNCHANGED row /\ checkin'[j].copy = row[checkin'[j].dev]
  <2>1. CASE CheckInRead(k)
    BY <2>1 DEF CheckInRead, CheckIn
  <2>2. CASE EnrollRead(k) \/ CountUse(k) \/ Answered(k)
    BY <2>2 DEF EnrollRead, CountUse, Answered, CheckInTo, NoCheckIn, CheckIn
  <2>3. CASE CreateBound(k) \/ CreateUnclaimed(k) \/ SaveCredentials(k)
    BY <2>3 DEF CreateBound, CreateUnclaimed, SaveCredentials, CheckInTo, CheckIn
  <2> QED
    BY <1>3, <2>1, <2>2, <2>3 DEF CheckInHandler
<1>4. ASSUME NEW d \in Devices, AgentAsks(d)
      PROVE  /\ UNCHANGED <<row, claim, ingest>>
             /\ \A j \in Slots : checkin'[j].pc = "save" => checkin'[j] = checkin[j]
  BY <1>4 DEF AgentAsks, CheckInSent, NoCheckIn, CheckIn
<1>5. ASSUME NEW d \in Devices, IngestRead(d)
      PROVE  UNCHANGED <<row, claim, checkin>> /\ ingest'.copy = row[ingest'.dev]
  BY <1>5 DEF IngestRead
<1>6. ASSUME NEW d \in Devices,
             GiveUp(d) \/ MqttStarts(d) \/ Connect(d) \/ ConnectRefused(d) \/ Drop(d)
      PROVE  UNCHANGED <<row, claim, checkin, ingest>>
  BY <1>6 DEF GiveUp, MqttStarts, InitMqtt, InitMqttFails, Restart, Connect, ConnectRefused,
              Drop, vars
<1>7. CASE EnrollEnds \/ UNCHANGED vars
  BY <1>7 DEF EnrollEnds, vars
<1>8. CASE IngestSave
  BY <1>8 DEF IngestSave, NoIngest
<1> HIDE DEF IInv, TypeOK
<1>9. CASE \E c \in Claims : ClaimNext(c)
  BY <1>1, <1>2, <1>9 DEF ClaimNext
<1> QED
  BY <1>3, <1>4, <1>5, <1>6, <1>7, <1>8, <1>9 DEF Next, MqttStarts

\* Every router has a MAC address of its own, and claims carry it.
OwnMacs ==
    /\ \A d, e \in Devices : MacOf[d] = MacOf[e] => d = e
    /\ Mistyped = {}

\* Then so do the rows, and what is going to be written to them.
AddressesOwn ==
    /\ \A d \in Devices : row[d].exists => row[d].mac = MacOf[d]
    /\ \A c \in Claims : claim[c].pc = "save" =>
          /\ claim[c].mac = MacOf[claim[c].dev]
          /\ claim[c].copy.exists => claim[c].copy.mac = MacOf[claim[c].dev]
    /\ \A k \in Slots : checkin[k].pc = "save" /\ checkin[k].copy.exists =>
          checkin[k].copy.mac = MacOf[checkin[k].dev]
    /\ ingest.busy /\ ingest.copy.exists => ingest.copy.mac = MacOf[ingest.dev]

LEMMA AddressesStep ==
  ASSUME OwnMacs, IInv, AddressesOwn, [Next]_vars PROVE AddressesOwn'
<1>1. \A d \in Devices : row'[d].exists => row'[d].mac = MacOf[d]
  <2> SUFFICES ASSUME NEW d \in Devices, row'[d] # row[d], row'[d].exists
               PROVE  row'[d].mac = MacOf[d]
    BY DEF AddressesOwn
  <2> USE DEF IInv, TypeOK
  <2>1. ASSUME NEW c \in Claims, ClaimSave(c) PROVE row'[d].mac = MacOf[d]
    <3>1. claim[c].dev = d /\ row'[d] = ClaimedRow(c) /\ claim[c].pc = "save"
      BY <2>1 DEF ClaimSave
    <3> QED
      BY <3>1 DEF ClaimedRow, AddressesOwn
  <2>2. ASSUME NEW k \in Slots, CreateBound(k) PROVE row'[d].mac = MacOf[d]
    BY <2>2 DEF CreateBound, Inserted
  <2>3. ASSUME NEW k \in Slots, CreateUnclaimed(k) PROVE row'[d].mac = MacOf[d]
    BY <2>3 DEF CreateUnclaimed, Inserted, NoRow
  <2>4. ASSUME NEW k \in Slots, SaveCredentials(k) PROVE row'[d].mac = MacOf[d]
    <3>1. /\ checkin[k].dev = d /\ row'[d] = [checkin[k].copy EXCEPT !.hash = FreshToken]
          /\ checkin[k].pc = "save" /\ checkin[k].copy \in Row
      BY <2>4 DEF SaveCredentials, Refreshed, CheckInAt, CheckIn
    <3>2. row'[d].mac = checkin[k].copy.mac /\ row'[d].exists = checkin[k].copy.exists
      BY <3>1 DEF Row
    <3> QED
      BY <3>1, <3>2 DEF AddressesOwn
  <2>5. ASSUME IngestSave PROVE row'[d].mac = MacOf[d]
    BY <2>5 DEF IngestSave, AddressesOwn
  <2>6. CASE UNCHANGED vars
    BY <2>6 DEF vars
  <2>7. CASE \E c \in Claims : ClaimNext(c)
    BY <2>1, <2>7 DEF ClaimNext, ClaimRefused, ClaimRead
  <2>8. CASE \E k \in Slots : CheckInHandler(k)
    BY <2>2, <2>3, <2>4, <2>8 DEF CheckInHandler, CheckInRead, EnrollRead, CountUse, Answered
  <2>9. CASE \E x \in Devices : AgentAsks(x) \/ GiveUp(x) \/ MqttStarts(x)
                   \/ Connect(x) \/ ConnectRefused(x) \/ Drop(x) \/ IngestRead(x)
    BY <2>9 DEF AgentAsks, CheckInSent, GiveUp, Connect, ConnectRefused, Drop, IngestRead,
                MqttStarts, InitMqtt, InitMqttFails, Restart, vars
  <2>10. CASE EnrollEnds
    BY <2>10 DEF EnrollEnds
  <2> HIDE DEF IInv, TypeOK
  <2> QED
    BY <2>5, <2>6, <2>7, <2>8, <2>9, <2>10 DEF Next, MqttStarts
<1>2. ASSUME NEW c \in Claims, claim'[c].pc = "save"
      PROVE  /\ claim'[c].mac = MacOf[claim'[c].dev]
             /\ claim'[c].copy.exists => claim'[c].copy.mac = MacOf[claim'[c].dev]
  <2>1. claim'[c].dev \in Devices
    BY <1>2, Step DEF IInv, HandlersAtWork
  <2> QED
    BY <1>2, <2>1, CopiesComeFrom DEF AddressesOwn, OwnMacs
<1>3. ASSUME NEW k \in Slots, checkin'[k].pc = "save", checkin'[k].copy.exists
      PROVE  checkin'[k].copy.mac = MacOf[checkin'[k].dev]
  <2>1. checkin'[k].dev \in Devices
    BY <1>3, Step DEF IInv, HandlersAtWork
  <2> QED
    BY <1>3, <2>1, CopiesComeFrom DEF AddressesOwn
<1>4. ASSUME ingest'.busy, ingest'.copy.exists PROVE ingest'.copy.mac = MacOf[ingest'.dev]
  <2>1. ingest'.dev \in Devices
    BY <1>4, Step DEF IInv, HandlersAtWork
  <2> QED
    BY <1>4, <2>1, CopiesComeFrom DEF AddressesOwn
<1> QED
  BY <1>1, <1>2, <1>3, <1>4 DEF AddressesOwn

\* The inductive invariant of the tokens.
NInv == IInv /\ Matching /\ AddressesOwn

\* A claim gives credentials to a device that has none, so that no agent has,
\* waits for or writes back others.
LEMMA MatchingClaim ==
  ASSUME NInv, ClaimedOnce, NEW c \in Claims, ClaimNext(c)
  PROVE  Matching'
<1>1. ASSUME NEW d \in Devices, NEW o \in Orgs, NEW s \in Secrets,
             NEW m \in {MacOf[d]} \cup Mistyped,
             ClaimRefused(c, d, o, s) \/ ClaimRead(c, d, o, s, m)
      PROVE  Matching'
  <2>1. /\ UNCHANGED <<row, checkin, agent, ingest>> /\ claim[c].pc = "idle"
        /\ \A e \in Claims : e # c => claim'[e] = claim[e]
    BY <1>1 DEF ClaimRefused, ClaimRead, NInv, IInv, TypeOK
  <2>2. OwnedOneWay'
    BY <2>1 DEF OwnedOneWay, Owned, NInv, Matching
  <2> QED
    BY <2>1, <2>2
    DEF Matching, NInv, OneHandler, HandlersKnow, TelemetryFresh, TokensMatch, Owned
<1>2. CASE ClaimSave(c)
  <2> DEFINE d == claim[c].dev
  <2>1. /\ d \in Devices /\ d # None /\ claim[c].org \in Orgs /\ claim[c].org # None
        /\ claim[c].pc = "save" /\ UNCHANGED <<checkin, agent, ingest>>
        /\ \A e \in Claims : claim'[e].dev = claim[e].dev /\ (claim[e].pc = "done" => claim'[e].pc = "done")
        /\ claim'[c].pc = "done"
    BY <1>2, OrgAssumption DEF ClaimSave, NInv, IInv, TypeOK, HandlersAtWork, Claim
  <2>2. CASE row' = row
    BY <2>1, <2>2
    DEF Matching, NInv, OneHandler, HandlersKnow, TelemetryFresh, TokensMatch, OwnedOneWay, Owned
  <2>3. CASE row' # row
    <3>1. /\ \A x \in Devices : x # d => row'[x] = row[x]
          /\ row'[d].org # None
      BY <1>2, <2>1, <2>3 DEF ClaimSave, ClaimedRow, NInv, IInv, TypeOK
    <3>2. d \notin Enrolling /\ ~Owned(d)
      BY <2>1 DEF ClaimedOnce, NInv, Matching, OwnedOneWay
    <3>3. row[d].hash = NoToken
      BY <2>1, <3>2 DEF NInv, IInv, RowsSound, Sound, Owned
    <3>4. agent[d].token = NoToken
      BY <2>1, <3>3 DEF NInv, Matching, TokensMatch
    <3>5. OneHandler'
      BY <2>1 DEF NInv, Matching, OneHandler
    <3>6. HandlersKnow'
      <4>1. ASSUME NEW k \in Slots, checkin[k].pc \in {"enroll", "count", "bind", "save"}
            PROVE  checkin[k].dev \in Devices /\ checkin[k].dev # d
        BY <3>2, <4>1 DEF NInv, IInv, HandlersAtWork, Matching, HandlersKnow
      <4> QED
        BY <2>1, <3>1, <4>1 DEF NInv, Matching, HandlersKnow, Owned
    <3>7. TelemetryFresh'
      BY <2>1, <3>1, <3>4 DEF NInv, IInv, HandlersAtWork, Matching, TelemetryFresh
    <3>8. TokensMatch'
      BY <2>1, <3>1, <3>3, <3>4 DEF NInv, Matching, TokensMatch
    <3>9. OwnedOneWay'
      BY <2>1, <3>1 DEF NInv, Matching, OwnedOneWay, Owned
    <3> QED
      BY <3>5, <3>6, <3>7, <3>8, <3>9 DEF Matching
  <2> QED
    BY <2>2, <2>3
<1> QED
  BY <1>1, <1>2 DEF ClaimNext

\* The steps of a check-in that leave the table alone.
LEMMA MatchingReads ==
  ASSUME NInv, NEW k \in Slots,
         \/ CheckInRead(k) \/ EnrollRead(k) \/ CountUse(k) \/ Answered(k)
  PROVE  Matching'
<1> DEFINE d == checkin[k].dev
<1>1. UNCHANGED <<row, claim, ingest>> /\ d \in Devices /\ checkin[k].pc # "idle"
  BY DEF CheckInRead, EnrollRead, CountUse, Answered, CheckInAt, NInv, IInv, HandlersAtWork
<1>2. \A j \in Slots : j # k => checkin'[j] = checkin[j]
  BY DEF CheckInRead, EnrollRead, CountUse, Answered, CheckInTo, NInv, IInv, TypeOK
<1>3. CASE CheckInRead(k) \/ EnrollRead(k) \/ CountUse(k)
  <2>1. /\ UNCHANGED agent /\ checkin[k].pc \notin {"idle", "reply"}
        /\ checkin'[k].dev = d /\ checkin'[k].token = checkin[k].token /\ checkin'[k].pc # "idle"
        /\ checkin'[k].pc \in {"enroll", "count", "bind"} => d \in Enrolling /\ ~row[d].exists
        /\ checkin'[k].pc = "save" => Owned(d)
    <3>1. CASE CheckInRead(k)
      <4>1. /\ UNCHANGED agent /\ checkin[k].pc = "read" /\ checkin'[k].dev = d
            /\ checkin'[k].token = checkin[k].token /\ checkin'[k].pc = AfterRead(d)
        BY <3>1 DEF CheckInRead, CheckInAt, NInv, IInv, TypeOK, CheckIn
      <4>2. /\ AfterRead(d) \in {"save", "reply", "enroll", "create"}
            /\ AfterRead(d) = "enroll" => d \in Enrolling /\ ~row[d].exists
            /\ AfterRead(d) = "save" => Owned(d)
        BY DEF AfterRead
      <4> QED
        BY <4>1, <4>2
    <3>2. CASE EnrollRead(k)
      BY <3>2 DEF EnrollRead, CheckInAt, NInv, IInv, TypeOK, CheckIn, Matching, HandlersKnow
    <3>3. CASE CountUse(k)
      BY <3>3 DEF CountUse, CheckInAt, CheckInTo, NInv, IInv, TypeOK, CheckIn, Matching, HandlersKnow
    <3> QED
      BY <1>3, <3>1, <3>2, <3>3
  <2>2. checkin'[k].token = NoToken
    BY <2>1 DEF NInv, Matching, HandlersKnow
  <2>3. OneHandler'
    BY <1>2, <2>1 DEF NInv, Matching, OneHandler
  <2>4. HandlersKnow'
    BY <1>1, <1>2, <2>1, <2>2 DEF NInv, Matching, HandlersKnow, Owned
  <2>5. TokensMatch'
    BY <1>1, <1>2, <2>1, <2>2 DEF NInv, Matching, TokensMatch
  <2> QED
    BY <1>1, <2>1, <2>3, <2>4, <2>5 DEF NInv, Matching, TelemetryFresh, OwnedOneWay, Owned
<1>4. CASE Answered(k)
  <2>1. /\ checkin[k].pc = "reply" /\ checkin'[k].pc = "idle" /\ checkin'[k].token = NoToken
        /\ \A x \in Devices : agent'[x].link = agent[x].link
        /\ \A x \in Devices : x # d \/ agent[d].waiting # k => agent'[x] = agent[x]
        /\ agent[d].waiting = k => agent'[d].waiting = None /\ agent'[d].token = checkin[k].token
    BY <1>1, <1>4 DEF Answered, CheckInAt, NoCheckIn, NInv, IInv, TypeOK, Agent
  <2>2. agent[d].waiting = k => agent[d].token = NoToken
    BY <1>1 DEF NInv, Matching, OneHandler
  <2>3. OneHandler'
    <3>1. ASSUME NEW x \in Devices, NEW j \in Slots, agent'[x].waiting = j
          PROVE  checkin'[j].dev = x /\ checkin'[j].pc # "idle" /\ agent'[x].token = NoToken
      <4>1. agent'[x] = agent[x]
        BY <1>1, <2>1, <3>1, OrgAssumption
      <4>2. j # k
        <5>1. CASE x = d
          BY <2>1, <3>1, <5>1, OrgAssumption
        <5>2. CASE x # d
          BY <3>1, <4>1, <5>2 DEF NInv, Matching, OneHandler
        <5> QED
          BY <5>1, <5>2
      <4> QED
        BY <1>2, <3>1, <4>1, <4>2 DEF NInv, Matching, OneHandler
    <3>2. ASSUME NEW j \in Slots, checkin'[j].pc \notin {"idle", "reply"}
          PROVE  agent'[checkin'[j].dev].waiting = j
      <4>1. j # k /\ checkin'[j] = checkin[j] /\ checkin[j].dev \in Devices
        BY <1>2, <2>1, <3>2 DEF NInv, IInv, HandlersAtWork
      <4> QED
        BY <2>1, <3>2, <4>1 DEF NInv, Matching, OneHandler
    <3> QED
      BY <3>1, <3>2 DEF OneHandler
  <2>4. HandlersKnow'
    BY <1>1, <1>2, <2>1 DEF NInv, Matching, HandlersKnow, Owned
  <2>5. TelemetryFresh'
    BY <1>1, <2>1, <2>2 DEF NInv, IInv, HandlersAtWork, Matching, TelemetryFresh
  <2>6. TokensMatch'
    BY <1>1, <1>2, <2>1, OrgAssumption DEF NInv, Matching, TokensMatch
  <2> QED
    BY <1>1, <2>3, <2>4, <2>5, <2>6 DEF NInv, Matching, OwnedOneWay, Owned
<1> QED
  BY <1>3, <1>4

\* The steps of a check-in that write to the table: the agent waits for what
\* they write.
LEMMA MatchingWrites ==
  ASSUME OwnMacs, NInv, NEW k \in Slots,
         CreateBound(k) \/ CreateUnclaimed(k) \/ SaveCredentials(k)
  PROVE  Matching'
<1> DEFINE d == checkin[k].dev
<1>1. /\ UNCHANGED <<claim, agent, ingest>> /\ d \in Devices
      /\ checkin[k].pc \in {"bind", "create", "save"}
      /\ checkin'[k].dev = d /\ checkin'[k].pc = "reply"
      /\ \A j \in Slots : j # k => checkin'[j] = checkin[j]
      /\ \A x \in Devices : x # d => row'[x] = row[x]
  BY DEF CreateBound, CreateUnclaimed, SaveCredentials, CheckInAt, CheckInTo, Inserted,
         NInv, IInv, TypeOK, CheckIn, HandlersAtWork
<1>2. agent[d].waiting = k /\ agent[d].token = NoToken
  BY <1>1 DEF NInv, Matching, OneHandler
<1>3. /\ checkin'[k].token \in {NoToken, row'[d].hash}
      /\ row[d].org # None => row'[d].org # None
      /\ row'[d].org # None => row[d].org # None \/ d \in Enrolling
  <2>1. CASE CreateBound(k)
    <3>1. d \in Enrolling /\ ~row[d].exists
      BY <2>1 DEF CreateBound, CheckInAt, NInv, Matching, HandlersKnow
    <3>2. row[d].org = None
      BY <1>1, <3>1 DEF NInv, IInv, RowsSound, Sound
    <3>3. ~Collides(d, MacOf[d])
      BY <1>1, <3>1 DEF Collides, OwnMacs, NInv, AddressesOwn
    <3>4. row'[d].hash = FreshToken /\ checkin'[k].token = FreshToken
      BY <1>1, <2>1, <3>3 DEF CreateBound, Inserted, NInv, IInv, TypeOK, CheckIn
    <3> QED
      BY <3>1, <3>2, <3>4
  <2>2. CASE CreateUnclaimed(k)
    <3>1. checkin'[k].token = NoToken
      <4>1. checkin'[k].token = checkin[k].token /\ checkin[k].pc = "create"
        BY <2>2 DEF CreateUnclaimed, CheckInAt, CheckInTo, NInv, IInv, TypeOK, CheckIn
      <4> QED
        BY <4>1 DEF NInv, Matching, HandlersKnow
    <3>2. row'[d].org = row[d].org
      <4>1. ~row[d].exists => row[d].org = None
        BY <1>1 DEF NInv, IInv, RowsSound, Sound
      <4> QED
        BY <1>1, <2>2, <4>1 DEF CreateUnclaimed, Inserted, Collides, NoRow, NInv, IInv, TypeOK
    <3> QED
      BY <3>1, <3>2
  <2>3. CASE SaveCredentials(k)
    <3>1. row'[d] = Refreshed(k, FreshToken) /\ checkin'[k].token = FreshToken
          /\ checkin[k].pc = "save"
      BY <1>1, <2>3 DEF SaveCredentials, CheckInAt, NInv, IInv, TypeOK, CheckIn
    <3>2. checkin[k].copy \in Row /\ checkin[k].copy.org # None /\ Owned(d)
      BY <3>1 DEF NInv, IInv, CopiesOwned, Sound, Matching, HandlersKnow
    <3>3. row'[d].hash = FreshToken /\ row'[d].org # None
      BY <3>1, <3>2 DEF Refreshed, Row
    <3> QED
      BY <3>1, <3>2, <3>3 DEF Owned
  <2> QED
    BY <2>1, <2>2, <2>3
<1>4. \A j \in Slots : j # k /\ checkin[j].dev = d => checkin[j].pc \in {"idle", "reply"}
  BY <1>2 DEF NInv, Matching, OneHandler
<1>5. OneHandler'
  BY <1>1, <1>2 DEF NInv, Matching, OneHandler
<1>6. HandlersKnow'
  <2>1. ASSUME NEW j \in Slots, j # k, checkin[j].pc \in {"enroll", "count", "bind", "save"}
        PROVE  checkin[j].dev \in Devices /\ checkin[j].dev # d
    BY <1>4, <2>1 DEF NInv, IInv, HandlersAtWork
  <2> QED
    BY <1>1, <2>1 DEF NInv, Matching, HandlersKnow, Owned
<1>7. TelemetryFresh'
  BY <1>1, <1>2 DEF NInv, IInv, HandlersAtWork, Matching, TelemetryFresh
<1>8. TokensMatch'
  <2>1. ASSUME NEW x \in Devices, NEW j \in Slots, agent[x].waiting = j, checkin'[j].pc = "reply"
        PROVE  checkin'[j].token \in {NoToken, row'[x].hash}
    <3>1. CASE j = k
      BY <1>1, <1>3, <2>1, <3>1 DEF NInv, Matching, OneHandler
    <3>2. CASE j # k
      <4>1. x # d
        BY <1>2, <2>1, <3>2
      <4> QED
        BY <1>1, <2>1, <3>2, <4>1 DEF NInv, Matching, TokensMatch
    <3> QED
      BY <3>1, <3>2
  <2>2. \A x \in Devices : agent[x].token \in {NoToken, row'[x].hash}
    BY <1>1, <1>2 DEF NInv, Matching, TokensMatch
  <2> QED
    BY <1>1, <2>1, <2>2 DEF TokensMatch
<1>9. OwnedOneWay'
  BY <1>1, <1>3 DEF NInv, Matching, OwnedOneWay, Owned
<1> QED
  BY <1>5, <1>6, <1>7, <1>8, <1>9 DEF Matching

\* The agent, its connection, and telemetry.  The agent only gives up on an
\* answer that is on its way.
LEMMA MatchingDevice ==
  ASSUME NInv, ~Slow, NEW d \in Devices,
         \/ AgentAsks(d) \/ GiveUp(d) \/ MqttStarts(d) \/ IngestRead(d)
         \/ Connect(d) \/ ConnectRefused(d) \/ Drop(d)
  PROVE  Matching'
<1>1. ASSUME NEW k \in Slots, CheckInSent(k, d) PROVE Matching'
  <2>1. /\ UNCHANGED <<row, claim, ingest>>
        /\ checkin[k].pc = "idle" /\ agent[d].token = NoToken /\ agent[d].waiting = None
        /\ checkin'[k].pc = "read" /\ checkin'[k].dev = d /\ checkin'[k].token = NoToken
        /\ \A j \in Slots : j # k => checkin'[j] = checkin[j]
        /\ agent'[d].waiting = k /\ agent'[d].token = NoToken
        /\ \A x \in Devices : x # d => agent'[x] = agent[x]
        /\ \A x \in Devices : agent'[x].link = agent[x].link /\ agent'[x].token = agent[x].token
    BY <1>1 DEF CheckInSent, CheckInAt, NoCheckIn, NInv, IInv, TypeOK, Agent
  <2>2. \A x \in Devices : agent[x].waiting # k
    BY <2>1 DEF NInv, Matching, OneHandler
  <2>3. OneHandler'
    <3>1. ASSUME NEW x \in Devices, NEW j \in Slots, agent'[x].waiting = j
          PROVE  checkin'[j].dev = x /\ checkin'[j].pc # "idle" /\ agent'[x].token = NoToken
      <4>1. CASE x = d
        BY <2>1, <3>1, <4>1
      <4>2. CASE x # d
        <5>1. agent[x].waiting = j /\ j # k
          BY <2>1, <2>2, <3>1, <4>2
        <5> QED
          BY <2>1, <4>2, <5>1 DEF NInv, Matching, OneHandler
      <4> QED
        BY <4>1, <4>2
    <3>2. ASSUME NEW j \in Slots, checkin'[j].pc \notin {"idle", "reply"}
          PROVE  agent'[checkin'[j].dev].waiting = j
      <4>1. CASE j = k
        BY <2>1, <4>1
      <4>2. CASE j # k
        <5>1. checkin[j].dev \in Devices /\ agent[checkin[j].dev].waiting = j /\ checkin'[j] = checkin[j]
          BY <2>1, <3>2, <4>2 DEF NInv, IInv, HandlersAtWork, Matching, OneHandler
        <5>2. checkin[j].dev # d
          BY <2>1, <5>1, OrgAssumption
        <5> QED
          BY <2>1, <5>1, <5>2
      <4> QED
        BY <4>1, <4>2
    <3> QED
      BY <3>1, <3>2 DEF OneHandler
  <2>4. HandlersKnow'
    BY <2>1 DEF NInv, Matching, HandlersKnow, Owned
  <2>5. TelemetryFresh'
    BY <2>1 DEF NInv, IInv, HandlersAtWork, Matching, TelemetryFresh
  <2>6. TokensMatch'
    <3>1. ASSUME NEW x \in Devices, NEW j \in Slots, agent'[x].waiting = j, checkin'[j].pc = "reply"
          PROVE  checkin'[j].token \in {NoToken, row'[x].hash}
      <4>1. j # k /\ x # d
        BY <2>1, <3>1
      <4> QED
        BY <2>1, <3>1, <4>1 DEF NInv, Matching, TokensMatch
    <3> QED
      BY <2>1, <3>1 DEF NInv, Matching, TokensMatch
  <2> QED
    BY <2>1, <2>3, <2>4, <2>5, <2>6 DEF NInv, Matching, OwnedOneWay, Owned
<1>2. CASE GiveUp(d)
  <2>1. /\ UNCHANGED <<row, claim, checkin, ingest>>
        /\ agent[d].waiting # None /\ checkin[agent[d].waiting].pc = "reply"
        /\ agent'[d].waiting = None
        /\ \A x \in Devices : x # d => agent'[x] = agent[x]
        /\ \A x \in Devices : agent'[x].link = agent[x].link /\ agent'[x].token = agent[x].token
    BY <1>2 DEF GiveUp, CheckInAt, NInv, IInv, TypeOK, Agent
  <2>2. OneHandler'
    <3>1. \A x \in Devices, j \in Slots : agent'[x].waiting = j => agent[x].waiting = j
      BY <2>1, OrgAssumption
    <3>2. ASSUME NEW j \in Slots, checkin[j].pc \notin {"idle", "reply"}
          PROVE  agent'[checkin[j].dev].waiting = j
      BY <2>1, <3>2 DEF NInv, IInv, HandlersAtWork, Matching, OneHandler
    <3> QED
      BY <2>1, <3>1, <3>2 DEF NInv, Matching, OneHandler
  <2>3. TokensMatch'
    BY <2>1, OrgAssumption DEF NInv, Matching, TokensMatch
  <2> QED
    BY <2>1, <2>2, <2>3
    DEF NInv, IInv, HandlersAtWork, Matching, HandlersKnow, TelemetryFresh, OwnedOneWay, Owned
<1>3. CASE Connect(d) \/ Drop(d) \/ MqttStarts(d)
  <2>1. /\ UNCHANGED <<row, claim, checkin, ingest>>
        /\ \A x \in Devices : /\ agent'[x].waiting = agent[x].waiting
                              /\ agent'[x].token = agent[x].token
    BY <1>3 DEF Connect, Drop, MqttStarts, InitMqtt, InitMqttFails, Restart,
                NInv, IInv, TypeOK, Agent
  <2>2. \A x \in Devices : agent'[x].link # "never" => agent[x].token # NoToken
    <3>1. CASE Connect(d)
      BY <3>1 DEF Connect, Accepted, NInv, IInv, TypeOK, Agent, Matching, TelemetryFresh
    <3>2. CASE Drop(d)
      BY <3>2 DEF Drop, NInv, IInv, TypeOK, Agent, Matching, TelemetryFresh
    <3>3. CASE MqttStarts(d)
      BY <3>3 DEF MqttStarts, InitMqtt, InitMqttFails, Restart, NInv, IInv, TypeOK, Agent,
                  Matching, TelemetryFresh
    <3> QED
      BY <1>3, <3>1, <3>2, <3>3
  <2> QED
    BY <2>1, <2>2
    DEF NInv, IInv, HandlersAtWork, Matching, OneHandler, HandlersKnow, TelemetryFresh,
        TokensMatch, OwnedOneWay, Owned
<1>4. CASE ConnectRefused(d)
  BY <1>4 DEF ConnectRefused, vars, NInv, Matching, OneHandler, HandlersKnow, TelemetryFresh,
       TokensMatch, OwnedOneWay, Owned
<1>5. CASE IngestRead(d)
  BY <1>5 DEF IngestRead, NInv, Matching, OneHandler, HandlersKnow, TelemetryFresh,
       TokensMatch, OwnedOneWay, Owned
<1> QED
  BY <1>1, <1>2, <1>3, <1>4, <1>5 DEF AgentAsks

\* Telemetry writes back what is there.
LEMMA MatchingOther ==
  ASSUME NInv, EnrollEnds \/ IngestSave \/ UNCHANGED vars
  PROVE  Matching'
<1>1. UNCHANGED <<row, claim, checkin, agent>> /\ (ingest' = ingest \/ ~ingest'.busy)
  <2>1. CASE IngestSave
    <3>1. row' = row
      BY <2>1 DEF IngestSave, NInv, IInv, TypeOK, HandlersAtWork, Matching, TelemetryFresh
    <3> QED
      BY <2>1, <3>1 DEF IngestSave, NoIngest
  <2>2. CASE EnrollEnds \/ UNCHANGED vars
    BY <2>2 DEF EnrollEnds, vars
  <2> QED
    BY <2>1, <2>2
<1> QED
  BY <1>1 DEF NInv, Matching, OneHandler, HandlersKnow, TelemetryFresh, TokensMatch,
       OwnedOneWay, Owned

\* Every step keeps the tokens together.
LEMMA NextNInv == OwnMacs /\ ~Slow /\ ClaimedOnce /\ NInv /\ [Next]_vars => NInv'
<1> SUFFICES ASSUME OwnMacs, ~Slow, ClaimedOnce, NInv, [Next]_vars PROVE Matching'
  BY Step, AddressesStep DEF NInv
<1>1. ASSUME NEW k \in Slots, CheckInHandler(k) PROVE Matching'
  BY <1>1, MatchingReads, MatchingWrites DEF CheckInHandler
<1> QED
  BY <1>1, MatchingClaim, MatchingDevice, MatchingOther DEF Next, MqttStarts

\* A provisioned agent is never locked out, through lost answers, repeated
\* check-ins, broken connections and late telemetry, in every behaviour in which
\* no device is claimed twice or claimed and enrolled, if no handler outlives
\* the wait for its answer, and every router has a MAC address of its own which
\* claims carry: for any number of devices, tenants and claims.
THEOREM NobodyLockedOut ==
  ASSUME ~Slow, OwnMacs PROVE Spec /\ []ClaimedOnce => []NoLockout
<1>1. Init => NInv
  BY InitIInv, OrgAssumption
  DEF Init, NInv, Matching, OneHandler, HandlersKnow, TelemetryFresh, TokensMatch, OwnedOneWay,
      AddressesOwn, Owned, NoRow, NoCheckIn, NoIngest
<1>2. ClaimedOnce /\ NInv /\ [Next]_vars => NInv'
  BY NextNInv
<1>3. NInv => NoLockout
  <2> SUFFICES ASSUME NInv, NEW d \in Devices, agent[d].token # NoToken PROVE Accepted(d)
    BY DEF NoLockout
  <2>1. row[d].hash = agent[d].token
    BY DEF NInv, Matching, TokensMatch
  <2> QED
    BY <2>1 DEF Accepted, NInv, IInv, RowsSound, Sound
<1> QED
  BY <1>1, <1>2, <1>3, PTL DEF Spec

-----------------------------------------------------------------------------
(* A device stays with its first owner, as long as claims of different     *)
(* organizations for one device do not overlap: the two steps of a claim   *)
(* are the only place where the owner is read and then overwritten.        *)

\* No two organizations are between reading and saving the row of one device.
ClaimsTakeTurns ==
    \A c, e \in Claims :
       claim[c].pc = "save" /\ claim[e].pc = "save" /\ claim[c].dev = claim[e].dev =>
          claim[c].org = claim[e].org

\* A claim that is going to overwrite the row found it free, or its own, and it
\* is so still; the insertion of a claim that found none may fail.
ClaimsSettle ==
    \A c \in Claims : claim[c].pc = "save" =>
       LET r == row[claim[c].dev] IN
       /\ claim[c].copy.exists => r.exists
       /\ r.org \in {None, claim[c].org} \/ (r.exists /\ ~claim[c].copy.exists)

\* What is written back by others has the owner that is in the row.
CopiesSettle ==
    /\ \A k \in Slots : checkin[k].pc = "save" => checkin[k].copy.org = row[checkin[k].dev].org
    /\ ingest.busy => ingest.copy.org = row[ingest.dev].org

\* The inductive invariant of the owners.
OInv == IInv /\ ClaimsSettle /\ CopiesSettle

\* What a step does to the owner of a row: nothing, or it gives one to a row that was
\* not there, or it is the end of a claim that gives one to a row without.
OwnerGiven(d) ==
    \/ row'[d].org = row[d].org /\ (row[d].exists => row'[d].exists)
    \/ ~Owned(d) /\ ~row[d].exists /\ row'[d].exists
    \/ /\ ~Owned(d) /\ row'[d].exists
       /\ \E e \in Claims : /\ claim[e].pc = "save" /\ claim[e].dev = d
                            /\ row'[d].org = claim[e].org

\* That is all that can be done to an owner.
LEMMA OwnersGiven ==
  ASSUME OInv, [Next]_vars
  PROVE  \A d \in Devices : OwnerGiven(d)
<1>1. SUFFICES ASSUME row' # row PROVE \A d \in Devices : OwnerGiven(d)
  BY DEF OwnerGiven
<1>2. row \in [Devices -> Row] /\ \A d \in Devices : Sound(row[d])
  BY DEF OInv, IInv, TypeOK, RowsSound
<1>3. ASSUME NEW c \in Claims, ClaimSave(c) PROVE \A d \in Devices : OwnerGiven(d)
  <2> DEFINE d == claim[c].dev
  <2>1. d \in Devices /\ claim[c].pc = "save" /\ claim[c].org \in Orgs /\ claim[c].org # None
    BY <1>3, OrgAssumption DEF ClaimSave, OInv, IInv, HandlersAtWork
  <2>2. ~(row[d].exists /\ ~claim[c].copy.exists) /\ row' = [row EXCEPT ![d] = ClaimedRow(c)]
    BY <1>1, <1>2, <1>3, <2>1 DEF ClaimSave, Collides
  <2>3. ClaimedRow(c).org = claim[c].org /\ ClaimedRow(c).exists
    BY DEF ClaimedRow
  <2>4. row[d].org \in {None, claim[c].org}
    BY <2>1, <2>2 DEF OInv, ClaimsSettle
  <2>5. row'[d].org = claim[c].org /\ row'[d].exists
    BY <1>2, <2>1, <2>2, <2>3
  <2>6. OwnerGiven(d)
    BY <2>1, <2>4, <2>5 DEF OwnerGiven, Owned
  <2>7. \A x \in Devices : x # d => OwnerGiven(x)
    BY <1>2, <2>2 DEF OwnerGiven
  <2> QED
    BY <2>6, <2>7
<1>4. ASSUME NEW k \in Slots, CreateBound(k) \/ CreateUnclaimed(k)
      PROVE  \A d \in Devices : OwnerGiven(d)
  <2>1. \E r : r.exists = TRUE /\ row' = Inserted(checkin[k].dev, r)
    <3>1. CASE CreateBound(k)
      BY <3>1 DEF CreateBound
    <3>2. CASE CreateUnclaimed(k)
      BY <3>2 DEF CreateUnclaimed, NoRow
    <3> QED
      BY <1>4, <3>1, <3>2
  <2> QED
    BY <1>2, <2>1 DEF Inserted, Collides, OwnerGiven, Owned, Sound
<1>5. ASSUME NEW k \in Slots, SaveCredentials(k) PROVE \A d \in Devices : OwnerGiven(d)
  <2> DEFINE d == checkin[k].dev
  <2>1. /\ d \in Devices /\ Sound(checkin[k].copy) /\ checkin[k].copy.org # None
        /\ checkin[k].copy.org = row[d].org
    BY <1>5 DEF SaveCredentials, CheckInAt, OInv, IInv, HandlersAtWork, CopiesOwned, CopiesSettle
  <2>2. row' = [row EXCEPT ![d] = [checkin[k].copy EXCEPT !.hash = FreshToken]]
    BY <1>5 DEF SaveCredentials, Refreshed
  <2>3. row'[d].org = row[d].org /\ row'[d].exists
    BY <1>2, <2>1, <2>2 DEF Sound, Row
  <2>4. \A x \in Devices : x # d => row'[x] = row[x]
    BY <1>2, <2>2
  <2> QED
    BY <2>3, <2>4 DEF OwnerGiven
<1>6. ASSUME IngestSave PROVE \A d \in Devices : OwnerGiven(d)
  <2> DEFINE d == ingest.dev
  <2>1. /\ d \in Devices /\ Sound(ingest.copy) /\ ingest.copy.org # None
        /\ ingest.copy.org = row[d].org
    BY <1>6 DEF IngestSave, OInv, IInv, HandlersAtWork, CopiesOwned, CopiesSettle
  <2>2. row' = [row EXCEPT ![d] = ingest.copy]
    BY <1>6 DEF IngestSave
  <2>3. row'[d].org = row[d].org /\ row'[d].exists
    BY <1>2, <2>1, <2>2 DEF Sound
  <2>4. \A x \in Devices : x # d => row'[x] = row[x]
    BY <1>2, <2>2
  <2> QED
    BY <2>3, <2>4 DEF OwnerGiven
<1>7. CASE UNCHANGED vars
  BY <1>1, <1>7 DEF vars
<1>8. CASE \E c \in Claims : ClaimNext(c)
  BY <1>1, <1>3, <1>8 DEF ClaimNext, ClaimRefused, ClaimRead
<1>9. CASE \E k \in Slots : CheckInHandler(k)
  BY <1>1, <1>4, <1>5, <1>9 DEF CheckInHandler, CheckInRead, EnrollRead, CountUse, Answered
<1>10. CASE \E d \in Devices : AgentAsks(d) \/ GiveUp(d) \/ MqttStarts(d)
                  \/ Connect(d) \/ ConnectRefused(d) \/ Drop(d) \/ IngestRead(d)
  BY <1>1, <1>10 DEF AgentAsks, CheckInSent, GiveUp, Connect, ConnectRefused, Drop, IngestRead,
                     MqttStarts, InitMqtt, InitMqttFails, Restart, vars
<1>11. CASE EnrollEnds
  BY <1>1, <1>11 DEF EnrollEnds
<1> QED
  BY <1>6, <1>7, <1>8, <1>9, <1>10, <1>11 DEF Next, MqttStarts

\* An owner, once given, is not changed, nor is the row of anybody removed.
LEMMA OwnersKept ==
  ASSUME OInv, [Next]_vars, NEW d \in Devices
  PROVE  /\ Owned(d) => row'[d].org = row[d].org
         /\ row[d].exists => row'[d].exists
  BY OwnersGiven DEF OwnerGiven

\* Nothing that is in hand goes stale as to the owner.
LEMMA NextOInv == ClaimsTakeTurns /\ OInv /\ [Next]_vars => OInv'
<1> SUFFICES ASSUME ClaimsTakeTurns, OInv, [Next]_vars PROVE OInv'
  OBVIOUS
<1>1. IInv'
  BY Step DEF OInv
<1>2. ClaimsSettle'
  <2> SUFFICES ASSUME NEW c \in Claims, claim'[c].pc = "save"
               PROVE  LET r == row'[claim'[c].dev] IN
                      /\ claim'[c].copy.exists => r.exists
                      /\ r.org \in {None, claim'[c].org} \/ (r.exists /\ ~claim'[c].copy.exists)
    BY DEF ClaimsSettle
  <2>1. CASE claim'[c] = claim[c]
    <3> DEFINE d == claim[c].dev
    <3>1. d \in Devices /\ claim[c].pc = "save"
      BY <2>1 DEF OInv, IInv, HandlersAtWork
    <3>2. /\ claim[c].copy.exists => row[d].exists
          /\ row[d].org \in {None, claim[c].org} \/ (row[d].exists /\ ~claim[c].copy.exists)
      BY <3>1 DEF OInv, ClaimsSettle
    <3>3. \A e \in Claims : claim[e].pc = "save" /\ claim[e].dev = d => claim[e].org = claim[c].org
      BY <3>1 DEF ClaimsTakeTurns
    <3>4. OwnerGiven(d)
      BY <3>1, OwnersGiven
    <3> QED
      BY <2>1, <3>2, <3>3, <3>4 DEF OwnerGiven
  <2>2. CASE /\ UNCHANGED row /\ claim'[c].copy = row[claim'[c].dev]
             /\ row[claim'[c].dev].org \in {None, claim'[c].org}
    BY <2>2
  <2> QED
    BY <2>1, <2>2, CopiesComeFrom DEF OInv
<1>3. CopiesSettle'
  <2>1. ASSUME NEW k \in Slots, checkin'[k].pc = "save"
        PROVE  checkin'[k].copy.org = row'[checkin'[k].dev].org
    <3>1. CASE checkin'[k] = checkin[k]
      <4>1. /\ checkin[k].dev \in Devices /\ checkin[k].copy.org # None
            /\ checkin[k].copy.org = row[checkin[k].dev].org
        BY <2>1, <3>1 DEF OInv, IInv, HandlersAtWork, CopiesOwned, CopiesSettle
      <4> QED
        BY <3>1, <4>1, OwnersKept DEF Owned
    <3>2. CASE UNCHANGED row /\ checkin'[k].copy = row[checkin'[k].dev]
      BY <3>2
    <3> QED
      BY <2>1, <3>1, <3>2, CopiesComeFrom DEF OInv
  <2>2. ASSUME ingest'.busy PROVE ingest'.copy.org = row'[ingest'.dev].org
    <3>1. CASE ingest' = ingest
      <4>1. /\ ingest.dev \in Devices /\ ingest.copy.org # None
            /\ ingest.copy.org = row[ingest.dev].org
        BY <2>2, <3>1 DEF OInv, IInv, HandlersAtWork, CopiesOwned, CopiesSettle
      <4> QED
        BY <3>1, <4>1, OwnersKept DEF Owned
    <3>2. CASE UNCHANGED row /\ ingest'.copy = row[ingest'.dev]
      BY <3>2
    <3> QED
      BY <2>2, <3>1, <3>2, CopiesComeFrom DEF OInv
  <2> QED
    BY <2>1, <2>2 DEF CopiesSettle
<1> QED
  BY <1>1, <1>2, <1>3 DEF OInv

\* "Absolute database locks prevent cross-tenant claims" is true of every behaviour in
\* which two organizations never claim a device at the same time, whatever check-ins,
\* enrollments and telemetry write back meanwhile: the overlap is all there is to
\* the finding.
THEOREM FirstOwnerStays == Spec /\ []ClaimsTakeTurns => OneOwner
<1>1. Init => OInv
  BY InitIInv DEF Init, OInv, ClaimsSettle, CopiesSettle, NoCheckIn, NoIngest
<1>2. ClaimsTakeTurns /\ OInv /\ [Next]_vars => OInv'
  BY NextOInv
<1>3. OInv /\ [Next]_vars => [\A d \in Devices : Owned(d) => row'[d].org = row[d].org]_vars
  BY OwnersKept
<1> QED
  BY <1>1, <1>2, <1>3, PTL DEF Spec, OneOwner
=============================================================================
