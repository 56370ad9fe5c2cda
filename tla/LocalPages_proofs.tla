-------------------------- MODULE LocalPages_proofs --------------------------
(***************************************************************************)
(* Proofs about LocalPages, for fleets of any size and any values of the   *)
(* routers: that the copies of the signal thresholds agree, the panel's    *)
(* bars add up, the filters share out the fleet, the pages agree on every  *)
(* router and the chart ends in its signal; and what the pages with        *)
(* made-up tables keep true for any number of rows.                        *)
(***************************************************************************)
EXTENDS LocalPages, FiniteSetTheorems, TLAPS

\* The records of the detail page are in the order of time.
TelemetryOrdered ==
    \A m, n \in DOMAIN telemetry : m <= n => telemetry[m].timestamp <= telemetry[n].timestamp

\* The inductive invariant.
IInv == TypeOK /\ TelemetryOrdered /\ KitIsOfTenant

-----------------------------------------------------------------------------
\* A table with a row more in front still has the row, and all it had.
LEMMA InFront ==
  ASSUME NEW S, NEW s \in Seq(S), NEW x \in S
  PROVE  /\ <<x>> \o s \in Seq(S) /\ x \in ToSet(<<x>> \o s)
         /\ Len(<<x>> \o s) = Len(s) + 1
<1>1. /\ <<x>> \o s \in Seq(S) /\ (<<x>> \o s)[1] = x /\ 1 \in DOMAIN (<<x>> \o s)
      /\ Len(<<x>> \o s) = Len(s) + 1
  OBVIOUS
<1> QED
  BY <1>1 DEF ToSet

\* Sorting by time, written as places: every record has one place, and a record
\* that is before another has a smaller one.
LEMMA PlacesTaken ==
  ASSUME NEW N \in Nat, NEW R \in SUBSET ((1..N) \X (1..N)),
         \A i \in 1..N : <<i, i>> \notin R,
         \A i, j \in 1..N : i # j => (<<i, j>> \in R \/ <<j, i>> \in R),
         \A i, j, k \in 1..N : <<i, j>> \in R /\ <<j, k>> \in R => <<i, k>> \in R
  PROVE  LET place(i) == Cardinality({j \in 1..N : <<j, i>> \in R}) + 1 IN
         /\ \A n \in 1..N : \E i \in 1..N : place(i) = n
         /\ \A i, j \in 1..N : <<i, j>> \in R => place(i) < place(j)
<1> DEFINE Before(i) == {j \in 1..N : <<j, i>> \in R}
           place(i) == Cardinality(Before(i)) + 1
           f == [i \in 1..N |-> place(i)]
<1>1. IsFiniteSet(1..N) /\ Cardinality(1..N) = N
  BY FS_Interval
<1>2. ASSUME NEW i \in 1..N
      PROVE  /\ Before(i) \in SUBSET (1..N) /\ i \notin Before(i)
             /\ IsFiniteSet(Before(i)) /\ Cardinality(Before(i)) \in Nat
  <2>1. Before(i) \in SUBSET (1..N) /\ i \notin Before(i)
    OBVIOUS
  <2> HIDE DEF Before
  <2> QED
    BY <1>1, <2>1, FS_Subset, FS_CardinalityType
<1>3. ASSUME NEW i \in 1..N, NEW j \in 1..N, <<i, j>> \in R PROVE place(i) < place(j)
  <2>1. Before(i) \subseteq Before(j) /\ i \in Before(j) /\ i \notin Before(i)
    BY <1>3
  <2>2. Cardinality(Before(i)) <= Cardinality(Before(j)) /\ Cardinality(Before(j)) # Cardinality(Before(i))
    BY <1>2, <2>1, FS_Subset
  <2> HIDE DEF Before
  <2> QED
    BY <1>2, <2>2
<1>4. \A i \in 1..N : place(i) \in 1..N
  <2>1. ASSUME NEW i \in 1..N PROVE place(i) \in 1..N
    <3> HIDE DEF Before
    <3>1. Before(i) \in SUBSET (1..N) /\ Before(i) # 1..N
      BY <1>2
    <3>2. Cardinality(Before(i)) <= N /\ Cardinality(Before(i)) # N
      BY <1>1, <3>1, FS_Subset
    <3> QED
      BY <1>2, <3>2
  <2> QED
    BY <2>1
<1>5. f \in Injection(1..N, 1..N)
  <2>1. f \in [1..N -> 1..N]
    BY <1>4
  <2>2. ASSUME NEW i \in 1..N, NEW j \in 1..N, f[i] = f[j] PROVE i = j
    <3>1. place(i) = place(j) /\ place(i) \in 1..N /\ place(j) \in 1..N
      BY <1>4, <2>2
    <3>2. ~(place(i) < place(j)) /\ ~(place(j) < place(i))
      BY <3>1
    <3> QED
      BY <1>3, <3>2
  <2> HIDE DEF f
  <2> QED
    BY <2>1, <2>2 DEF Injection, IsInjective
<1>6. f \in Surjection(1..N, 1..N)
  BY <1>1, <1>5, FS_Injection
<1>7. \A n \in 1..N : \E i \in 1..N : place(i) = n
  BY <1>6 DEF Surjection
<1> QED
  BY <1>3, <1>7

\* The records the server may send.
Reading == [timestamp : Nat, rssi : Int \cup {Absent}]

\* Sorting keeps the records' type and puts them in the order of time.
LEMMA SortedByTime ==
  ASSUME NEW records \in Seq(Reading)
  PROVE  /\ Chronological(records) \in Seq(Reading)
         /\ \A m, n \in DOMAIN Chronological(records) : m <= n =>
               Chronological(records)[m].timestamp <= Chronological(records)[n].timestamp
<1> DEFINE N == Len(records)
           t(i) == records[i].timestamp
           before(i, j) == t(i) < t(j) \/ (t(i) = t(j) /\ i < j)
           R == {q \in (1..N) \X (1..N) : before(q[1], q[2])}
           place(i) == Cardinality({j \in 1..N : <<j, i>> \in R}) + 1
           at(n) == CHOOSE i \in 1..N : place(i) = n
           C == Chronological(records)
<1>1. N \in Nat /\ DOMAIN records = 1..N /\ \A i \in 1..N : records[i] \in Reading /\ t(i) \in Nat
  <2>1. N \in Nat /\ DOMAIN records = 1..N /\ \A i \in 1..N : records[i] \in Reading
    OBVIOUS
  <2>2. \A r \in Reading : r.timestamp \in Nat
    BY DEF Reading
  <2> QED
    BY <2>1, <2>2
<1>2. \A i, j \in 1..N : <<i, j>> \in R <=> before(i, j)
  OBVIOUS
<1>3. C = [n \in 1..N |-> records[at(n)]]
  <2>1. C = Arranged(records, R)
    <3> DEFINE P(D) == {q \in D \X D :
                          \/ records[q[1]].timestamp < records[q[2]].timestamp
                          \/ records[q[1]].timestamp = records[q[2]].timestamp /\ q[1] < q[2]}
    <3>1. C = Arranged(records, P(DOMAIN records))
      BY DEF Chronological
    <3>2. P(DOMAIN records) = R
      BY <1>1
    <3> HIDE DEF P, R, C
    <3> QED
      BY <3>1, <3>2
  <2> HIDE DEF R, C
  <2> QED
    BY <1>1, <2>1 DEF Arranged
<1> HIDE DEF R
<1>4. /\ \A n \in 1..N : \E i \in 1..N : place(i) = n
      /\ \A i, j \in 1..N : <<i, j>> \in R => place(i) < place(j)
  <2>1. R \in SUBSET ((1..N) \X (1..N))
    BY DEF R
  <2>2. \A i \in 1..N : <<i, i>> \notin R
    BY <1>1, <1>2
  <2>3. \A i, j \in 1..N : i # j => (<<i, j>> \in R \/ <<j, i>> \in R)
    BY <1>1, <1>2
  <2>4. \A i, j, k \in 1..N : <<i, j>> \in R /\ <<j, k>> \in R => <<i, k>> \in R
    BY <1>1, <1>2
  <2> QED
    BY <1>1, <2>1, <2>2, <2>3, <2>4, PlacesTaken
<1> HIDE DEF place
<1>5. \A n \in 1..N : at(n) \in 1..N /\ place(at(n)) = n
  BY <1>4
<1> HIDE DEF at
<1>6. C \in Seq(Reading)
  BY <1>1, <1>3, <1>5
<1>7. ASSUME NEW m \in 1..N, NEW n \in 1..N, m <= n PROVE t(at(m)) <= t(at(n))
  <2>1. CASE m = n
    BY <1>1, <1>5, <2>1
  <2>2. CASE m # n
    <3>1. ~(n < m) /\ at(m) # at(n)
      BY <1>5, <1>7, <2>2
    <3>2. <<at(n), at(m)>> \notin R
      BY <1>4, <1>5, <3>1
    <3>3. before(at(m), at(n)) \/ before(at(n), at(m))
      BY <1>1, <1>5, <3>1
    <3>4. before(at(m), at(n))
      BY <1>2, <1>5, <3>2, <3>3
    <3> QED
      BY <1>1, <1>5, <3>4
  <2> QED
    BY <2>1, <2>2
<1> HIDE DEF C
<1>8. \A m, n \in DOMAIN C : m <= n => C[m].timestamp <= C[n].timestamp
  BY <1>3, <1>7
<1> QED
  BY <1>6, <1>8 DEF C

-----------------------------------------------------------------------------
\* The pages start empty.
LEMMA Start == Init => IInv
  BY BoundsAssumption
  DEF Init, IInv, TypeOK, TelemetryOrdered, KitIsOfTenant, Samples, Subsystems, Filters, Pages

\* What the forms, the dialogs and the tables do not touch.
LEMMA ServerKept ==
  ASSUME IInv, UNCHANGED <<page, server, filter>>,
         incidents' \in [1..3 -> {"ACTIVE", "ACKNOWLEDGED", "RESOLVED"}],
         added' \in Seq(Row), Len(added') <= MaxRows, builder' \in Subsystems,
         dialog' \in {"none", "create", "push", "upload", "kit"}, kit' \in Row \cup {None},
         dialog' = "kit" => kit' \in ToSet(added')
  PROVE  IInv'
  BY DEF IInv, TypeOK, TelemetryOrdered, KitIsOfTenant, server

\* What loading and filtering do not touch.
LEMMA OwnKept ==
  ASSUME IInv, UNCHANGED <<page, incidents, added, builder, dialog, kit>>,
         fleet' \in Fleets \cup {<<>>}, telemetry' \in Seq(Reading),
         pending' \in 0..MaxCount \cup {Absent}, filter' \in Filters, TelemetryOrdered'
  PROVE  IInv'
  BY DEF IInv, TypeOK, KitIsOfTenant, Reading

\* Every action keeps the invariant, and moves incidents only on.
LEMMA Step ==
  IInv /\ [Next]_vars =>
    /\ IInv'
    /\ page = "alerts" /\ page' = "alerts" =>
           \A i \in 1..3 : Rank(incidents[i]) <= Rank(incidents'[i])
<1>a. SUFFICES ASSUME IInv, [Next]_vars
               PROVE  /\ IInv'
                      /\ page = "alerts" /\ page' = "alerts" =>
                             \A i \in 1..3 : Rank(incidents[i]) <= Rank(incidents'[i])
  OBVIOUS
<1> DEFINE Same == \A i \in 1..3 : incidents'[i] = incidents[i]
           MovedOn == \A i \in 1..3 : Rank(incidents[i]) <= Rank(incidents'[i])
<1>b. Same => MovedOn
  BY <1>a DEF IInv, TypeOK, Rank
<1>c. /\ fleet \in Fleets \cup {<<>>} /\ telemetry \in Seq(Reading) /\ TelemetryOrdered
      /\ pending \in 0..MaxCount \cup {Absent} /\ filter \in Filters
      /\ added \in Seq(Row) /\ Len(added) <= MaxRows /\ Len(added) \in Nat
      /\ builder \in Subsystems /\ kit \in Row \cup {None}
      /\ incidents \in [1..3 -> {"ACTIVE", "ACKNOWLEDGED", "RESOLVED"}]
  BY <1>a DEF IInv, TypeOK, Reading
<1>1. ASSUME NEW p \in Pages, Mount(p), p # page
      PROVE IInv' /\ ~(page = "alerts" /\ page' = "alerts")
  BY <1>1, BoundsAssumption
  DEF Mount, IInv, TypeOK, TelemetryOrdered, KitIsOfTenant, Samples, Subsystems, Filters, Pages
<1>2. ASSUME NEW f \in Fleets \cup {<<>>}, NEW n \in 0..MaxCount \cup {Absent}, Load(f, n)
      PROVE IInv' /\ Same
  <2>1. /\ UNCHANGED <<page, telemetry, incidents, added, builder, dialog, kit, filter>>
        /\ fleet' = f /\ pending' \in 0..MaxCount \cup {Absent}
    BY <1>2 DEF Load, own
  <2>2. TelemetryOrdered'
    BY <1>c, <2>1 DEF TelemetryOrdered
  <2> QED
    BY <1>a, <1>c, <2>1, <2>2, OwnKept
<1>3. ASSUME NEW f \in Fleets, Len(f) = 1, LoadDevice(f[1]) PROVE IInv' /\ Same
  <2>1. /\ UNCHANGED <<page, telemetry, pending, incidents, added, builder, dialog, kit, filter>>
        /\ fleet' = <<f[1]>>
    BY <1>3 DEF LoadDevice, own
  <2>2. f = <<f[1]>>
    BY <1>3, FleetsAssumption
  <2>3. TelemetryOrdered'
    BY <1>c, <2>1 DEF TelemetryOrdered
  <2> QED
    BY <1>a, <1>c, <2>1, <2>2, <2>3, OwnKept
<1>4. ASSUME NEW records \in Records, LoadTelemetry(records) PROVE IInv' /\ Same
  <2>1. /\ UNCHANGED <<page, fleet, pending, incidents, added, builder, dialog, kit, filter>>
        /\ telemetry' = Chronological(records)
    BY <1>4 DEF LoadTelemetry, own
  <2>2. records \in Seq(Reading)
    BY RecordsAssumption DEF Reading
  <2>3. telemetry' \in Seq(Reading) /\ TelemetryOrdered'
    BY <2>1, <2>2, SortedByTime DEF TelemetryOrdered
  <2> QED
    BY <1>a, <1>c, <2>1, <2>3, OwnKept
<1>5. ASSUME NEW f \in Filters, SelectFilter(f) \/ ToggleCard(f) PROVE IInv' /\ Same
  <2>1. /\ UNCHANGED <<page, fleet, telemetry, pending, incidents, added, builder, dialog, kit>>
        /\ filter' \in Filters
    BY <1>5 DEF SelectFilter, ToggleCard, server, Filters
  <2>2. TelemetryOrdered'
    BY <1>c, <2>1 DEF TelemetryOrdered
  <2> QED
    BY <1>a, <1>c, <2>1, <2>2, OwnKept
<1>6. ASSUME NEW i \in 1..3, Acknowledge(i) \/ Resolve(i) PROVE IInv' /\ MovedOn
  <2>1. /\ UNCHANGED <<page, server, filter, added, builder, dialog, kit>>
        /\ incidents' \in [1..3 -> {"ACTIVE", "ACKNOWLEDGED", "RESOLVED"}]
    BY <1>6, <1>c DEF Acknowledge, Resolve, SetStatus
  <2>2. dialog' = "kit" => kit' \in ToSet(added')
    BY <1>a, <2>1 DEF IInv, KitIsOfTenant
  <2>3. dialog' \in {"none", "create", "push", "upload", "kit"}
    BY <1>a, <2>1 DEF IInv, TypeOK
  <2>4. MovedOn
    BY <1>6, <1>c DEF Acknowledge, Resolve, SetStatus, Rank
  <2> QED
    BY <1>a, <1>c, <2>1, <2>2, <2>3, <2>4, ServerKept
<1>7. ASSUME OpenDialog \/ CloseDialog PROVE IInv' /\ Same
  <2>1. /\ UNCHANGED <<page, server, filter, incidents, added, builder, kit>>
        /\ dialog' \in {"none", "create", "push", "upload"}
    BY <1>7 DEF OpenDialog, CloseDialog, Dialogs
  <2> QED
    BY <1>a, <1>c, <2>1, ServerKept
<1>8. ASSUME NEW b \in Subsystems, SelectBuilder(b) PROVE IInv' /\ Same
  <2>1. /\ UNCHANGED <<page, server, filter, incidents, added, dialog, kit>>
        /\ dialog = "create" /\ builder' = b
    BY <1>8 DEF SelectBuilder
  <2> QED
    BY <1>a, <1>c, <2>1, ServerKept
<1>9. ASSUME NEW n \in Names, CreateRule(n) \/ CreateProfile(n) \/ LaunchRollout(n)
      PROVE IInv' /\ Same
  <2>1. /\ [name |-> n, detail |-> None] \in Row /\ [name |-> n, detail |-> builder] \in Row
    BY <1>c DEF Row
  <2>2. /\ UNCHANGED <<page, server, filter, incidents, builder, kit>>
        /\ dialog' = "none" /\ Len(added) < MaxRows
    BY <1>9 DEF CreateRule, CreateProfile, LaunchRollout, Add
  <2>3. added' \in Seq(Row) /\ Len(added') = Len(added) + 1
    <3>1. CASE CreateRule(n) \/ CreateProfile(n)
      <4>1. \E r \in Row : added' = Append(added, r)
        BY <2>1, <3>1 DEF CreateRule, CreateProfile, Add
      <4> QED
        BY <1>c, <4>1
    <3>2. CASE LaunchRollout(n)
      BY <1>c, <2>1, <3>2, InFront DEF LaunchRollout, Add
    <3> QED
      BY <1>9, <3>1, <3>2
  <2>4. Len(added') <= MaxRows
    BY <1>c, <2>2, <2>3, BoundsAssumption
  <2> QED
    BY <1>a, <1>c, <2>2, <2>3, <2>4, ServerKept
<1>10. ASSUME NEW n \in Names, NEW k \in Keys, CreateTenant(n, k) PROVE IInv' /\ Same
  <2>1. [name |-> n, detail |-> k] \in Row
    BY DEF Row
  <2>2. /\ added' = <<[name |-> n, detail |-> k]>> \o added
        /\ kit' = [name |-> n, detail |-> k] /\ dialog' = "kit" /\ Len(added) < MaxRows
        /\ UNCHANGED <<page, server, filter, incidents, builder>>
    BY <1>10 DEF CreateTenant, Add
  <2>3. added' \in Seq(Row) /\ kit' \in ToSet(added') /\ Len(added') = Len(added) + 1
    BY <1>c, <2>1, <2>2, InFront
  <2>4. Len(added') <= MaxRows
    BY <1>c, <2>2, <2>3, BoundsAssumption
  <2> QED
    BY <1>a, <1>c, <2>1, <2>2, <2>3, <2>4, ServerKept
<1>11. ASSUME NEW i \in DOMAIN added, ViewKit(i) PROVE IInv' /\ Same
  <2>1. /\ UNCHANGED <<page, server, filter, incidents, added, builder>>
        /\ kit' = added[i] /\ dialog' = "kit"
    BY <1>11 DEF ViewKit
  <2>2. added[i] \in Row /\ added[i] \in ToSet(added)
    BY <1>c DEF ToSet
  <2> QED
    BY <1>a, <1>c, <2>1, <2>2, ServerKept
<1>12. ASSUME UNCHANGED vars PROVE IInv' /\ Same
  <2>1. UNCHANGED <<page, fleet, telemetry, pending, incidents, added, builder, dialog, kit, filter>>
    BY <1>12 DEF vars, own, server
  <2>2. TelemetryOrdered'
    BY <1>c, <2>1 DEF TelemetryOrdered
  <2> QED
    BY <1>a, <1>c, <2>1, <2>2, OwnKept
<1> HIDE DEF Same, MovedOn
<1> QED
  <2>1. IInv' /\ (page = "alerts" /\ page' = "alerts" => MovedOn)
    <3>1. CASE \E n \in Names : \/ CreateRule(n) \/ CreateProfile(n) \/ LaunchRollout(n)
                                 \/ \E k \in Keys : CreateTenant(n, k)
      BY <1>b, <1>9, <1>10, <3>1
    <3>2. CASE \E i \in 1..3 : Acknowledge(i) \/ Resolve(i)
      BY <1>6, <3>2
    <3>3. CASE \/ \E f \in Filters : SelectFilter(f) \/ ToggleCard(f)
               \/ \E records \in Records : LoadTelemetry(records)
               \/ \E f \in Fleets : Len(f) = 1 /\ LoadDevice(f[1])
      BY <1>b, <1>3, <1>4, <1>5, <3>3
    <3>4. CASE \/ \E f \in Fleets \cup {<<>>}, n \in 0..MaxCount \cup {Absent} : Load(f, n)
               \/ LoadNull \/ \E p \in Pages : Enter(p)
      BY <1>b, <1>1, <1>2, <3>4 DEF LoadNull, Enter, Pages
    <3>5. CASE \/ \E b \in Subsystems : SelectBuilder(b)
               \/ \E i \in DOMAIN added : ViewKit(i)
      BY <1>b, <1>8, <1>11, <3>5
    <3> QED
      BY <1>a, <1>b, <1>7, <1>12, <3>1, <3>2, <3>3, <3>4, <3>5 DEF Next
  <2> QED
    BY <2>1 DEF MovedOn

LEMMA Invariance == Spec => []IInv
  BY Start, Step, PTL DEF Spec

\* What is in the fleet is a router.
LEMMA RoutersListed == IInv => \A i \in DOMAIN fleet : fleet[i] \in Device
  BY FleetsAssumption DEF IInv, TypeOK

-----------------------------------------------------------------------------
\* The thresholds, written out in a panel, a table and another page, on every router.
LEMMA ThresholdsAgree ==
  ASSUME NEW d \in Device, Online(d)
  PROVE  /\ Bucket(d) = RowQuality(d)
         /\ Bucket(d) = "optimal" => (ListSignal(d) = "amber" <=> d.rssi \in -85..-1)
         /\ Bucket(d) \in {"marginal", "none"} =>
               (ListSignal(d) = "green" <=> d.rssi \in {Absent, 0})
<1>1. d.rssi \in Int \cup {Absent} /\ d.cellular_rssi \in Int \cup {Absent}
  BY DEF Device
<1>2. HasRssi(d) => RawRssi(d) \in Int
  BY <1>1 DEF HasRssi, RawRssi, Or
<1>3. Bucket(d) = RowQuality(d)
  BY <1>2 DEF Bucket, RowQuality
<1>4. CASE d.rssi \in {Absent, 0}
  <2>1. ListSignal(d) = "green" /\ d.rssi \notin -85..-1
    BY <1>4, AbsentAssumption DEF ListSignal
  <2> QED
    BY <1>3, <1>4, <2>1
<1>5. CASE d.rssi \in Int \ {0}
  <2>1. RawRssi(d) = d.rssi /\ HasRssi(d) /\ d.rssi # Absent
    BY <1>5, AbsentAssumption DEF RawRssi, HasRssi, Or
  <2>2. ListSignal(d) = IF d.rssi > 70 THEN "green" ELSE "amber"
    BY <1>5, <2>1 DEF ListSignal
  <2>3. /\ Bucket(d) = "optimal" <=> (d.rssi \in -85..-1 \/ d.rssi >= 75)
        /\ Bucket(d) = "marginal" => d.rssi < 50
        /\ Bucket(d) # "none"
    BY <1>5, <2>1 DEF Bucket
  <2> QED
    BY <1>3, <1>5, <2>1, <2>2, <2>3
<1> QED
  BY <1>1, <1>4, <1>5

\* In a fleet of any size, with whatever signals: the panel and the table judge every
\* online router alike, and the list contradicts them on no percentage, but on exactly
\* the other signals that GradesAgreeOnPercent names.
THEOREM GradesAlwaysAgreeOnPercent == Spec => []GradesAgreeOnPercent
<1>1. IInv => GradesAgreeOnPercent
  BY ThresholdsAgree, RoutersListed DEF GradesAgreeOnPercent
<1> QED
  BY Invariance, <1>1, PTL

\* The kit shown is that of a tenant in the table, however many there are.
THEOREM KitsAreOfTenants == Spec => []KitIsOfTenant
  BY Invariance, PTL DEF IInv

\* On the page of incidents no step takes one back.
THEOREM IncidentsOnlyMoveOn == Spec => IncidentsMoveOn
  BY Invariance, Step, PTL DEF Spec, IncidentsMoveOn

\* The pages only ever keep what they say they do, for any fleets, records and forms.
THEOREM PagesTypeCorrect == Spec => []TypeOK
  BY Invariance, PTL DEF IInv

-----------------------------------------------------------------------------
(* The filters.                                                            *)

\* A router that is not rebooting is under one filter, and only one.
LEMMA OneFilter ==
  ASSUME NEW d \in Device
  PROVE  Cardinality({f \in Filters \ {"ALL"} : Filter(f, d)})
            = (IF d.status = "REBOOTING" THEN 0 ELSE 1)
<1> DEFINE F == {f \in Filters \ {"ALL"} : Filter(f, d)}
<1>1. d.status \in Statuses
  BY DEF Device
<1>2. F = {f \in {"ONLINE", "OFFLINE", "PENDING"} : Filter(f, d)}
  BY DEF Filters
<1>3. CASE d.status = "ONLINE"
  <2>1. F = {"ONLINE"}
    BY <1>2, <1>3 DEF Filter, Online, Pending
  <2> QED
    BY <1>3, <2>1, FS_Singleton
<1>4. CASE d.status = "OFFLINE"
  <2>1. F = {"OFFLINE"}
    BY <1>2, <1>4 DEF Filter, Online, Pending
  <2> QED
    BY <1>4, <2>1, FS_Singleton
<1>5. CASE d.status \in {"PENDING_PROVISION", "UNCLAIMED"}
  <2>1. F = {"PENDING"}
    BY <1>2, <1>5 DEF Filter, Online, Pending
  <2> QED
    BY <1>5, <2>1, FS_Singleton
<1>6. CASE d.status = "REBOOTING"
  <2>1. F = {}
    BY <1>2, <1>6 DEF Filter, Online, Pending
  <2> QED
    BY <1>6, <2>1, FS_EmptySet
<1> QED
  BY <1>1, <1>3, <1>4, <1>5, <1>6 DEF Statuses

\* Whatever the fleet and the filter, a claim is offered exactly to those who wait
\* for it, and the dashboard's filters leave nobody out but the rebooting.
THEOREM FiltersAlwaysShareOut == Spec => []FiltersShareOut
<1>1. IInv => FiltersShareOut
  <2> SUFFICES ASSUME IInv, NEW i \in DOMAIN fleet, fleet[i] \in Device
               PROVE  LET d == fleet[i] IN
        /\ Cardinality({f \in Filters \ {"ALL"} : Filter(f, d)})
              = (IF d.status = "REBOOTING" THEN 0 ELSE 1)
        /\ filter = "PENDING" /\ i \in ShownRows => RowAction(d) = "claim"
        /\ filter \in {"ONLINE", "OFFLINE"} /\ i \in ShownRows => RowAction(d) = "details"
        /\ ListReachable(d) <=> Filter("ONLINE", d)
        /\ page = "devices" /\ filter = "OFFLINE" =>
              (i \in ShownRows <=> ListTag(d) = "OFFLINE" /\ ~Pending(d))
    BY RoutersListed DEF FiltersShareOut
  <2> DEFINE d == fleet[i]
  <2>1. d.status \in Statuses
    BY DEF Device
  <2>2. filter = "PENDING" /\ i \in ShownRows => RowAction(d) = "claim"
    BY <2>1 DEF ShownRows, Filter, ListFilter, RowAction, Statuses
  <2>3. filter \in {"ONLINE", "OFFLINE"} /\ i \in ShownRows => RowAction(d) = "details"
    BY DEF ShownRows, Filter, ListFilter, RowAction, Online, Pending
  <2>4. ListReachable(d) <=> Filter("ONLINE", d)
    BY DEF ListReachable, Filter
  <2>5. page = "devices" /\ filter = "OFFLINE" =>
           (i \in ShownRows <=> ListTag(d) = "OFFLINE" /\ ~Pending(d))
    BY <2>1 DEF ShownRows, ListFilter, ListTag, Pending, Statuses
  <2> QED
    BY <2>2, <2>3, <2>4, <2>5, OneFilter
<1> QED
  BY Invariance, <1>1, PTL

-----------------------------------------------------------------------------
(* What the pages say of one router.                                       *)

\* The mean of one router's free flash is its own.
LEMMA MeanOfOne ==
  ASSUME NEW i, NEW d \in Device
  PROVE  AvgFlashFree([x \in {i} |-> d]) = IF d.flash_free > 0 THEN d.flash_free ELSE 66
<1> DEFINE fl   == [x \in {i} |-> d]
           v    == d.flash_free
           some == {j \in DOMAIN fl : fl[j].flash_free > 0}
<1>1. v \in Nat
  BY DEF Device
<1>2. CASE v = 0
  <2>1. some = {}
    BY <1>2
  <2>2. Cardinality(some) = 0
    BY <2>1, FS_EmptySet
  <2> QED
    BY <1>2, <2>2 DEF AvgFlashFree
<1>3. CASE v > 0
  <2>1. some = {i} /\ Cardinality(some) = 1
    BY <1>3, FS_Singleton
  <2> DEFINE total == MapThenSumSet(LAMBDA j : fl[j].flash_free, some)
             F(g)  == [s \in SUBSET some |->
                         IF s = {} THEN 0
                         ELSE fl[CHOOSE j \in s : TRUE].flash_free + g[s \ {CHOOSE j \in s : TRUE}]]
             sum   == CHOOSE g : g = F(g)
             h     == [s \in SUBSET some |-> IF s = {} THEN 0 ELSE v]
  <2>2. total = sum[some]
    BY DEF MapThenSumSet, MapThenFoldSet
  <2>3. \A s \in SUBSET some : s # {} => s = {i} /\ (CHOOSE j \in s : TRUE) = i
    BY <2>1
  <2>4. h = F(h)
    <3> SUFFICES ASSUME NEW s \in SUBSET some PROVE h[s] = F(h)[s]
      OBVIOUS
    <3>1. CASE s = {}
      BY <3>1
    <3>2. CASE s # {}
      <4>1. s = {i} /\ (CHOOSE j \in s : TRUE) = i /\ s \ {i} = {} /\ {} \in SUBSET some
        BY <2>3, <3>2
      <4>2. h[s] = v /\ h[{}] = 0 /\ fl[i].flash_free = v
        BY <3>2, <4>1
      <4>3. F(h)[s] = fl[i].flash_free + h[{}]
        BY <3>2, <4>1
      <4> QED
        BY <1>1, <4>2, <4>3
    <3> QED
      BY <3>1, <3>2
  <2>5. sum = F(sum)
    BY <2>4
  <2> HIDE DEF sum
  <2>6. sum[{}] = 0 /\ sum[{i}] = fl[i].flash_free + sum[{}]
    <3>1. {} \in SUBSET some /\ {i} \in SUBSET some /\ (CHOOSE j \in {i} : TRUE) = i /\ {i} \ {i} = {}
      BY <2>1
    <3> QED
      BY <2>5, <3>1
  <2>7. total = v
    BY <1>1, <2>1, <2>2, <2>6
  <2> HIDE DEF total
  <2>8. AvgFlashFree(fl) = (2 * total + 1) \div 2
    BY <2>1 DEF AvgFlashFree, total
  <2> QED
    BY <1>1, <1>3, <2>7, <2>8
<1> QED
  BY <1>1, <1>2, <1>3

\* The dashboard's units of the uptime are among the detail page's.
LEMMA UptimesAgree ==
  ASSUME NEW secs \in Nat
  PROVE  DashboardUptime(secs) \subseteq DetailUptime(secs)
  BY DEF DashboardUptime, DetailUptime

\* The bars of free and of used flash are shares, and complement each other.
LEMMA FlashBars ==
  ASSUME NEW free \in Nat
  PROVE  /\ FreePct(free) \in 0..100 /\ UsedPct(free) \in 0..100
         /\ FreePct(free) + UsedPct(free) \in {100, 101}
<1>1. FreePct(free) = IF (200 * free + 160) \div 320 < 100 THEN (200 * free + 160) \div 320 ELSE 100
  BY DEF FreePct, AtMost100, Percent
<1>2. UsedPct(free) = IF free < 160 THEN (200 * (160 - free) + 160) \div 320 ELSE 0
  <2>1. CASE free < 160
    <3>1. (200 * (160 - free) + 160) \div 320 <= 100
      BY <2>1
    <3> QED
      BY <2>1, <3>1 DEF UsedPct, AtMost100, Percent
  <2>2. CASE ~(free < 160)
    BY <2>2 DEF UsedPct, AtMost100, Percent
  <2> QED
    BY <2>1, <2>2
<1>3. CASE free < 160
  <2> DEFINE p == (200 * free + 160) \div 320
             q == (200 * (160 - free) + 160) \div 320
  <2>1. /\ p \in Int /\ 320 * p <= 200 * free + 160 /\ 200 * free + 160 < 320 * p + 320
        /\ q \in Int /\ 320 * q <= 200 * (160 - free) + 160
        /\ 200 * (160 - free) + 160 < 320 * q + 320
    OBVIOUS
  <2> HIDE DEF p, q
  <2>2. p \in 0..100 /\ q \in 0..100 /\ p + q \in {100, 101}
    BY <1>3, <2>1
  <2>3. FreePct(free) = p /\ UsedPct(free) = q
    BY <1>1, <1>2, <1>3, <2>2 DEF p, q
  <2> QED
    BY <2>2, <2>3
<1>4. CASE ~(free < 160)
  BY <1>1, <1>2, <1>4
<1> QED
  BY <1>3, <1>4

\* Where a router is up, has a carrier and a signal on one page as on the others, and
\* where not.
LEMMA SaysTheSame ==
  ASSUME NEW d \in Device
  PROVE  /\ \A up \in {"ONLINE", "REBOOTING"} :
              (DashboardTag(d) = up <=> ListTag(d) = up) /\ (DetailTag(d) = up <=> ListTag(d) = up)
         /\ CarrierSlice(d) = "Ethernet / Local WAN" <=> RowCarrier(d) = "Ethernet WAN"
         /\ CarrierSlice(d) = "Offline / No Signal" <=> RowCarrier(d) = "No Signal"
         /\ DetailCarrier(d) = RowCarrier(d) <=> d.carrier # {}
         /\ Online(d) =>
               (ListCarrier(d) \in {RowCarrier(d), DetailCarrier(d)} <=> d.carrier # {})
         /\ CurrentRssi(Absent, d) = RawRssi(d)
               <=> d.cellular_rssi = d.rssi \/ Absent \in {d.cellular_rssi, d.rssi}
<1>1. d.status \in Statuses
  BY DEF Device
<1>2. \A up \in {"ONLINE", "REBOOTING"} :
         (DashboardTag(d) = up <=> ListTag(d) = up) /\ (DetailTag(d) = up <=> ListTag(d) = up)
  BY <1>1 DEF DashboardTag, ListTag, DetailTag, Statuses
<1>3. /\ CarrierSlice(d) = "Ethernet / Local WAN" <=> RowCarrier(d) = "Ethernet WAN"
      /\ CarrierSlice(d) = "Offline / No Signal" <=> RowCarrier(d) = "No Signal"
  BY DEF CarrierSlice, RowCarrier
<1>4. CurrentRssi(Absent, d) = RawRssi(d)
         <=> d.cellular_rssi = d.rssi \/ Absent \in {d.cellular_rssi, d.rssi}
  BY DEF CurrentRssi, RawRssi, Or
<1>5. DetailCarrier(d) = RowCarrier(d) <=> d.carrier # {}
  BY DEF DetailCarrier, RowCarrier
<1>6. Online(d) => (ListCarrier(d) \in {RowCarrier(d), DetailCarrier(d)} <=> d.carrier # {})
  BY DEF DetailCarrier, RowCarrier, ListCarrier
<1> QED
  BY <1>2, <1>3, <1>4, <1>5, <1>6

\* On every router, of any carrier, signal, flash and uptime, the pages agree and differ
\* where PagesAgree says.
THEOREM PagesAlwaysAgree == Spec => []PagesAgree
<1>1. IInv => PagesAgree
  <2> SUFFICES ASSUME IInv, NEW i \in DOMAIN fleet
               PROVE LET d == fleet[i] free == AvgFlashFree([x \in {i} |-> d]) IN
        /\ \A up \in {"ONLINE", "REBOOTING"} :
              (DashboardTag(d) = up <=> ListTag(d) = up) /\ (DetailTag(d) = up <=> ListTag(d) = up)
        /\ CarrierSlice(d) = "Ethernet / Local WAN" <=> RowCarrier(d) = "Ethernet WAN"
        /\ CarrierSlice(d) = "Offline / No Signal" <=> RowCarrier(d) = "No Signal"
        /\ DetailCarrier(d) = RowCarrier(d) <=> d.carrier # {}
        /\ Online(d) =>
              (ListCarrier(d) \in {RowCarrier(d), DetailCarrier(d)} <=> d.carrier # {})
        /\ CurrentRssi(Absent, d) = RawRssi(d)
              <=> d.cellular_rssi = d.rssi \/ Absent \in {d.cellular_rssi, d.rssi}
        /\ DashboardUptime(d.uptime_seconds) \subseteq DetailUptime(d.uptime_seconds)
        /\ d.flash_free > 0 => FreePct(free) + UsedPct(d.flash_free) \in {100, 101}
        /\ FreePct(free) \in 0..100 /\ UsedPct(d.flash_free) \in 0..100
    BY DEF PagesAgree
  <2> DEFINE d    == fleet[i]
             free == AvgFlashFree([x \in {i} |-> d])
  <2>1. d \in Device /\ d.flash_free \in Nat /\ d.uptime_seconds \in Nat
    BY RoutersListed DEF Device
  <2> HIDE DEF d
  <2>2. free = IF d.flash_free > 0 THEN d.flash_free ELSE 66
    BY <2>1, MeanOfOne
  <2> HIDE DEF free
  <2>3. /\ d.flash_free > 0 => FreePct(free) + UsedPct(d.flash_free) \in {100, 101}
        /\ FreePct(free) \in 0..100 /\ UsedPct(d.flash_free) \in 0..100
    BY <2>1, <2>2, FlashBars
  <2>4. DashboardUptime(d.uptime_seconds) \subseteq DetailUptime(d.uptime_seconds)
    BY <2>1, UptimesAgree
  <2> QED
    BY <2>1, <2>3, <2>4, SaysTheSame DEF d, free
<1> QED
  BY Invariance, <1>1, PTL

-----------------------------------------------------------------------------
(* The chart.                                                              *)

\* The chart of the detail page ends in the signal the page shows, in whatever order
\* and however many records came.
THEOREM ChartsEndInSignal == Spec => []ChartEndsInSignal
<1>1. IInv => ChartEndsInSignal
  <2> SUFFICES ASSUME IInv, fleet # <<>>
               PROVE LET d      == fleet[1]
                         signal == CurrentRssi(LatestRssi(telemetry), d)
                     IN /\ \A n \in DOMAIN telemetry : telemetry[n].timestamp <= Last(telemetry).timestamp
                        /\ \/ telemetry # <<>> /\ Last(telemetry).rssi = Absent
                           \/ signal = Absent
                           \/ Last(SignalHistory(telemetry, d)) = signal
    BY DEF ChartEndsInSignal
  <2> DEFINE d      == fleet[1]
             T      == telemetry
             N      == Len(T)
             signal == CurrentRssi(LatestRssi(T), d)
  <2>1. T \in Seq(Reading) /\ N \in Nat /\ DOMAIN T = 1..N /\ Last(T) = T[N]
    BY DEF IInv, TypeOK, Reading, Last
  <2>2. \A n \in DOMAIN T : T[n].timestamp <= Last(T).timestamp
    BY <2>1 DEF IInv, TelemetryOrdered
  <2>3. CASE T = <<>>
    <3>1. signal = CurrentRssi(Absent, d)
      BY <2>3 DEF LatestRssi
    <3>2. SignalHistory(T, d) = <<Or(signal, -83)>>
      BY <2>3, <3>1 DEF SignalHistory
    <3>3. Last(SignalHistory(T, d)) = Or(signal, -83)
      BY <3>2 DEF Last
    <3> QED
      BY <2>2, <3>3 DEF Or
  <2>4. CASE T # <<>> /\ T[N].rssi # Absent
    <3>1. N \in 1..N
      BY <2>1, <2>4
    <3>2. signal = T[N].rssi
      BY <2>1, <2>4 DEF LatestRssi, CurrentRssi, Or
    <3>3. SignalHistory(T, d) = [n \in 1..N |-> Or(T[n].rssi, 0)]
      BY <2>1, <2>4 DEF SignalHistory
    <3>4. Len(SignalHistory(T, d)) = N /\ SignalHistory(T, d)[N] = T[N].rssi
      BY <2>1, <2>4, <3>1, <3>3 DEF Or
    <3>5. Last(SignalHistory(T, d)) = signal
      BY <3>2, <3>4 DEF Last
    <3> QED
      BY <2>2, <3>5
  <2>5. CASE T # <<>> /\ T[N].rssi = Absent
    BY <2>1, <2>2, <2>5
  <2> QED
    BY <2>3, <2>4, <2>5
<1> QED
  BY Invariance, <1>1, PTL

-----------------------------------------------------------------------------
(* The bars of the signal panel.                                           *)

\* What one bar adds to those of a set of grades.
BarIn(fl, s, grade) == IF grade \in s THEN QualityPct(fl, grade) ELSE 0

\* The sum over a set of grades, written out: the fold unfolded as far as there are grades.
LEMMA BarsWrittenOut ==
  ASSUME NEW fl, NEW S \in SUBSET Grades, \A grade \in Grades : QualityPct(fl, grade) \in Nat
  PROVE  MapThenSumSet(LAMBDA grade : QualityPct(fl, grade), S)
            = BarIn(fl, S, "optimal") + BarIn(fl, S, "good") + BarIn(fl, S, "marginal")
<1> DEFINE total   == MapThenSumSet(LAMBDA grade : QualityPct(fl, grade), S)
           first(s) == CHOOSE x \in s : TRUE
           rest(s) == s \ {CHOOSE x \in s : TRUE}
           F(g)    == [s \in SUBSET S |->
                         IF s = {} THEN 0
                         ELSE QualityPct(fl, CHOOSE x \in s : TRUE) + g[s \ {CHOOSE x \in s : TRUE}]]
           sum     == CHOOSE g : g = F(g)
           out(s)  == BarIn(fl, s, "optimal") + BarIn(fl, s, "good") + BarIn(fl, s, "marginal")
           h       == [s \in SUBSET S |-> out(s)]
<1>1. total = sum[S]
  BY DEF MapThenSumSet, MapThenFoldSet
<1>2. out({}) = 0
  BY DEF BarIn
<1>3. ASSUME NEW s \in SUBSET S, s # {}
      PROVE  /\ first(s) \in s /\ rest(s) \in SUBSET S
             /\ out(s) = QualityPct(fl, first(s)) + out(rest(s))
  <2>1. first(s) \in s
    BY <1>3
  <2>2. rest(s) = s \ {first(s)}
    OBVIOUS
  <2> HIDE DEF first, rest
  <2>3. PICK a \in Nat, b \in Nat, c \in Nat :
           /\ a = QualityPct(fl, "optimal") /\ b = QualityPct(fl, "good")
           /\ c = QualityPct(fl, "marginal")
    BY DEF Grades
  <2>4. CASE first(s) = "optimal"
    BY <2>1, <2>2, <2>3, <2>4 DEF BarIn
  <2>5. CASE first(s) = "good"
    BY <2>1, <2>2, <2>3, <2>5 DEF BarIn
  <2>6. CASE first(s) = "marginal"
    BY <2>1, <2>2, <2>3, <2>6 DEF BarIn
  <2> QED
    BY <2>1, <2>2, <2>4, <2>5, <2>6 DEF Grades
<1>4. h = F(h)
  <2> SUFFICES ASSUME NEW s \in SUBSET S PROVE h[s] = F(h)[s]
    OBVIOUS
  <2> HIDE DEF out
  <2>1. CASE s = {}
    BY <1>2, <2>1
  <2>2. CASE s # {}
    BY <1>3, <2>2
  <2> QED
    BY <2>1, <2>2
<1>5. sum = F(sum)
  BY <1>4
<1> HIDE DEF sum, out
<1>6. ASSUME NEW s \in SUBSET S, rest(s) \in SUBSET S, sum[rest(s)] = out(rest(s))
      PROVE  sum[s] = out(s)
  <2>1. CASE s = {}
    BY <1>2, <1>5, <2>1
  <2>2. CASE s # {}
    <3>1. sum[s] = QualityPct(fl, first(s)) + sum[rest(s)]
      BY <1>5, <2>2
    <3> QED
      BY <1>3, <1>6, <2>2, <3>1
  <2> QED
    BY <2>1, <2>2
<1>7. sum[{}] = out({})
  <2>1. {} \in SUBSET S
    OBVIOUS
  <2> QED
    BY <1>2, <1>5, <2>1
<1>8. \A s \in SUBSET S : rest(s) \in SUBSET S /\ (s # {} => first(s) \in s /\ rest(s) = s \ {first(s)})
                          /\ (s = {} => rest(s) = {})
  OBVIOUS
<1> HIDE DEF first, rest, F
<1>9. /\ rest(rest(rest(S))) = {} /\ rest(rest(S)) \in SUBSET S /\ rest(S) \in SUBSET S
  <2>1. PICK t, u, v : t = rest(S) /\ u = rest(t) /\ v = rest(u)
    OBVIOUS
  <2>2. /\ t \in SUBSET S /\ u \in SUBSET S /\ v \in SUBSET S
    BY <1>8, <2>1
  <2>3. CASE S = {} \/ t = {} \/ u = {}
    <3>1. v = {}
      BY <1>8, <2>1, <2>2, <2>3
    <3> QED
      BY <2>1, <2>2, <3>1
  <2>4. CASE S # {} /\ t # {} /\ u # {}
    <3>1. PICK x, y, z : /\ x \in S /\ t = S \ {x}
                         /\ y \in t /\ u = t \ {y}
                         /\ z \in u /\ v = u \ {z}
      BY <1>8, <2>1, <2>2, <2>4
    <3>2. v = {}
      BY <3>1 DEF Grades
    <3> QED
      BY <2>1, <2>2, <3>2
  <2> QED
    BY <2>3, <2>4
<1> QED
  BY <1>1, <1>6, <1>7, <1>9 DEF out

\* The bars that are left out are empty ones.
LEMMA BarsShown ==
  ASSUME NEW fl, QualityPct(fl, "optimal") \in Nat, QualityPct(fl, "good") \in Nat,
         QualityPct(fl, "marginal") \in Nat
  PROVE  MapThenSumSet(LAMBDA grade : QualityPct(fl, grade), ShownBars(fl))
            = QualityPct(fl, "optimal") + QualityPct(fl, "good") + QualityPct(fl, "marginal")
<1>1. ShownBars(fl) \in SUBSET Grades /\ \A grade \in Grades : QualityPct(fl, grade) \in Nat
  BY DEF ShownBars, Grades
<1>2. \A grade \in Grades : BarIn(fl, ShownBars(fl), grade) = QualityPct(fl, grade)
  BY <1>1 DEF BarIn, ShownBars
<1> QED
  BY <1>1, <1>2, BarsWrittenOut DEF Grades

\* A percentage rounded to the nearest, as bounds on multiples of the whole.
LEMMA Rounded ==
  ASSUME NEW a \in Nat, NEW n \in Nat \ {0}
  PROVE  /\ Percent(a, n) \in Nat
         /\ 2 * (n * Percent(a, n)) <= 200 * a + n
         /\ 200 * a + n < 2 * (n * Percent(a, n)) + 2 * n
<1> DEFINE m == 2 * n
           k == 200 * a + n
           p == k \div m
<1>1. m \in Nat \ {0} /\ k \in Nat
  OBVIOUS
<1>2. p = Percent(a, n)
  BY DEF Percent
<1> HIDE DEF m, k
<1>3. p \in Nat /\ m * p <= k /\ k < m * p + m
  BY <1>1
<1> HIDE DEF p
<1>4. m * p = 2 * (n * p)
  BY <1>3 DEF m
<1> QED
  BY <1>2, <1>3, <1>4 DEF m, k

\* Multiples of a positive number are in the order of their factors.
LEMMA Multiples ==
  ASSUME NEW n \in Nat \ {0}, NEW s \in Nat, 197 * n < 2 * (n * s), 2 * (n * s) <= 203 * n
  PROVE  s \in 99..101
<1>1. s <= 98 => n * s <= 98 * n
  OBVIOUS
<1>2. s >= 102 => n * s >= 102 * n
  OBVIOUS
<1>3. n * s \in Nat
  OBVIOUS
<1> QED
  BY <1>1, <1>2, <1>3

\* Three shares of a whole, rounded one by one, make a hundred but for one.
LEMMA ThreeShares ==
  ASSUME NEW a \in Nat, NEW b \in Nat, NEW c \in Nat, a + b + c > 0
  PROVE  LET n == a + b + c IN Percent(a, n) + Percent(b, n) + Percent(c, n) \in 99..101
<1> DEFINE n == a + b + c
           p == Percent(a, n)
           q == Percent(b, n)
           r == Percent(c, n)
<1>1. n \in Nat \ {0} /\ a + b + c = n
  OBVIOUS
<1> HIDE DEF n
<1>2. /\ p \in Nat /\ 2 * (n * p) <= 200 * a + n /\ 200 * a + n < 2 * (n * p) + 2 * n
      /\ q \in Nat /\ 2 * (n * q) <= 200 * b + n /\ 200 * b + n < 2 * (n * q) + 2 * n
      /\ r \in Nat /\ 2 * (n * r) <= 200 * c + n /\ 200 * c + n < 2 * (n * r) + 2 * n
  BY <1>1, Rounded
<1> HIDE DEF p, q, r
<1>3. n * (p + q + r) = n * p + n * q + n * r
  BY <1>1, <1>2
<1>4. n * p \in Nat /\ n * q \in Nat /\ n * r \in Nat
  BY <1>1, <1>2
<1>5. 197 * n < 2 * (n * (p + q + r)) /\ 2 * (n * (p + q + r)) <= 203 * n
  <2> DEFINE x == n * p
             y == n * q
             z == n * r
  <2>1. /\ x \in Nat /\ 2 * x <= 200 * a + n /\ 200 * a + n < 2 * x + 2 * n
        /\ y \in Nat /\ 2 * y <= 200 * b + n /\ 200 * b + n < 2 * y + 2 * n
        /\ z \in Nat /\ 2 * z <= 200 * c + n /\ 200 * c + n < 2 * z + 2 * n
    BY <1>2, <1>4
  <2> HIDE DEF x, y, z
  <2>2. 197 * n < 2 * (x + y + z) /\ 2 * (x + y + z) <= 203 * n
    BY <1>1, <2>1
  <2> QED
    BY <1>3, <2>2 DEF x, y, z
<1>6. p + q + r \in 99..101
  BY <1>1, <1>2, <1>5, Multiples
<1> QED
  BY <1>6 DEF n, p, q, r

\* Two finite sets without a common element.
LEMMA Apart ==
  ASSUME NEW S, NEW T, IsFiniteSet(S), IsFiniteSet(T), S \cap T = {}
  PROVE  /\ IsFiniteSet(S \cup T)
         /\ Cardinality(S \cup T) = Cardinality(S) + Cardinality(T)
         /\ Cardinality(S) \in Nat /\ Cardinality(T) \in Nat
<1>1. Cardinality(S) \in Nat /\ Cardinality(T) \in Nat /\ Cardinality(S \cap T) = 0
  BY FS_CardinalityType, FS_EmptySet
<1>2. Cardinality(S \cup T) = Cardinality(S) + Cardinality(T) - Cardinality(S \cap T)
  BY FS_Union
<1>3. IsFiniteSet(S \cup T)
  BY FS_Union
<1> QED
  BY <1>1, <1>2, <1>3

\* The routers of each grade, and all that have one.
LEMMA GradedAddUp ==
  ASSUME NEW fl, IsFiniteSet(DOMAIN fl)
  PROVE  LET graded(G) == Cardinality({i \in DOMAIN fl : Bucket(fl[i]) \in G}) IN
         /\ \A grade \in Grades : graded({grade}) \in Nat
         /\ graded(Grades) = graded({"optimal"}) + graded({"good"}) + graded({"marginal"})
<1> DEFINE A == {i \in DOMAIN fl : Bucket(fl[i]) \in {"optimal"}}
           B == {i \in DOMAIN fl : Bucket(fl[i]) \in {"good"}}
           C == {i \in DOMAIN fl : Bucket(fl[i]) \in {"marginal"}}
           D == {i \in DOMAIN fl : Bucket(fl[i]) \in Grades}
<1>1. /\ A \in SUBSET DOMAIN fl /\ B \in SUBSET DOMAIN fl /\ C \in SUBSET DOMAIN fl
      /\ D = (A \cup B) \cup C /\ A \cap B = {} /\ (A \cup B) \cap C = {}
  BY DEF Grades
<1> HIDE DEF A, B, C, D
<1>2. IsFiniteSet(A) /\ IsFiniteSet(B) /\ IsFiniteSet(C)
  BY <1>1, FS_Subset
<1>3. /\ IsFiniteSet(A \cup B) /\ Cardinality(A \cup B) = Cardinality(A) + Cardinality(B)
      /\ Cardinality(A) \in Nat /\ Cardinality(B) \in Nat
  BY <1>1, <1>2, Apart
<1>4. Cardinality(D) = Cardinality(A \cup B) + Cardinality(C) /\ Cardinality(C) \in Nat
  BY <1>1, <1>2, <1>3, Apart
<1>5. Cardinality(D) = Cardinality(A) + Cardinality(B) + Cardinality(C)
  BY <1>3, <1>4
<1> QED
  BY <1>3, <1>4, <1>5 DEF A, B, C, D, Grades

\* The bars of any fleet: rounded one by one they make a hundred but for one, and
\* they are empty if no router is online.
LEMMA BarsOfFleet ==
  ASSUME NEW fl, IsFiniteSet(DOMAIN fl)
  PROVE  LET bars == MapThenSumSet(LAMBDA grade : QualityPct(fl, grade), ShownBars(fl))
         IN IF \E i \in DOMAIN fl : Online(fl[i]) THEN bars \in 99..101 ELSE bars = 0
<1> DEFINE graded(G) == Cardinality({i \in DOMAIN fl : Bucket(fl[i]) \in G})
           a      == graded({"optimal"})
           b      == graded({"good"})
           c      == graded({"marginal"})
           all    == graded(Grades)
           p      == QualityPct(fl, "optimal")
           q      == QualityPct(fl, "good")
           r      == QualityPct(fl, "marginal")
           bars   == MapThenSumSet(LAMBDA grade : QualityPct(fl, grade), ShownBars(fl))
           online == \E i \in DOMAIN fl : Online(fl[i])
<1>1. a \in Nat /\ b \in Nat /\ c \in Nat /\ all = a + b + c
  <2>1. /\ \A grade \in Grades : graded({grade}) \in Nat
        /\ graded(Grades) = graded({"optimal"}) + graded({"good"}) + graded({"marginal"})
    BY GradedAddUp
  <2> HIDE DEF graded
  <2> QED
    BY <2>1 DEF Grades
<1>2. ~online => all = 0
  <2>1. ~online => {i \in DOMAIN fl : Bucket(fl[i]) \in Grades} = {}
    BY DEF Bucket, Grades
  <2> QED
    BY <2>1, FS_EmptySet
<1>3. CASE all > 0
  <2>1. p = Percent(a, all) /\ q = Percent(b, all) /\ r = Percent(c, all)
    BY <1>3 DEF QualityPct
  <2> HIDE DEF graded, a, b, c, all, p, q, r
  <2>2. p \in Nat /\ q \in Nat /\ r \in Nat
    BY <1>1, <1>3, <2>1, Rounded
  <2>3. p + q + r \in 99..101
    BY <1>1, <1>3, <2>1, ThreeShares
  <2>4. bars = p + q + r
    BY <2>2, BarsShown DEF p, q, r
  <2> QED
    BY <1>2, <1>3, <2>3, <2>4
<1>4. CASE all = 0
  <2>1. p = (IF online THEN 100 ELSE 0) /\ q = 0 /\ r = 0
    BY <1>4 DEF QualityPct
  <2> HIDE DEF graded, a, b, c, all, p, q, r, online
  <2>2. p \in Nat /\ q \in Nat /\ r \in Nat
    BY <2>1
  <2>3. bars = p + q + r
    BY <2>2, BarsShown DEF p, q, r
  <2>4. IF online THEN bars = 100 ELSE bars = 0
    BY <2>1, <2>3
  <2> QED
    BY <2>4 DEF online
<1> HIDE DEF all
<1> QED
  BY <1>1, <1>3, <1>4

\* The panel's bars add up for a fleet of any size and any signals.
THEOREM BarsAlwaysAddUp == Spec => []BarsAddUp
<1>1. IInv => BarsAddUp
  <2> SUFFICES ASSUME IInv PROVE BarsAddUp
    OBVIOUS
  <2>1. \E n \in Nat : DOMAIN fleet = 1..n
    <3>1. CASE fleet = <<>>
      BY <3>1
    <3>2. CASE fleet \in Fleets
      <4>1. fleet \in Seq(Device)
        BY <3>2, FleetsAssumption
      <4> QED
        BY <4>1
    <3> QED
      BY <3>1, <3>2 DEF IInv, TypeOK
  <2>2. IsFiniteSet(DOMAIN fleet)
    BY <2>1, FS_Interval
  <2> QED
    BY <2>2, BarsOfFleet DEF BarsAddUp
<1> QED
  BY Invariance, <1>1, PTL
=============================================================================
