---------------------------- MODULE FleetMetrics ----------------------------
(***************************************************************************)
(* What the console's pages compute from the routers the server lists: the *)
(* signal buckets, filters and bars of Dashboard, the values of            *)
(* DeviceDetail, the columns and filters of DeviceList.  Several rules are *)
(* written twice, once per page or panel.  Percentages and megabytes are   *)
(* exact numbers here; megabytes are in tenths, as the pages show them.    *)
(***************************************************************************)
EXTENDS Integers, FiniteSets, Sequences, SequencesExt, FiniteSetsExt

CONSTANT Absent  \* a field the server left out

ASSUME AbsentAssumption == Absent \notin Int

Statuses == {"ONLINE", "OFFLINE", "PENDING_PROVISION", "UNCLAIMED", "REBOOTING"}

\* A router as the server lists it.  Its carrier is what the rules look for in the
\* name, {} an empty name; its free flash is in tenths of a megabyte.
Device == [status : Statuses, carrier : SUBSET {"airtel", "jio", "vi", "bsnl", "5g"},
           rssi : Int \cup {Absent}, cellular_rssi : Int \cup {Absent},
           flash_free : Nat, uptime_seconds : Nat]

Online(d)  == d.status = "ONLINE"
Pending(d) == d.status \in {"PENDING_PROVISION", "UNCLAIMED"}

\* Math.round(a / b * 100) for naturals, halves upwards.
Percent(a, b) == (200 * a + b) \div (2 * b)

\* a ?? b
Or(a, b) == IF a # Absent THEN a ELSE b

-----------------------------------------------------------------------------
(* Dashboard *)

RawRssi(d) == Or(d.rssi, d.cellular_rssi)
HasRssi(d) == RawRssi(d) \notin {Absent, 0}

\* carrierData: the slice of the pie that counts the router; the first match wins.
CarrierSlice(d) ==
    LET has(w) == w \in d.carrier IN
    IF d.carrier = {} THEN IF Online(d) THEN "Ethernet / Local WAN" ELSE "Offline / No Signal"
    ELSE IF has("airtel") THEN IF has("5g") THEN "Airtel 5G" ELSE "Airtel 4G"
    ELSE IF has("jio") THEN IF has("5g") THEN "Jio 5G" ELSE "Jio LTE"
    ELSE IF has("vi") THEN "Vodafone Idea"
    ELSE IF has("bsnl") THEN "BSNL"
    ELSE "as named"

\* The loop over onlineDevs that counts the quality of their signal.
Bucket(d) ==
    LET r == RawRssi(d) IN
    CASE ~Online(d) \/ ~HasRssi(d) -> "none"
      [] OTHER -> IF r < 0
                  THEN IF r >= -85 THEN "optimal" ELSE IF r >= -95 THEN "good" ELSE "marginal"
                  ELSE IF r >= 75 THEN "optimal" ELSE IF r >= 50 THEN "good" ELSE "marginal"

Grades == {"optimal", "good", "marginal"}

\* Mutant of QualityPct: rounded up.
QualityPctUp(fleet, grade) ==
    LET graded(G) == Cardinality({i \in DOMAIN fleet : Bucket(fleet[i]) \in G})
        total     == graded(Grades)
        online    == \E i \in DOMAIN fleet : Online(fleet[i])
    IN IF total > 0 THEN (100 * graded({grade}) + total - 1) \div total
       ELSE IF grade = "optimal" /\ online THEN 100 ELSE 0

\* optimalPct, goodPct and marginalPct.
QualityPct(fleet, grade) ==
    LET graded(G) == Cardinality({i \in DOMAIN fleet : Bucket(fleet[i]) \in G})
        online    == \E i \in DOMAIN fleet : Online(fleet[i])
    IN IF graded(Grades) > 0 THEN Percent(graded({grade}), graded(Grades))
       ELSE IF grade = "optimal" /\ online THEN 100 ELSE 0

\* The bars of the panel; good and marginal are left out if they are empty.
ShownBars(fleet) ==
    {grade \in Grades : grade = "optimal" \/ QualityPct(fleet, grade) > 0}

\* The tag of a row, and what stands for a carrier without a name.
DashboardTag(d) == IF d.status = "PENDING_PROVISION" THEN "PENDING CLAIM" ELSE d.status
RowCarrier(d) == IF d.carrier # {} THEN "as named"
                 ELSE IF Online(d) THEN "Ethernet WAN" ELSE "No Signal"

\* Mutant of RowQuality: the threshold of another page.
RowQualityAt70(d) ==
    LET r == RawRssi(d) IN
    IF ~HasRssi(d) THEN "none"
    ELSE IF (IF r < 0 THEN r >= -85 ELSE r >= 70) THEN "optimal"
    ELSE IF (IF r < 0 THEN r >= -95 ELSE r >= 50) THEN "good" ELSE "marginal"

\* The colour of a row's signal icon.
RowQuality(d) ==
    LET r == RawRssi(d)
        isOptimal == HasRssi(d) /\ (IF r < 0 THEN r >= -85 ELSE r >= 75)
        isGood    == HasRssi(d) /\ (IF r < 0 THEN r >= -95 ELSE r >= 50)
    IN IF ~HasRssi(d) THEN "none"
       ELSE IF isOptimal THEN "optimal" ELSE IF isGood THEN "good" ELSE "marginal"

\* Mutant of Filter: unclaimed routers are not pending.
FilterProvisioned(f, d) == CASE f = "ALL"     -> TRUE
                             [] f = "ONLINE"  -> Online(d)
                             [] f = "OFFLINE" -> d.status = "OFFLINE"
                             [] f = "PENDING" -> d.status = "PENDING_PROVISION"

\* filteredDevices, by the chosen status.
Filter(f, d) == CASE f = "ALL"     -> TRUE
                  [] f = "ONLINE"  -> Online(d)
                  [] f = "OFFLINE" -> d.status = "OFFLINE"
                  [] f = "PENDING" -> Pending(d)

\* The button at the end of a row.
RowAction(d) == IF Pending(d) THEN "claim" ELSE "details"

\* avgFlashFree: the mean, to a tenth, over the routers (a function from the rows to
\* routers) that report some free flash; 6.6 MB when none does.
AvgFlashFree(fleet) ==
    LET some  == {i \in DOMAIN fleet : fleet[i].flash_free > 0}
        total == MapThenSumSet(LAMBDA i : fleet[i].flash_free, some)
        n     == Cardinality(some)
    IN IF n > 0 THEN (2 * total + n) \div (2 * n) ELSE 66

AtMost100(p) == IF p < 100 THEN p ELSE 100

\* avgFlashPct: the share of a 16 MB overlay that is free.
FreePct(free) == AtMost100(Percent(free, 160))

\* formatUptime of the dashboard, the units shown.
DashboardUptime(secs) ==
    LET d == secs \div 86400  h == (secs % 86400) \div 3600  m == (secs % 3600) \div 60
    IN IF secs <= 0 THEN {} ELSE
       IF d > 0 THEN {<<"d", d>>, <<"h", h>>} ELSE
       IF h > 0 THEN {<<"h", h>>, <<"m", m>>} ELSE {<<"m", m>>}

-----------------------------------------------------------------------------
(* DeviceDetail *)

\* Mutant of CurrentRssi: || instead of ??, which takes 0 for a missing value.
CurrentRssiOr(latest, d) ==
    LET or(a, b) == IF a \in {Absent, 0} THEN b ELSE a
    IN or(latest, or(d.cellular_rssi, d.rssi))

\* currentRssi: the latest record's, then the router's own two fields.
CurrentRssi(latest, d) == Or(latest, Or(d.cellular_rssi, d.rssi))

\* currentCarrier, before the first telemetry record; the server sends one name in both
\* of the router's fields.
DetailCarrier(d) == IF d.carrier # {} THEN "as named" ELSE "Cellular LTE"

\* getStatusBadge
DetailTag(d) == d.status

\* The records in the order of "before", pairs of their places: each one comes after
\* those before it.
Arranged(records, before) ==
    LET place(i) == Cardinality({j \in DOMAIN records : <<j, i>> \in before}) + 1
    IN [n \in DOMAIN records |-> records[CHOOSE i \in DOMAIN records : place(i) = n]]

\* Mutant of Chronological: the comparison the other way round.
NewestFirst(records) ==
    Arranged(records, {q \in (DOMAIN records) \X (DOMAIN records) :
        \/ records[q[1]].timestamp > records[q[2]].timestamp
        \/ records[q[1]].timestamp = records[q[2]].timestamp /\ q[1] < q[2]})

\* The telemetry records in the order of time, in which the server should have sent
\* them already; sort is stable.
Chronological(records) ==
    Arranged(records, {q \in (DOMAIN records) \X (DOMAIN records) :
        \/ records[q[1]].timestamp < records[q[2]].timestamp
        \/ records[q[1]].timestamp = records[q[2]].timestamp /\ q[1] < q[2]})

\* latest?.rssi
LatestRssi(telemetry) == IF telemetry = <<>> THEN Absent ELSE Last(telemetry).rssi

\* The rssi line of signalHistory: the records, or one point for the live value.
SignalHistory(telemetry, d) ==
    IF telemetry # <<>> THEN [n \in DOMAIN telemetry |-> Or(telemetry[n].rssi, 0)]
    ELSE <<Or(CurrentRssi(Absent, d), -83)>>

\* flashUsed and flashPct: the share of the 16 MB that is used.
UsedPct(free) == AtMost100(Percent(IF free < 160 THEN 160 - free ELSE 0, 160))

\* formatUptime of the detail page.
DetailUptime(secs) ==
    LET d == secs \div 86400  h == (secs % 86400) \div 3600
        m == (secs % 3600) \div 60  s == secs % 60
    IN IF secs <= 0 THEN {<<"m", 0>>} ELSE
       IF d > 0 THEN {<<"d", d>>, <<"h", h>>, <<"m", m>>} ELSE
       IF h > 0 THEN {<<"h", h>>, <<"m", m>>} ELSE {<<"m", m>>, <<"s", s>>}

-----------------------------------------------------------------------------
(* DeviceList *)

\* The tag of a row: whatever is not online or rebooting is called offline.
ListTag(d) == IF d.status \in {"ONLINE", "REBOOTING"} THEN d.status ELSE "OFFLINE"

\* The carrier and signal column, of which a router that is not online has none.
ListCarrier(d) == IF ~Online(d) THEN "disconnected"
                  ELSE IF d.carrier # {} THEN "as named" ELSE "Airtel 4G"

\* Its icon: a zero or missing signal counts as 80 %, one in dBm is below any percentage.
ListSignal(d) ==
    LET r == IF d.rssi \in {Absent, 0} THEN 80 ELSE d.rssi
    IN CASE ~Online(d) -> "disconnected"
         [] OTHER -> IF r > 70 THEN "green" ELSE "amber"

\* The remote access buttons of a row are active.
ListReachable(d) == Online(d)

\* matchStatus
ListFilter(f, d) == f = "ALL" \/ d.status = f
=============================================================================
