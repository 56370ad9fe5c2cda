----------------------------- MODULE LocalPages -----------------------------
(***************************************************************************)
(* What the pages of the console keep for themselves: the fleet and the    *)
(* filter of Dashboard and DeviceList, the router and the telemetry of     *)
(* DeviceDetail (how they come by them is FleetPages' subject), and the    *)
(* tables that Alerts, ConfigProfiles, Deployments and Settings make up,   *)
(* fill and never send anywhere.  A page that is left loses all it kept.   *)
(***************************************************************************)
EXTENDS FleetMetrics

CONSTANTS
    Fleets,    \* bound: the fleets the server may list, sequences of routers
    Records,   \* bound: the telemetry the server may send, sequences of records
    MaxCount,  \* bound: the server's count of routers that wait for a claim
    Names,     \* the names a user enters
    Keys,      \* the enrollment tokens handleCreateTenant may make up
    MaxRows,   \* bound: rows a user adds to one table
    None

ASSUME FleetsAssumption == \A f \in Fleets : f \in Seq(Device)
ASSUME RecordsAssumption ==
    \A s \in Records : s \in Seq([timestamp : Nat, rssi : Int \cup {Absent}])
ASSUME BoundsAssumption == MaxCount \in Nat /\ MaxRows \in Nat

VARIABLES
    page,       \* the page App has mounted, or "blank" once rendering has thrown
    fleet,      \* devices; device of the detail page
    telemetry,  \* the detail page's records
    pending,    \* summary.pending_devices
    filter,     \* statusFilter
    incidents,  \* the status of Alerts' three incidents
    added,      \* the rows added to the page's table, first to last
    builder,    \* builderType of ConfigProfiles
    dialog,     \* the dialog that is open
    kit         \* latestKit of Settings: the row whose kit is shown

server == <<fleet, telemetry, pending>>
own    == <<filter, incidents, added, builder, dialog, kit>>
vars   == <<page, server, own>>

Pages      == {"dashboard", "devices", "detail", "alerts", "configs", "deployments",
               "settings", "blank"}
Subsystems == {"CELLULAR", "WIFI", "IPSEC", "FIREWALL", "RAW"}
Filters    == {"ALL", "ONLINE", "OFFLINE", "PENDING"}
Samples    == <<"ACTIVE", "ACKNOWLEDGED", "RESOLVED">>

\* A row that was added: of the tenants with its enrollment token, of the profiles
\* with its subsystem.
Row == [name : Names, detail : Keys \cup Subsystems \cup {None}]

TypeOK ==
    /\ page \in Pages
    /\ fleet \in Fleets \cup {<<>>}
    /\ telemetry \in Seq([timestamp : Nat, rssi : Int \cup {Absent}])
    /\ pending \in 0..MaxCount \cup {Absent}
    /\ filter \in Filters
    /\ incidents \in [1..3 -> {"ACTIVE", "ACKNOWLEDGED", "RESOLVED"}]
    /\ added \in Seq(Row) /\ Len(added) <= MaxRows
    /\ builder \in Subsystems
    /\ dialog \in {"none", "create", "push", "upload", "kit"}
    /\ kit \in Row \cup {None}

Init ==
    /\ page = "dashboard"
    /\ fleet = <<>> /\ telemetry = <<>> /\ pending = Absent /\ filter = "ALL"
    /\ incidents = Samples /\ added = <<>> /\ builder = "CELLULAR"
    /\ dialog = "none" /\ kit = None

\* Page p is there instead, with fresh state.
Mount(p) ==
    /\ page' = p
    /\ fleet' = <<>> /\ telemetry' = <<>> /\ pending' = Absent /\ filter' = "ALL"
    /\ incidents' = Samples /\ added' = <<>> /\ builder' = "CELLULAR"
    /\ dialog' = "none" /\ kit' = None

\* The menu, a router's link, the way back; only a reload helps against a blank page.
Enter(p) ==
    /\ p \notin {page, "blank"} /\ dialog = "none"
    /\ page = "blank" => p = "dashboard"
    /\ Mount(p)

-----------------------------------------------------------------------------
(* Dashboard, DeviceList and DeviceDetail *)

\* What loadData brings, an empty list if the routers' request fails; without the
\* summary, pending_devices is missing.
Load(f, n) ==
    /\ page \in {"dashboard", "devices"}
    /\ fleet' = f
    /\ pending' = IF page = "dashboard" THEN n ELSE Absent
    /\ UNCHANGED <<page, telemetry, own>>

\* A fleet without routers is null: the list takes it for empty, as above, but the
\* dashboard's bars throw and App is gone.
LoadNull ==
    /\ page = "dashboard"
    /\ Mount("blank")

\* What loadDeviceData brings: the router, and then its telemetry.
LoadDevice(d) ==
    /\ page = "detail"
    /\ fleet' = <<d>>
    /\ UNCHANGED <<page, telemetry, pending, own>>

LoadTelemetry(records) ==
    /\ page = "detail" /\ fleet # <<>>
    /\ telemetry' = Chronological(records)
    /\ UNCHANGED <<page, fleet, pending, own>>

\* pendingCount
PendingCount ==
    Or(pending, Cardinality({i \in DOMAIN fleet : Pending(fleet[i])}))

\* The radio buttons of the dashboard, the selection of the list.
SelectFilter(f) ==
    /\ \/ page = "dashboard" /\ (f = "PENDING" => PendingCount > 0)
       \/ page = "devices" /\ f # "PENDING"
    /\ filter' = f
    /\ UNCHANGED <<page, server, incidents, added, builder, dialog, kit>>

\* Mutant of ToggleCard: a second click clears the filter instead of choosing all.
ToggleCardOff(f) ==
    /\ page = "dashboard" /\ f # "ALL"
    /\ filter' = IF filter = f THEN None ELSE f
    /\ UNCHANGED <<page, server, incidents, added, builder, dialog, kit>>

\* A click on one of the dashboard's three cards.
ToggleCard(f) ==
    /\ page = "dashboard" /\ f # "ALL"
    /\ filter' = IF filter = f THEN "ALL" ELSE f
    /\ UNCHANGED <<page, server, incidents, added, builder, dialog, kit>>

\* The rows the table shows.
ShownRows ==
    {i \in DOMAIN fleet :
        IF page = "dashboard" THEN Filter(filter, fleet[i]) ELSE ListFilter(filter, fleet[i])}

-----------------------------------------------------------------------------
(* The pages with made-up data *)

SetStatus(i, st) ==
    /\ incidents' = [incidents EXCEPT ![i] = st]
    /\ UNCHANGED <<page, server, filter, added, builder, dialog, kit>>

\* handleAcknowledge
Acknowledge(i) ==
    page = "alerts" /\ dialog = "none" /\ incidents[i] = "ACTIVE"
        /\ SetStatus(i, "ACKNOWLEDGED")

\* handleResolve
Resolve(i) ==
    page = "alerts" /\ dialog = "none" /\ incidents[i] # "RESOLVED"
        /\ SetStatus(i, "RESOLVED")

\* The buttons that open a dialog; ConfigProfiles pushes, Deployments uploads.
Dialogs == CASE page = "configs"     -> {"create", "push"}
             [] page = "deployments" -> {"create", "upload"}
             [] page \in {"alerts", "settings"} -> {"create"}
             [] OTHER -> {}

OpenDialog ==
    /\ dialog = "none"
    /\ dialog' \in Dialogs
    /\ UNCHANGED <<page, server, filter, incidents, added, builder, kit>>

\* Cancel, Close and the OK of pushing and uploading, which change nothing else.
CloseDialog ==
    /\ dialog # "none"
    /\ dialog' = "none"
    /\ UNCHANGED <<page, server, filter, incidents, added, builder, kit>>

\* The tabs of the profile dialog.
SelectBuilder(b) ==
    /\ page = "configs" /\ dialog = "create"
    /\ builder' = b
    /\ UNCHANGED <<page, server, filter, incidents, added, dialog, kit>>

\* What the forms' handlers share: the dialog closes over a table with a row more.
Add(p, rows) ==
    /\ page = p /\ dialog = "create" /\ Len(added) < MaxRows
    /\ added' = rows
    /\ UNCHANGED <<page, server, filter, incidents, builder>>

\* handleCreateRule and handleCreateProfile add a row at the end, ...
CreateRule(n) ==
    /\ Add("alerts", Append(added, [name |-> n, detail |-> None]))
    /\ dialog' = "none" /\ UNCHANGED kit

CreateProfile(n) ==
    /\ Add("configs", Append(added, [name |-> n, detail |-> builder]))
    /\ dialog' = "none" /\ UNCHANGED kit

\* ... handleLaunchRollout adds one in front, ...
LaunchRollout(n) ==
    /\ Add("deployments", <<[name |-> n, detail |-> None]>> \o added)
    /\ dialog' = "none" /\ UNCHANGED kit

\* ... and so does handleCreateTenant, which goes on to show the kit.
CreateTenant(n, k) ==
    /\ Add("settings", <<[name |-> n, detail |-> k]>> \o added)
    /\ kit' = [name |-> n, detail |-> k] /\ dialog' = "kit"

\* "View Client Kit" of a tenant that was added.
ViewKit(i) ==
    /\ page = "settings" /\ dialog = "none"
    /\ kit' = added[i] /\ dialog' = "kit"
    /\ UNCHANGED <<page, server, filter, incidents, added, builder>>

Next ==
    \/ \E p \in Pages : Enter(p)
    \/ \E f \in Fleets \cup {<<>>}, n \in 0..MaxCount \cup {Absent} : Load(f, n)
    \/ LoadNull
    \/ \E f \in Fleets : Len(f) = 1 /\ LoadDevice(f[1])
    \/ \E records \in Records : LoadTelemetry(records)
    \/ \E f \in Filters : SelectFilter(f) \/ ToggleCard(f)
    \/ \E i \in 1..3 : Acknowledge(i) \/ Resolve(i)
    \/ OpenDialog \/ CloseDialog
    \/ \E b \in Subsystems : SelectBuilder(b)
    \/ \E n \in Names :
          \/ CreateRule(n) \/ CreateProfile(n) \/ LaunchRollout(n)
          \/ \E k \in Keys : CreateTenant(n, k)
    \/ \E i \in DOMAIN added : ViewKit(i)

Spec == Init /\ [][Next]_vars
-----------------------------------------------------------------------------
\* The panel and the table of the dashboard grade an online router alike, though each
\* has its own copy of the thresholds.  The list, which knows percentages only, never
\* contradicts them on a percentage.  It does on everything else, and only there: it
\* shows in amber what is optimal in dBm, and in green, as 80 %, a router whose rssi is
\* missing or 0, which they may grade by its cellular_rssi or show without a signal.
GradesAgreeOnPercent ==
    \A i \in DOMAIN fleet : LET d == fleet[i] IN
        Online(d) =>
            /\ Bucket(d) = RowQuality(d)
            /\ Bucket(d) = "optimal" => (ListSignal(d) = "amber" <=> d.rssi \in -85..-1)
            /\ Bucket(d) \in {"marginal", "none"} =>
                  (ListSignal(d) = "green" <=> d.rssi \in {Absent, 0})

\* The bars of the signal panel are rounded one by one and still add up to a hundred
\* percent but for one; they are empty only if no router is online.  (Without any router
\* in the fleet the panel is never drawn: LoadNull.)
BarsAddUp ==
    LET bars == MapThenSumSet(LAMBDA grade : QualityPct(fleet, grade), ShownBars(fleet))
    IN IF \E i \in DOMAIN fleet : Online(fleet[i]) THEN bars \in 99..101 ELSE bars = 0

\* Whatever was loaded and chosen before: the dashboard's filters share out the fleet,
\* only rebooting routers being under none, a router is offered for claiming if and
\* only if it waits for it, the list's buttons are active on what the dashboard's filter
\* calls online, and of all that the list tags OFFLINE its filter of that name shows
\* those only that do not wait for a claim.
FiltersShareOut ==
    \A i \in DOMAIN fleet : LET d == fleet[i] IN
        /\ Cardinality({f \in Filters \ {"ALL"} : Filter(f, d)})
              = (IF d.status = "REBOOTING" THEN 0 ELSE 1)
        /\ filter = "PENDING" /\ i \in ShownRows => RowAction(d) = "claim"
        /\ filter \in {"ONLINE", "OFFLINE"} /\ i \in ShownRows => RowAction(d) = "details"
        /\ ListReachable(d) <=> Filter("ONLINE", d)
        /\ page = "devices" /\ filter = "OFFLINE" =>
              (i \in ShownRows <=> ListTag(d) = "OFFLINE" /\ ~Pending(d))

\* Where the pages say the same of a router, and where they do not: whether it is up;
\* on the dashboard, whether its carrier has a name; its carrier, if it has a name, while
\* for one without the list and the detail page each make up another; its signal before
\* the first telemetry record, unless the server sent two values for the two fields,
\* which it takes from one record; its uptime to the units the dashboard leaves off; and
\* bars of free and of used flash that complement each other but for rounding.  (Not if
\* no flash is free at all: the dashboard then assumes 6.6 MB.)
PagesAgree ==
    \A i \in DOMAIN fleet : LET d == fleet[i] free == AvgFlashFree([x \in {i} |-> d]) IN
        /\ \A up \in {"ONLINE", "REBOOTING"} :
              (DashboardTag(d) = up <=> ListTag(d) = up) /\ (DetailTag(d) = up <=> ListTag(d) = up)
        /\ CarrierSlice(d) = "Ethernet / Local WAN" <=> RowCarrier(d) = "Ethernet WAN"
        /\ CarrierSlice(d) = "Offline / No Signal" <=> RowCarrier(d) = "No Signal"
        /\ DetailCarrier(d) = RowCarrier(d) <=> d.carrier # {}
        /\ Online(d) => (ListCarrier(d) \in {RowCarrier(d), DetailCarrier(d)} <=> d.carrier # {})
        /\ CurrentRssi(Absent, d) = RawRssi(d)
              <=> d.cellular_rssi = d.rssi \/ Absent \in {d.cellular_rssi, d.rssi}
        /\ DashboardUptime(d.uptime_seconds) \subseteq DetailUptime(d.uptime_seconds)
        /\ d.flash_free > 0 => FreePct(free) + UsedPct(d.flash_free) \in {100, 101}
        /\ FreePct(free) \in 0..100 /\ UsedPct(d.flash_free) \in 0..100

\* The detail page's signal is that of the newest record, also if the server had not
\* sent them in the order of time, and the chart ends in it: if that record has a signal,
\* or there is none.
ChartEndsInSignal ==
    page = "detail" /\ fleet # <<>> =>
        LET d      == fleet[1]
            signal == CurrentRssi(LatestRssi(telemetry), d)
        IN /\ \A n \in DOMAIN telemetry : telemetry[n].timestamp <= Last(telemetry).timestamp
           /\ \/ telemetry # <<>> /\ Last(telemetry).rssi = Absent
              \/ signal = Absent
              \/ Last(SignalHistory(telemetry, d)) = signal

Rank(st) == CASE st = "ACTIVE" -> 1 [] st = "ACKNOWLEDGED" -> 2 [] st = "RESOLVED" -> 3

\* While the page of incidents is up, an incident only ever moves towards its end.
IncidentsMoveOn ==
    [][page' = "alerts" /\ page = "alerts" =>
           \A i \in 1..3 : Rank(incidents[i]) <= Rank(incidents'[i])]_vars

\* The kit on the screen is that of a tenant in the table, token and all: also when
\* another tenant was added or looked at in between.
KitIsOfTenant == dialog = "kit" => kit \in ToSet(added)
=============================================================================
