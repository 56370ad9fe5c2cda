----------------------------- MODULE FleetPages -----------------------------
(***************************************************************************)
(* The pages of the console that show the fleet, Dashboard, DeviceList and *)
(* DeviceDetail of src/frontend/src/pages, and how they keep up with the   *)
(* server: loads that overlap and are answered in any order or not at all, *)
(* the timers that start them, the spinners that announce them, and the    *)
(* two operations after which a page loads again, claiming a router        *)
(* (components/ClaimDeviceModal.tsx) and rebooting one.                    *)
(*                                                                         *)
(* The server's data is its version, the number of changes so far; what a  *)
(* page shows is the version it was computed from.  App mounts one page at *)
(* a time; what arrives for a page that is gone changes nothing.  A fleet  *)
(* without routers reaches the pages as null: the list takes it for empty, *)
(* the dashboard throws while it renders, which unmounts the whole App.    *)
(***************************************************************************)
EXTENDS Naturals

CONSTANTS
    Slots,        \* bound: the loads of one page that overlap
    First,        \* the slot of the load that a page starts with
    Parts,        \* the requests of one load of the dashboard
    MaxVersion,   \* bound: changes of the server's data
    MaxFailures,  \* bound: requests that fail
    Idle,         \* a slot without a load
    Waiting,      \* a request that is not answered
    Unsent,       \* one that waits for another answer
    Nothing       \* no data of the server's: null, [] or a made-up default

ASSUME SlotsAssumption == First \in Slots
ASSUME PartsAssumption ==
    /\ "devices" \in Parts
    /\ Parts \subseteq {"summary", "devices", "incidents", "audit"}
ASSUME BoundsAssumption == MaxVersion \in Nat /\ MaxFailures \in Nat
ASSUME MarksAssumption ==
    /\ {Waiting, Unsent, Nothing} \cap Nat = {}
    /\ Waiting # Unsent /\ Waiting # Nothing /\ Unsent # Nothing

VARIABLES
    version,     \* the server's data
    bare,        \* the last version without any router in the fleet, or 0; constant
    page,        \* the page App has mounted, or "blank" once rendering has thrown
    data,        \* per part of the page, the version it shows or Nothing
    loading,     \* the page's loading flag
    refreshing,  \* its refreshing flag; the list has none
    auto,        \* its interval timer runs
    loads,       \* per slot, the load in flight: what it was started as, what its
                 \* requests were answered, and whether another one was applied since
    claimOpen,   \* the claim dialog is open
    claim,       \* its request: "none", "sent", "done" or "refused" by the server
    reboot,      \* the reboot confirmation: "none", "asked" or "sent"
    dismissed,   \* a reboot is on its way whose confirmation was cancelled
    failures,    \* requests that have failed, for the bound
    owed,        \* history: the version of a successful claim not shown yet, or 0
    swallowed    \* history: the dashboard has since shown a failed list as empty

server  == <<version, bare>>
shown   == <<page, data, loading, refreshing, auto>>
dialog  == <<claimOpen, claim, reboot, dismissed>>
history == <<owed, swallowed>>
vars    == <<server, shown, loads, dialog, failures, history>>

Pages    == {"dashboard", "devices", "detail", "blank"}
Versions == 1..MaxVersion + 1

PartsOf(p) == CASE p = "dashboard" -> Parts
                [] p = "devices"   -> {"devices"}
                [] p = "detail"    -> {"device", "telemetry"}
                [] p = "blank"     -> {}

\* The part in which a newly claimed router appears.
ListPart(p) == IF p = "detail" THEN "device" ELSE "devices"

\* A load in flight of page p.
LoadOf(p) == [kind : {"initial", "refresh", "poll"}, overtaken : BOOLEAN,
              got : [PartsOf(p) -> Versions \cup {Waiting, Unsent, Nothing}]]

ASSUME IdleAssumption == \A p \in Pages : Idle \notin LoadOf(p)

NewLoad(p, k) ==
    [kind |-> k, overtaken |-> FALSE,
     got |-> [q \in PartsOf(p) |-> IF q = "telemetry" THEN Unsent ELSE Waiting]]

Busy(s)   == loads[s] # Idle
Masked    == claimOpen \/ reboot # "none"

\* The page shows some router, to choose or to reboot.
ShowsRouter == \E q \in DOMAIN data \cap {"devices", "device"} :
                   data[q] \in Versions /\ data[q] > bare

\* The requests of a load are answered or have failed.
Settled(s) == \A q \in PartsOf(page) : loads[s].got[q] \notin {Waiting, Unsent}

TypeOK ==
    /\ version \in Versions /\ bare \in {0} \cup Versions
    /\ page \in Pages
    /\ data \in [PartsOf(page) -> Versions \cup {Nothing}]
    /\ loading \in BOOLEAN /\ refreshing \in BOOLEAN /\ auto \in BOOLEAN
    /\ loads \in [Slots -> {Idle} \cup LoadOf(page)]
    /\ claimOpen \in BOOLEAN
    /\ claim \in {"none", "sent", "done", "refused"}
    /\ reboot \in {"none", "asked", "sent"} /\ dismissed \in BOOLEAN
    /\ failures \in 0..MaxFailures
    /\ owed \in {0} \cup Versions /\ swallowed \in BOOLEAN

-----------------------------------------------------------------------------
\* The state of a page that has just been mounted and has run its effects.
MountedData(p)  == [q \in PartsOf(p) |-> Nothing]
MountedLoads(p) == [s \in Slots |-> IF s = First THEN NewLoad(p, "initial") ELSE Idle]

Init ==
    /\ version = 1 /\ bare \in {0} \cup Versions
    /\ page = "dashboard" /\ data = MountedData(page)
    /\ loading = TRUE /\ refreshing = FALSE /\ auto = TRUE
    /\ loads = MountedLoads(page)
    /\ claimOpen = FALSE /\ claim = "none" /\ reboot = "none" /\ dismissed = FALSE
    /\ failures = 0 /\ owed = 0 /\ swallowed = FALSE

\* Page p is mounted; what was under way for another one has lost its page.
Mount(p) ==
    /\ page' = p /\ data' = MountedData(p)
    /\ loading' = TRUE /\ refreshing' = FALSE /\ auto' = (p # "devices")
    /\ loads' = MountedLoads(p)
    /\ claimOpen' = FALSE /\ claim' = "none" /\ reboot' = "none" /\ dismissed' = FALSE
    /\ owed' = 0 /\ swallowed' = FALSE
    /\ UNCHANGED <<server, failures>>

\* The menu, a router's link, the way back.
Enter(p) ==
    /\ p \notin {page, "blank"} /\ page # "blank" /\ ~Masked
    /\ p = "detail" => ShowsRouter
    /\ Mount(p)

\* The browser's reload, which is all that a blank App leaves to do.
Reload ==
    /\ page = "blank"
    /\ Mount("dashboard")

\* Mutants of Ends: the two flags are taken for each other; refreshing is not reset.
EndsOther(k) ==
    /\ loading'    = (loading /\ page = "dashboard" /\ k = "initial")
    /\ refreshing' = (refreshing /\ page = "dashboard" /\ k # "initial")
EndsSpinning(k) ==
    /\ loading'    = (loading /\ page = "dashboard" /\ k # "initial")
    /\ refreshing' = refreshing

\* What a load sets when it starts and when it ends.
Starts(k) ==
    /\ loading'    = (loading \/ page = "devices")
    /\ refreshing' = (refreshing \/ (page = "dashboard" /\ k # "initial")
                                 \/ (page = "detail" /\ k = "refresh"))
Ends(k) ==
    /\ loading'    = (loading /\ page = "dashboard" /\ k # "initial")
    /\ refreshing' = (refreshing /\ page = "dashboard" /\ k = "initial")

StartLoad(s, k) ==
    /\ ~Busy(s)
    /\ loads' = [loads EXCEPT ![s] = NewLoad(page, k)]
    /\ Starts(k)

\* The page shows its controls.
Interactive ==
    CASE page = "dashboard" -> ~loading
      [] page = "devices"   -> TRUE
      [] page = "detail"    -> data["device"] # Nothing
      [] page = "blank"     -> FALSE

\* The Refresh button; the dashboard's is inert while it spins.
Refresh(s) ==
    /\ Interactive /\ ~Masked
    /\ page = "dashboard" => ~refreshing
    /\ StartLoad(s, "refresh")
    /\ UNCHANGED <<server, page, data, auto, dialog, failures, history>>

\* Mutant of Poll: the timer fires until there is something to show.
PollUntilShown(s) ==
    /\ auto /\ \E q \in DOMAIN data : data[q] = Nothing
    /\ StartLoad(s, "poll")
    /\ UNCHANGED <<server, page, data, auto, dialog, failures, history>>

\* The interval timer of the dashboard or the detail page.
Poll(s) ==
    /\ auto
    /\ StartLoad(s, "poll")
    /\ UNCHANGED <<server, page, data, auto, dialog, failures, history>>

\* The dashboard's Auto-Refresh selection; Off stops the timer.
SelectInterval ==
    /\ page = "dashboard" /\ Interactive /\ ~Masked
    /\ auto' = ~auto
    /\ UNCHANGED <<server, page, data, loading, refreshing, loads, dialog, failures, history>>

-----------------------------------------------------------------------------
ServerChanges ==
    /\ version <= MaxVersion
    /\ version' = version + 1
    /\ UNCHANGED <<bare, shown, loads, dialog, failures, history>>

\* Mutant of Answer: a cache answers.
AnswerCached(s, q) ==
    /\ Busy(s) /\ loads[s].got[q] = Waiting
    /\ \E v \in 1..version : loads' = [loads EXCEPT ![s].got[q] = v]
    /\ UNCHANGED <<server, shown, dialog, failures, history>>

\* The server answers a request with its data of this moment.
Answer(s, q) ==
    /\ Busy(s) /\ loads[s].got[q] = Waiting
    /\ loads' = [loads EXCEPT ![s].got[q] = version]
    /\ UNCHANGED <<server, shown, dialog, failures, history>>

\* The request fails or has no answer in ten seconds.
Fail(s, q) ==
    /\ Busy(s) /\ loads[s].got[q] = Waiting
    /\ failures < MaxFailures /\ failures' = failures + 1
    /\ loads' = [loads EXCEPT ![s].got[q] = Nothing]
    /\ UNCHANGED <<server, shown, dialog, history>>

\* The loads after one of them has been applied, with that one as now.
Overtake(s, now) ==
    [x \in Slots |-> IF x = s THEN now
                     ELSE IF Busy(x) THEN [loads[x] EXCEPT !.overtaken = TRUE]
                     ELSE Idle]

\* A claim is not owed any more once a list shows it, or DeviceList shows an error;
\* the dashboard takes a list that failed for an empty one and says nothing.
StillOwed(v) ==
    IF (v = Nothing /\ page = "devices") \/ (v # Nothing /\ v >= owed) THEN 0 ELSE owed

\* loadData of the dashboard goes on: every request is settled, a failed one by its
\* default.
DashboardLoaded(s) ==
    /\ page = "dashboard" /\ Busy(s) /\ Settled(s)
    /\ loads[s].got["devices"] \notin 1..bare
    /\ data' = loads[s].got
    /\ owed' = StillOwed(loads[s].got["devices"])
    /\ swallowed' = (owed' # 0 /\ (swallowed \/ loads[s].got["devices"] = Nothing))
    /\ loads' = Overtake(s, Idle)
    /\ Ends(loads[s].kind)
    /\ UNCHANGED <<server, page, auto, dialog, failures>>

\* The same with null for the devices, which the next rendering filters: it throws,
\* and nothing of App is left.
DashboardThrows(s) ==
    /\ page = "dashboard" /\ Busy(s) /\ Settled(s)
    /\ loads[s].got["devices"] \in 1..bare
    /\ page' = "blank" /\ data' = MountedData("blank")
    /\ loading' = FALSE /\ refreshing' = FALSE /\ auto' = FALSE
    /\ loads' = [x \in Slots |-> Idle]
    /\ claimOpen' = FALSE /\ claim' = "none"
    /\ owed' = 0 /\ swallowed' = FALSE
    /\ UNCHANGED <<server, reboot, dismissed, failures>>

\* loadData of the device list: then, or catch with an empty list, and finally.
ListLoaded(s) ==
    /\ page = "devices" /\ Busy(s) /\ Settled(s)
    /\ data' = loads[s].got
    /\ owed' = StillOwed(loads[s].got["devices"])
    /\ swallowed' = (owed' # 0 /\ swallowed)
    /\ loads' = Overtake(s, Idle)
    /\ Ends(loads[s].kind)
    /\ UNCHANGED <<server, page, auto, dialog, failures>>

\* loadDeviceData: the device is shown at once, then its telemetry is asked for.
DeviceLoaded(s) ==
    /\ page = "detail" /\ Busy(s)
    /\ loads[s].got["telemetry"] = Unsent /\ loads[s].got["device"] \in Versions
    /\ data' = [data EXCEPT !["device"] = loads[s].got["device"]]
    /\ loads' = Overtake(s, [loads[s] EXCEPT !.got["telemetry"] = Waiting])
    /\ UNCHANGED <<server, page, loading, refreshing, auto, dialog, failures, history>>

\* Without the device, the outer catch: the page keeps what it shows.
DeviceFailed(s) ==
    /\ page = "detail" /\ Busy(s) /\ loads[s].got["device"] = Nothing
    /\ loads' = [loads EXCEPT ![s] = Idle]
    /\ Ends(loads[s].kind)
    /\ UNCHANGED <<server, page, data, auto, dialog, failures, history>>

\* A failed telemetry request keeps the old records.
TelemetryLoaded(s) ==
    /\ page = "detail" /\ Busy(s) /\ Settled(s) /\ loads[s].got["device"] # Nothing
    /\ data' = IF loads[s].got["telemetry"] = Nothing THEN data
               ELSE [data EXCEPT !["telemetry"] = loads[s].got["telemetry"]]
    /\ loads' = Overtake(s, Idle)
    /\ Ends(loads[s].kind)
    /\ UNCHANGED <<server, page, auto, dialog, failures, history>>

Apply(s) == \/ DashboardLoaded(s) \/ DashboardThrows(s) \/ ListLoaded(s)
            \/ DeviceLoaded(s) \/ DeviceFailed(s) \/ TelemetryLoaded(s)

-----------------------------------------------------------------------------
\* "+ Claim", "Claim Now" and "Claim Router": the two pages that list devices.
OpenClaim ==
    /\ page # "detail" /\ Interactive /\ ~Masked
    /\ claimOpen' = TRUE
    /\ UNCHANGED <<server, shown, loads, claim, reboot, dismissed, failures, history>>

\* handleSubmit with a valid form; the button is inert while it is loading.
SubmitClaim ==
    /\ claimOpen /\ claim = "none"
    /\ claim' = "sent"
    /\ UNCHANGED <<server, shown, loads, claimOpen, reboot, dismissed, failures, history>>

\* Cancel closes the dialog, it does not cancel the request.
CancelClaim ==
    /\ claimOpen
    /\ claimOpen' = FALSE
    /\ UNCHANGED <<server, shown, loads, claim, reboot, dismissed, failures, history>>

ClaimAccepted ==
    /\ claim = "sent" /\ bare <= version /\ version <= MaxVersion
    /\ claim' = "done" /\ version' = version + 1
    /\ UNCHANGED <<bare, shown, loads, claimOpen, reboot, dismissed, failures, history>>

ClaimRefused ==
    /\ claim = "sent"
    /\ claim' = "refused"
    /\ UNCHANGED <<server, shown, loads, claimOpen, reboot, dismissed, failures, history>>

\* Mutant of ClaimSucceeds: the page is not told.
ClaimSucceedsQuietly(s) ==
    /\ claim = "done"
    /\ claim' = "none" /\ claimOpen' = FALSE
    /\ owed' = version /\ swallowed' = FALSE
    /\ UNCHANGED <<server, shown, loads, reboot, dismissed, failures>>

\* handleSubmit goes on: onSuccess loads the list again, onClose closes the dialog,
\* also one that was cancelled and opened again since.
ClaimSucceeds(s) ==
    /\ claim = "done"
    /\ claim' = "none" /\ claimOpen' = FALSE
    /\ owed' = version /\ swallowed' = FALSE
    /\ StartLoad(s, "refresh")
    /\ UNCHANGED <<server, page, data, auto, reboot, dismissed, failures>>

\* Its catch: refused, failed, or done but the answer is lost.
ClaimFails ==
    /\ claim = "refused" \/ (claim # "none" /\ failures < MaxFailures)
    /\ failures' = IF claim = "refused" THEN failures ELSE failures + 1
    /\ claim' = "none"
    /\ UNCHANGED <<server, shown, loads, claimOpen, reboot, dismissed, history>>

\* handleReboot: a confirmation, which stays up until its promise is settled or the
\* user cancels it; the detail page's button spins as long as a reboot is on its way.
AskReboot ==
    /\ page # "dashboard" /\ ShowsRouter /\ ~Masked
    /\ page = "detail" => ~dismissed
    /\ reboot' = "asked"
    /\ UNCHANGED <<server, shown, loads, claimOpen, claim, dismissed, failures, history>>

ConfirmReboot ==
    /\ reboot = "asked"
    /\ reboot' = "sent"
    /\ UNCHANGED <<server, shown, loads, claimOpen, claim, dismissed, failures, history>>

\* Cancel before it is confirmed, ...
CancelReboot ==
    /\ reboot = "asked"
    /\ reboot' = "none"
    /\ UNCHANGED <<server, shown, loads, claimOpen, claim, dismissed, failures, history>>

\* ... and after: the request goes on.  Bound: one such request at a time.
DismissReboot ==
    /\ reboot = "sent" /\ ~dismissed
    /\ reboot' = "none" /\ dismissed' = TRUE
    /\ UNCHANGED <<server, shown, loads, claimOpen, claim, failures, history>>

\* A reboot's request is over, with its confirmation on the screen or without.
RebootEnds ==
    \/ reboot = "sent" /\ reboot' = "none" /\ UNCHANGED dismissed
    \/ dismissed /\ dismissed' = FALSE /\ UNCHANGED reboot

RebootSucceeds(s) ==
    /\ RebootEnds
    /\ StartLoad(s, "refresh")
    /\ UNCHANGED <<server, page, data, auto, claimOpen, claim, failures, history>>

RebootFails ==
    /\ RebootEnds
    /\ failures < MaxFailures /\ failures' = failures + 1
    /\ UNCHANGED <<server, shown, loads, claimOpen, claim, history>>

Request(s) == \E q \in PartsOf(page) : Answer(s, q) \/ Fail(s, q)

Claiming ==
    \/ ClaimAccepted \/ ClaimRefused \/ ClaimFails \/ \E s \in Slots : ClaimSucceeds(s)

Next ==
    \/ \E p \in Pages : Enter(p)
    \/ Reload \/ ServerChanges \/ SelectInterval
    \/ \E s \in Slots : Refresh(s) \/ Poll(s) \/ Request(s) \/ Apply(s) \/ RebootSucceeds(s)
    \/ Claiming \/ OpenClaim \/ SubmitClaim \/ CancelClaim
    \/ AskReboot \/ ConfirmReboot \/ CancelReboot \/ DismissReboot \/ RebootFails

Spec == Init /\ [][Next]_vars

\* Requests end (axios gives each ten seconds), what follows an await runs, and
\* a timer that runs fires.
FairSpec ==
    /\ Spec
    /\ \A s \in Slots : WF_vars(Request(s) \/ Apply(s))
    /\ WF_vars(\E s \in Slots : Poll(s))

-----------------------------------------------------------------------------
\* A spinner has a reason: although every load sets and clears the same two flags,
\* a page never spins without a load in flight whose end will stop it.
SpinnerHasLoad ==
    /\ loading => \E s \in Slots : Busy(s) /\
           (page # "devices" => loads[s].kind = "initial")
    /\ refreshing => \E s \in Slots : Busy(s) /\ loads[s].kind # "initial"

\* What a page shows goes back in time only when two of its loads overlapped and
\* were answered in the wrong order; never because of a page that is gone.
BackOnlyByOverlap ==
    [][\A q \in DOMAIN data \cap DOMAIN data' :
          (data[q] # Nothing /\ data'[q] # Nothing /\ data'[q] < data[q])
              => \E s \in Slots : Busy(s) /\ loads[s].overtaken]_vars

\* A successful claim is on its way to the screen: a load whose list cannot be
\* older than the claim is in flight until one has been shown, by DeviceList with an
\* error if it failed; unless it was the dashboard, which hides such a failure.
ClaimOnItsWay ==
    owed # 0 /\ ~swallowed => \E s \in Slots : Busy(s) /\
        loads[s].got["devices"] \in {Waiting, Nothing} \cup owed..MaxVersion + 1

\* The router that was claimed comes into view, or an error, or the page is left or
\* gone, in spite of loads that overlap and fail; except on a dashboard that has hidden
\* the failure of the list and whose Auto-Refresh is off.  (That an older answer can
\* take it out of view again is what BackOnlyByOverlap confines.)
ClaimShows == owed # 0 ~> owed = 0 \/ (swallowed /\ ~auto)

\* A page that keeps polling comes to show the server's data and nothing older, in
\* spite of loads that overlap, fail or are answered in any order.
PolledPageCatchesUp ==
    \A p \in {"dashboard", "detail"} :
        <>[](page = p /\ auto) => <>[](\A q \in DOMAIN data : data[q] = version)

\* On a page that is not left, no spinner turns for ever, whoever cleared or set the
\* flag it stands for in between.
SpinnersStop ==
    \A p \in Pages : <>[](page = p) => []<>(~loading) /\ []<>(~refreshing)
=============================================================================
