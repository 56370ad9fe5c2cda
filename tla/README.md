# Formal model of the Niseva / XNET Cloud RMS

TLA+ modules, TLC configurations and TLAPS proofs for the remote management
system in `src/`: a Go backend, a C agent on OpenWrt routers, a web console in
React, and a Mosquitto broker and a PostgreSQL database between and below them.
The repository has no tests; this project is about what a test would hardly
reach: handlers that interleave between two statements or two awaits, two
threads without a lock, late answers, restarts.

`tlc -config X.cfg M` checks module `M`; `tlapm M_proofs.tla` checks proofs.
`PROJECT.json` maps every definition to source lines and lists the runs, the
mutants that show each property can fail, the findings and the hazards.

## 1. The system

| Component | State | Operations | Talks to |
|---|---|---|---|
| RMS Connect gateway, `backend/internal/tunnel/tunnel.go` | `activeTunnels`: per token a `TunnelPair` (router and browser connection, `Active`, early buffer, pipe writer, `Mutex`, `HttpLock`); the row in `tunnel_sessions` | RequestTunnel, RouterInletWS, BrowserOutletWS, HttpProxyHandler, FallbackReverseProxyHandler | router (WebSocket), browser, database, MQTT |
| Agent rollback watchdog, `agent/src/rollback.c` | `watchdog_active`, a uloop timer, `/tmp/niseva_uci_backup`, `/etc/config` | apply_uci_config_with_watchdog, check_rollback_watchdog, cancel_rollback_watchdog | commands.c, main.c, uci and network scripts |
| Device provisioning, `backend/internal/devices`, `agent/src/bootstrap.c` | `devices` and `enrollment_tokens` rows; the agent's token in flash | ClaimDevice, RouterCheckIn, InternalMqttAuth; perform_provision_checkin, checkin_retry_cb | database, broker |
| Agent tunnel bridge, `agent/src/tunnel.c` | one `g_active_tunnel`: two descriptors, handshake, pending bytes, a child shell; a TTL timer | open_reverse_tunnel, close_reverse_tunnel, read callbacks, frame parser and sender | gateway, LuCI, shell |
| Agent main loop and commands, `agent/src/main.c`, `commands.c` | configuration, timers, the MQTT client | connect callback, command dispatch, reboot, sysupgrade | everything on the router |
| MQTT bridge and device status, `backend/internal/mqtt`, reboot endpoint in `cmd/server/main.go` | `Client`; the columns `status` and `last_heartbeat_at` | InitMQTT, handleHeartbeat, handleTelemetry, DispatchCommand | broker, database |
| Telemetry, `backend/internal/telemetry`, `agent/src/telemetry.c` | `telemetry_records`, the device's snapshot columns | IngestTelemetryRecord, queries; collection on the router | database, MQTT |
| Deployments and configuration push, `deployments`, `configs` | rollouts, profiles | StartRollout, PushProfile and others | database, MQTT |
| Authentication, tenants, alerts | users, organizations, tokens, rules | single-statement handlers | database |
| Console session, `frontend/src/App.tsx`, `Login.tsx`, `services/api.ts` | `localStorage`, shared by all tabs; per tab `currentUser`, `currentView`, `selectedDeviceId` | handleLogin, handleLogout, handleSelectDevice, reload, the two interceptors | backend |
| Fleet pages, `Dashboard.tsx`, `DeviceList.tsx`, `DeviceDetail.tsx`, `ClaimDeviceModal.tsx` | what each page shows, its loads in flight, spinners, timers, the claim dialog | loadData, loadDeviceData, claim, reboot | backend |
| Remote viewers: the LuCI, terminal and file dialogs of `DeviceList`, `DeviceDetail`, `RmsConnect` | `activeTunnelToken`, `activeDeviceName`, open dialogs, the terminal's WebSocket | handleOpenTunnel, handleOpenLuci, handleOpenTerminal, handleGenerateSftp, the terminal's effect | backend, gateway |
| Local pages: `Alerts`, `ConfigProfiles`, `Deployments`, `Settings`; and what the fleet pages compute | rows kept in the browser, filters | create, acknowledge, resolve, filter | nobody; reads what the fleet pages loaded |
| Deploy files, bundles, parson.c | none of their own | | |

What makes each of the first components correct, and what is hard about it:

* **Gateway.** One goroutine per connection and per request shares a pair.
  Requests must take turns on one byte stream, each get its own answer, and
  end; whoever is torn down must leave no dead connection in the pair and wake
  its peer; a terminal must see output once and in order; the row must say what
  the pair is. Hard: a blocking pipe write with the mutex held, 30 s timeouts
  with answers still to come, a second dial-in, a second tab, restarts.
* **Rollback watchdog.** A configuration that cuts the router off must be taken
  back, to one that worked; one that does not must stay. Hard: MQTT callbacks
  run on a thread of their own beside uloop; several pushes; crashes; ignored
  exit statuses.
* **Provisioning.** A device gets one owner and keeps it; the token in the
  agent's flash is the one whose hash is in the row; quotas hold. Hard: every
  handler reads a row and writes all of it back, without transactions; answers
  get lost after the row was changed; an agent with a token never asks again.
* **Console session.** What is stored is one sign-in or none, and a tab shows
  what belongs to its account. Hard: one `localStorage` for several tabs, and
  answers that arrive after the sign-out they belong before.
* **Fleet pages.** A page catches up with the server, a spinner stands for a
  load and stops, a claimed router appears. Hard: loads overlap, and end in any
  order, or not.
* **Remote viewers.** A viewer is connected to the router its title names, and
  no shell stays open behind the user's back. Hard: one token for three viewers,
  two requests at once, an effect whose cleanup must run.
* **Fleet metrics.** The same thing is computed on several pages with code of
  its own for each, and must come out alike. Hard: thresholds, missing values
  and zeros, rounding.
* **Agent tunnel.** No descriptor leaks or is closed twice when the session
  ends on one thread while the next begins on the other; framing survives any
  split of the stream.
* **Device status.** ONLINE and OFFLINE follow the router, although heartbeats,
  last wills, claims, check-ins and the reboot endpoint all write the column.

## 2. Modules

| Module | Models | Size of the instance |
|---|---|---|
| `TunnelGateway` | one session of the gateway | `MCTunnelGateway` |
| `ProxyService` | what the proxy promises its clients (abstract) | via `TunnelGateway` |
| `TunnelGateway_proofs`, `TunnelGateway_refines` | invariants; refinement of `ProxyService` | all |
| `AgentRollback`, `AgentRollback_proofs` | the configuration watchdog | `MCAgentRollback`, all |
| `Provisioning`, `Provisioning_proofs` | claims, check-ins, credentials | `MCProvisioning`, all |
| `ConsoleSession`, `ConsoleSession_proofs` | sign-in state over several tabs | `MCConsoleSession`, all |
| `FleetPages`, `FleetPages_proofs` | loads, spinners, claim and reboot on the fleet pages | `MCFleetPages`, all |
| `RemoteViewers`, `RemoteViewers_proofs` | tunnels, viewers and the terminal's socket in the browser | `MCRemoteViewers`, all |
| `FleetMetrics` | what the pages compute from devices and telemetry | via `LocalPages` |
| `LocalPages`, `LocalPages_proofs` | filters over `FleetMetrics`, pages with rows of their own | `MCLocalPages`, all |

`LocalPages` EXTENDS `FleetMetrics`; the other console modules stand alone, for
what they share is the server's answers, which each takes as any answer.

Not written yet, in this order: `AgentTunnel` (the bridge on two threads,
descriptors, pending buffer); `WsFrames` (parser and sender as functions on sequences,
against a reference, over every split of the stream); `DeviceStatus` (status
column, MQTT bridge, reboot endpoint); `Rollout` (StartRollout and PushProfile
over DispatchCommand); `RemoteAccess`, which composes the agent's bridge with
the gateway and lets the router stall. What may be proved next is in section 6.

### TunnelGateway

Pairs share nothing, so one pair is the system. `pair` is the Go struct;
`router`, `browser` and `req` hold, per connection or request, where its handler
is and what is on its wire; `session` holds the registry entry and the database
row. A critical section of `pair.Mutex` that cannot block is one action. The one
that can, `pw.Write` in the router's read loop, is two: `RouterWriteBlocks` sets
`pair.mutex` and a read from the pipe (`ReadResponse`, `CopyBody`, `CopyBreaks`)
or its closing (`RouterWriteAborted`) ends it. Lock-free accesses are steps of
their own (`ProxySend` writes to a connection it read earlier; `ProxyGivesUp`
closes the pipe without the mutex; the row is written after the mutex is
released in `RouterMarkActive` and `RouterMarkTerminated`). Payloads are message
numbers: the answer to a request is `Chunks` messages of which the first is the
head, and `http.ReadResponse` accepts any head, as the code does. The 30 s
select is `ProxyAnswered`, `ProxyBadAnswer`, `ProxyTimeout`, `ProxyCanceled`.
`Laggards` are the requests that may run into the timeout and be answered late,
`Aborters` those whose client may leave. The early buffer is counted in units of
data, of which a message has up to `MaxSize`: the code compares the length of
what it has with the cap and then appends the whole message (`BufferHasRoom`),
so the cap is passed by less than one.

`ProxyService` has three variables: the phase of each client, who has the
stream, and how much each has heard. Only the one being served hears; the
stream is handed back before the next is served. `ImplementsService` maps
program positions to phases, `pair.pipeWriter` to the stream.

### AgentRollback

A configuration is the set of changes made to the shipped one; some are
`Breaking`. `mosq` is the position of libmosquitto's thread in a push or a
cancellation, `uloop` that of the timer's function. Every shell command and
every access to `watchdog_active` or the timer is a step. The code reads no exit
status, and `Failing` names the commands that may fail: the backup, `uci`, the
commit, the reload of a push, the restore, its reload and the removal of the
backup, each of which may do nothing or half of its work. `history.failed` says
that a backup, a reload or a restore did not do all of it, or a commit half of it;
`uci` commands and whole commits that fail are harmless. `AgentRestarts` keeps
`/tmp`, `RouterReboots` does not; both forget the memory. `TimerFires` is
disabled between the arming and the reload of the same push: 180 s are longer
than that, the one timing assumption of the module. `history.overtaken` says
that a push, or a crash, has met a watchdog at work, which the code does not
survive; `NeverStranded` and `RecoversFromBadConfig` are about the time before
that, and while `~history.failed`.

### Provisioning

`row` is the device table, `claim` and `checkin` the handlers in flight with the
copy of the row each has read, `agent` the token and the connection of each
router, `ingest` the telemetry callback (paho delivers in order, so there is
one). Each SQL statement is a step. Tokens are numbers, `FreshToken` one that
nobody has, and a hash is its token. A row is unique by its serial number and by
its MAC address: `MacOf` gives the address that each router reports, which two
may share, and `Mistyped` the addresses that a claim may carry besides. A
`Create` that fails on either is ignored in `Inserted`, as in the code; a claim
whose `Save` fails is refused. `CheckInSent` needs an agent without a token:
that is why lost or mismatched credentials never heal. `Slow` lets a handler
outlive the agent's wait. `InitMqtt` starts libmosquitto's thread, whose
reconnects are `Connect`; when `mosquitto_connect_async` fails, `init_mqtt`
returns before the thread is started (`InitMqttFails`) and nothing tries again
until the agent restarts (`Restart`), which nobody has to do. `agent[d].mqtt` is
`off`, `runs` or `failed`, and `MaxFailedInits` bounds the failures.

### ConsoleSession

A handler runs to completion between two awaits, so what follows an await is
one action with what the interceptor did before it: `LoginSucceeds`,
`LoginRefused`, `PageAnswered`, `PageRefused`, `TimeOut`. `storage` has the
three keys of `localStorage` that the code reads back (`niseva_user` is only
ever written). A request carries the token of the moment it leaves. A page's
call outlives the page (`mounted`), and then changes nothing but, on a 401, the
storage. `owner`, `picked` and `foreign` are history: whose a token is, who
chose the router of the detail page, and whether another tab has signed in as
somebody else since. A 401 leaves tabs signed in without a token: no property
says otherwise, since nothing in the code tells `App`.

### FleetPages

The server's data is the number of its changes; a page shows, per part, the
number it was told. `loads` holds what is in flight for the mounted page;
`Slots` bounds how many overlap (two: timers fire every ten seconds or more,
and axios gives up after ten). `Answer` and `Fail` are the server's side, one
request at a time; `Apply` is what follows the await, with the failures
replaced as the code replaces them. The detail page asks for telemetry after
the device was answered. `owed` remembers a claim that the page has to show,
`swallowed` that the dashboard has since taken a failed list for an empty one,
which it does without an error. The server sends a fleet without routers as
null: `bare` is the last version that has none, and when the dashboard is told of
it, `devices.filter` throws and nothing is left on the screen (`DashboardThrows`,
page `blank`) until the user reloads. (A reload of a page that works is like
leaving it and is left out.) A router can be opened or rebooted only from a list
that shows one (`ShowsRouter`). `dismissed` says that the confirmation of a reboot
was cancelled while the request was out: the dialog is gone, the request is
not, and `RebootEnds` is what follows it. `Masked` says that a dialog covers the
page. StrictMode's doubled effects, of
development builds, are left out.

### RemoteViewers

`request` is a tunnel from the click to the answer; tokens are numbered in the
order of the clicks and answered in any order. `Show` sets the open dialogs and
the token together, as React does for what a handler sets between two awaits,
and `RunEffect` is the terminal's effect: it runs when `open` or `token`
changed, after the cleanup of its last run. `terminalRef` is taken to be set
when the dialog is open, which is up to the library that draws it. `RmsConnect`
makes its tokens up (`Mock`), and the gateway refuses them. `raced` is history:
the page has asked for two tunnels at once, in which case both viewers get the
token of the later answer.

### FleetMetrics and LocalPages

`FleetMetrics` has the computations of `Dashboard`, `DeviceDetail` and
`DeviceList` as operators on a device record: thresholds, percentages with
`Math.round`, averages in tenths, uptimes as sets of units, filters, tags, row
actions. A field that may be missing is `Absent`, which is not zero; the list's
`||` and the others' `??` treat them differently, and so do the operators. A
carrier is the set of the substrings the code looks for, empty when there is no
name; `ListCarrier` and `DetailCarrier` then make one up, each its own. The
stable sort of the telemetry (`Arranged`) puts each record where the number of
those before it says, a definition that can be reasoned about. `LocalPages`
loads fleets into the page that is up (an empty one blanks the dashboard:
`LoadNull`), selects filters, and has the operations of the pages that send
nothing: incidents that are acknowledged and resolved, rules, profiles,
rollouts, tenants with their kits. Their rows die with the page.

## 3. Runs

Passing runs, their bounds, and why these are enough:

| Run | Question | Bounds |
|---|---|---|
| `GatewayProxy` | Do requests take turns on the stream, is this the service of `ProxyService`, and what does it take to leave the router's loop alone in a write with the mutex held? | 2 requests that may both time out, be answered late and be aborted, 2 router connections, 3 messages per answer: a predecessor and a successor on the stream, a head and a body to break off in; no room in the early buffer, which no client of the proxy reads |
| `GatewayMixed` | Do `Active`, the connections and the handlers agree, whoever displaces whom? | 2 router connections and 2 tabs that displace each other, 1 request that may be answered late, 1 restart: every kind of handler at once |
| `GatewayTerminal` | Is output shown once, in order; is the row right; by how much does the buffer pass its cap? | 1 router, 2 tabs, 5 outputs of up to 2 units over a cap of 3: the buffer passes the cap, is flushed, and fills again |
| `GatewayAnswers` | Whose answer does a client get; does every request end, and the end of one side reach the other? | 2 requests of 2 messages that may both be answered late, the client of one may leave, 1 router that may hang up, 1 tab, no room in the early buffer: the answer to the first meets the pipe of the second |
| `RollbackRaces` | Is an armed watchdog able to act, and is a bad push always taken back? | 3 pushes of any subset of a good and a bad change, 1 crash, every command may fail: a push over an armed watchdog, over a fired one, after a failed one, and after a crash |
| `ProvisionOrdinary` | Does the agent's token stay the backend's, and does an owned router get on the broker and back on it? | 2 routers (one enrolls, one is claimed), 2 lost answers, 2 dropped connections, 1 attempt to start MQTT that fails, restarts |
| `ProvisionRaces` | What do stale writes and failed inserts never undo? | 2 routers that report one MAC address, of which one is claimed and enrolled, 2 organizations, 2 claims, 2 check-ins at a time, telemetry |
| `ConsoleSession` | Do sessions of several tabs and accounts stay apart, whatever arrives late? | 2 tabs, 2 accounts, 2 tokens that may expire, 1 call in flight per tab and 1 quiet view: a late 401 of either session, a wrong password in the other tab, a call of a page that is gone |
| `FleetPages` | Do pages catch up, spinners stop and claimed routers appear? | 2 loads of 2 requests at a time, 1 change of the fleet, from one without routers or not, 1 failed request: an overtaken load, an overtaken claim, a load that half fails, a dashboard that throws |
| `RemoteViewers` | Is each viewer the one its title says, and every shell seen? | 2 routers, 2 requests: two answers in both orders, over dialogs closed and pages left |
| `LocalPages` | Where do the copies of each computation agree, whatever was loaded and chosen before? | Nearly 500 fleets: every status, carrier, missing value, and the values at and beside each threshold; mixed fleets of 3, 7 and 8, whose percentages round; 2 added rows, 2 names, 2 tokens |

`ProvisionTwoOrgs` expects a violation: two organizations are both told that a
router is theirs, where the repository's README promises that this cannot be.
It is the finding in `PROJECT.json`, with the quoted line; `FirstOwnerStays`
(section 5) proves that the overlap of two claims is the only way to it.

The passing runs of a module say what holds when a condition that the code does
not survive is excluded: by a constant, or by an exception that the property
states, over a model in which it happens. With these conditions TLC violates the
property named, once the constant is changed or the exception dropped:

| Condition | What the code then does | Property that excludes it, and how |
|---|---|---|
| two organizations claim at once | the later save wins, both are told that they own it | `OneOwner` (run `ProvisionTwoOrgs`) |
| a request is given up after 30 s, or its client leaves, and its answer comes late | it is taken for the answer to the next request on the stream | `OwnResponse`: `Forsaken` |
| a shell prints on the stream of a request | the same | `OwnResponse`: `router[c].out = 0` |
| what is not the answer to a request comes to its pipe: a late answer, a shell's output | the request stops reading it at the length its head gave, or on its first bytes; `pw.Write` then waits for a reader with the mutex held, the cleanup that would close the pipe waits for the mutex, and nothing of the session moves again | `BlockedWriteIsAttended`: `Mixed`; `RequestsEnd`, `TeardownReachesPeer`: `LoopStopped` |
| a client leaves while its body is copied | the same | `BlockedWriteIsAttended`: `aborted`; the other two as above |
| the owner claims a router that is on line again | its hash is replaced, and the agent, which does not check in any more, is refused from its next connection on | `OwnedConnects`: one claim of each router |
| a push leaves the MQTT connection up | nothing confirms it, and it is taken back after 180 s | none |
| a push while the watchdog of another is armed | takes the backup of the unconfirmed configuration | `NeverStranded`, `RecoversFromBadConfig`: `history.overtaken` |
| a restart of the agent, or a reboot, with the watchdog armed | forgets it; nobody looks for a backup | the same |
| the backup cannot be written | goes on, and reports a restore that did nothing | `ArmedIsProtected`: the whole backup only while `~history.failed`; `NeverStranded`, `RecoversFromBadConfig`: the same |
| a commit, a reload or a restore fails or stops half way | goes on: a reconnect over the old network confirms the new files, and a restore that did nothing still disarms | `NeverStranded`, `RecoversFromBadConfig`: `history.failed` |
| `mosquitto_connect_async` fails when the agent starts MQTT | its thread is never started, and nothing tries again: an owned router stays off the broker | `OwnedConnects`: `mqtt = "failed"` |
| the router dials in twice, or the gateway restarts | the row may contradict the pair for good | `StatusTracksSession`: `RConns`, `MaxRestarts` |
| a second dial-in or a second tab | the displaced handler tears down the other's registration | `TeardownReachesPeer`: `RConns`, `BConns` |
| a claim creates the row that a check-in is about to insert | the failed insert goes unnoticed, the agent keeps a token in no row | `NoLockout`: `Enrolling`, `Claimable` |
| another row has the MAC address that a router reports | the insert of its check-in fails unnoticed, the agent keeps a token in no row | `NoLockout`: `MacOf`, `Mistyped` |
| a claim with a mistyped address makes a row that has another router's | the same, for that other router | the same |
| two check-ins of one device at a time | the agent may keep the token that was overwritten | `NoLockout`: `Slow` |
| check-ins of several devices at a time | bind more of them than the quota of the token | none; `TypeOK` bounds the counter |
| another tab of the browser signs in as somebody else | the first tab asks with the other's token, and shows their data under its own name | `ShownDataIsOwn`: `foreign` |
| two tunnels are requested at once | both viewers get the token of the later answer | `ViewerOwnsTunnel`: `raced` |
| an older answer comes last on the device list | stays, since the list does not poll | `PolledPageCatchesUp`: polling pages only; the same takes a claimed router out of view again (`ClaimShows` is about its coming, `BackOnlyByOverlap` about the rest) |
| the list fails while the dashboard loads after a claim | shown as a fleet without routers, no error; for good if Auto-Refresh is off | `ClaimOnItsWay`: `swallowed`; `ClaimShows`: `swallowed` and `~auto` |
| a fleet has no routers | the server sends null and the dashboard throws: a blank page | no property claims otherwise: `DashboardThrows` and `LoadNull` are the model's steps to page `blank` |
| a signal is given in dBm | the dashboard calls it optimal or marginal, the list shows it amber | `GradesAgreeOnPercent`, which says for which signals: amber for an optimal one exactly from -85 to -1 |
| the list has no `rssi`, or zero, beside a weak `cellular_rssi` | it counts as 80, green | the same: green for others exactly then |
| a device has no carrier | the list invents "Airtel 4G", the detail page "Cellular LTE" | `PagesAgree`: agree if and only if there is a carrier |
| `rssi` and `cellular_rssi` differ | the pages show different signals | `PagesAgree`: agree if and only if they do not differ |
| a router is PENDING | tagged OFFLINE on the list, and not found by its Offline filter | `FiltersShareOut`, which says so |
| a router has no flash free | the dashboard assumes 6.6 MB, the detail page shows 100 % used | `PagesAgree`: `flash_free > 0` |
| the newest record has no signal | the chart shows 0, the header another field | `ChartEndsInSignal` |

Deadlock is checked except where the system really stops: the router's loop in
`pw.Write` (`GatewayProxy`, `GatewayAnswers`), and a router that is cut off with
its watchdog lost (`RollbackRaces`). What the stop of the loop takes is
`BlockedWriteIsAttended`, and that nothing else stops a request is `RequestsEnd`.
`Quiet` in
`TunnelGateway` and `ConnectRefused` in `Provisioning` are the ways to rest that
are not deadlocks.

The symmetry of `GatewayProxy` and `GatewayMixed` permutes connections, tabs and
requests, that of `ConsoleSession` tabs, accounts and tokens: the specifications
treat each alike, and no run with a liveness property uses any.

## 4. Fairness

* Gateway: weak fairness of each handler and of the goroutine in
  `http.ReadResponse`: the Go scheduler runs what can run, and timers fire.
  Nobody has to connect, print or hang up. Messages on the wire are taken to
  arrive, or to be lost with their connection: `RequestsEnd` assumes a router that
  hangs up or sends, before the 30 s or after, what it owes, since nothing in the
  code bounds the time of a body.
* Rollback: weak fairness of both threads. Nothing about the network.
* Fleet pages: weak fairness of the end of each request, which axios grants
  after ten seconds, of what follows an await, and of the timers of pages that
  have one. Nobody has to click, and nothing has to succeed but by the bound on
  failures.
* Remote viewers: weak fairness of the end of each request and of what follows
  its await.
* Provisioning: weak fairness of handlers that were started, of the agent's
  retries (a timer every 30 s), of its attempt to start MQTT once it has a
  token, which may be the one that fails, and of the reconnects of libmosquitto's
  thread where that was started. Losses, drops, failed attempts and restarts are
  not fair, and are bounded.

## 5. What is proved

Each module's proof goes through an inductive invariant, of which TLC checked
the parts before.

`TunnelGateway_proofs`, for any numbers of connections, browsers and requests:
`IInv` is `TypeOK` and five conjuncts, none inductive without the others:
`ActiveIffRouter`, `LiveRegistration`, `SerializedTransactions`,
`PipeOwnerInside` (the pair's pipe writer belongs to a request between opening
its pipe and its cleanup) and `MutexHolderWrites` (the mutex is held across
steps only by a loop in `pw.Write`). Theorems: `TypeCorrect`,
`ActiveIsConnected`, `NoDeadRegistration`, `TransactionsSerialized`.
`TypeOK` bounds the early buffer by less than a message above the cap.
`TunnelGateway_refines` uses the invariant to prove `Refinement`: every step
maps to a step of `ProxyService` or to a stutter.

Three more invariants build on `IInv`:

* `AInv` accounts for what is on the wires and in the pipes, of which nothing
  says whose it is: on a wire is the rest of answers to requests that were sent
  over it, and what a shell has printed (`OnlyWhatWasSent`); the messages of an
  answer are in order there (`AnswersInOrder`); a client that has got nothing
  else has its own answer from the start, and what is on the wire comes after it
  (`OwnInOrder`), without a gap while its pipe is open (`NoneMissing`); the
  goroutine that reads the pipe keeps step with the handler (`ReaderInStep`);
  and while no request was given up before and no shell has printed, nobody has
  what is not his (`NobodyMisled`). Theorems `AnswersReachTheirClients`
  (`OwnResponse`) and `WritesAreAttended` (`BlockedWriteIsAttended`), without a
  condition on the constants: any number of connections, tabs and requests, late
  answers, departures, shells and restarts.
* One router connection and no restart: `SInv` says, per position of the
  handler, what the row says (`RowFollowsHandler`). Theorem `RowTracksSession`
  (`StatusTracksSession`), for any number of tabs and requests.
* `OnlyTerminals`, one router connection and no proxied request: `TInv` says
  that the wire goes on where the loop is, that nothing is shown or kept that
  did not come off the wire, that the buffer is without a gap, younger than what
  is shown, and complete until full, and that the pair's terminal is up to date.
  Theorem `TerminalsAreFaithful` (`FaithfulTerminal`), for any number of tabs,
  any capacity, any output, and any number of restarts.

`AgentRollback_proofs`, for any set of changes, any set of commands that may
fail, and any number of pushes and crashes: `ArmedWatchdogActs`, with the
invariant that from `stage` on the backup exists, or has failed, and is removed
only when disarmed; `OrderlyPushesAreSafe`, as long as every push finds the
watchdog of the one before done, no crash catches it at work and
`~history.failed`. Its invariant says that such a push works alone (`PushAlone`),
that the countdown runs only for an armed watchdog (`TimerInTime`), that the backup
works (`GoodBackup`), and that a configuration that cuts the router off is what
runs, or is about to (`BadIsGuarded`), so that no connection can cancel the
watchdog before the restore. `RollbackTypeCorrect`.

`Provisioning_proofs`, for any finite sets of devices, claims and handlers:
the invariant says that every row, and every copy that somebody is going to
write back as it is, has an owner, credentials, and existence together
(`Sound`), and that only owned devices were ever on the broker, so telemetry
never holds a copy without owner. `OwnersHaveCredentials`, `OwnedForGood`
(an action property), `ProvisionTypeCorrect`. That a fresh token exists is
proved from the finiteness of those in use.

Two theorems are about behaviours that avoid a race the code has, named as a
state condition that the behaviour keeps. `NobodyLockedOut`: with handlers that
the agent waits for (`~Slow`), `Spec /\ []ClaimedOnce => []NoLockout`, where
`ClaimedOnce` says that no device is claimed twice, or claimed and enrolled, and
with routers that have a MAC address each, which claims carry (`OwnMacs`). Its
invariant says that an agent without a token waits for the one handler of its
check-in (`OneHandler`), that what a handler and the telemetry have read is
still so (`HandlersKnow`, `TelemetryFresh`), that a token on its way is that of
the row (`TokensMatch`), and that a row has the address of its own device
(`AddressesOwn`), so that an insert cannot fail on another's; `OwnedOneWay`
tells how a device can have come by its owner. `FirstOwnerStays`: `Spec /\
[]ClaimsTakeTurns => OneOwner`, for any check-ins, enrollments and telemetry in
between, and without `~Slow`; its invariant says that a claim that is going to
overwrite the row found it free, or its own, and that it is so still
(`ClaimsSettle`), and that what others write back has the owner that is in the
row (`CopiesSettle`).

`ConsoleSession_proofs`, for any sets of tabs, accounts and tokens: the
invariant adds to the three properties what is known of a call in flight
(`CallsAreKnown`: a sign-in is the only one of its tab, and who was let in is
whom the token was issued to), and that a tab that is signed out shows
nothing and has no mounted call (`SignedOutIsBlank`), without which the next
sign-in could inherit an answer. `SessionStaysWhole`, `NobodySeesOthersData`,
`ChoiceIsNotInherited`, `ConsoleTypeCorrect`.

`FleetPages_proofs`, for any number of overlapping loads: a claim that is owed
has a page with a list (`ClaimsHaveAList`), nothing on the screen or on its way
is newer than the server (`NothingFromTheFuture`), and a load that nobody
overtook can only bring newer data than what is shown
(`AheadUnlessOvertaken`). `SpinnersHaveLoads`, `ClaimsAreOnTheirWay`,
`PagesTypeCorrect`, and the action property `OnlyOverlapGoesBack`.

`RemoteViewers_proofs`, for any routers and any number of requests: what a page
that is not up has left in the state (`StateOfPage`), that the token shown was
granted (`TokenIsKnown`), that a mounted request was made by this page for its
router (`CallersAreThere`), and that without `raced` there is one at a time
(`OneAtATime`). `TitlesTellTheTruth`, `NoForgottenShell`,
`ViewersGetTheirTunnel`, `SpinnersAreHonest`, `ViewersTypeCorrect`.

`LocalPages_proofs`, for fleets of any size, any signals, sizes and times: the
invariant is `TypeOK`, `TelemetryOrdered` and `KitIsOfTenant`; the rest is about
the operators of `FleetMetrics`, by lemmas on all their arguments. The telemetry
stays typed and in order because every record has one place in the sort
(`PlacesTaken`, by counting). The sums over the bars and over one router are
folds, which are unfolded as far as there are elements to add
(`BarsWrittenOut`, `MeanOfOne`); `ThreeShares` bounds what rounding three shares
of a whole can lose, `GradedAddUp` counts the routers of the three grades, and
`FlashBars` bounds the two bars of the flash. Theorems: `PagesTypeCorrect`,
`GradesAlwaysAgreeOnPercent`, `BarsAlwaysAddUp`, `FiltersAlwaysShareOut`,
`PagesAlwaysAgree`, `ChartsEndInSignal`, `KitsAreOfTenants`, and the action
property `IncidentsOnlyMoveOn`. Where the pages do differ, the theorems say so:
`GradesAgreeOnPercent` and `PagesAgree` state the exceptions as equivalences.

Some of what is proved is not also run: the `TypeOK` of `AgentRollback`,
`ConsoleSession`, `FleetPages` and `RemoteViewers`, and `KitIsOfTenant` and
`IncidentsMoveOn` of `LocalPages`. The runs are left to what the prover cannot
reach and to what says most; the `TypeOK`s of `TunnelGateway`, `Provisioning`
and `LocalPages`, which are run as well, bound the early buffer, the uses of the
enrollment token and the filters.

Assumptions are the named `ASSUME`s of the modules: `None` is none of the
others, bounds are naturals, for provisioning finite sets, for the local pages
sequences of routers and of records; and the conditions named above.

## 6. What is only model-checked

Liveness: `RequestsEnd`, `TeardownReachesPeer`, `RecoversFromBadConfig`,
`OwnedConnects`, `ClaimShows`, `PolledPageCatchesUp`, `SpinnersStop`,
`ButtonsComeBack`. The prover has neither fairness nor ENABLED. `OneOwner` as it
stands is violated (section 3). Every other property of a run is a theorem.

What could be proved next: weaker conditions for those of section 5, such as
`FaithfulTerminal` over several connections of the router, one after the other,
and `StatusTracksSession` for the last of them; and the safety that the liveness
properties rest on, such as that whoever waits has somebody to wake him up.

## 7. What is not modelled, and why

* The rewriting of proxied responses, HTML and WebSocket payloads: data.
  `FallbackReverseProxyHandler` picks a session and calls `HttpProxyHandler`.
* Concurrent writers on one WebSocket connection (`tunnel.go:424` and `:296`),
  and a router that stalls in the middle of an answer: planned.
* In provisioning, the answers given without a database; errors of the database
  other than that a serial number or a MAC address is taken; two routers that
  report the same serial number, which the agent makes of the end of the MAC
  address where it finds no other (`bootstrap.c:113`); and the columns `name`,
  `group_id`, `status`, `last_ip`. The broker is taken to ask `InternalMqttAuth`.
* Telemetry collection, the server's alerts and tenants, seeding, routing: one
  statement, or input and formatting. Deploy files, built bundles and the
  vendored parser: no logic of this system.
* Of the console: layout and wording; text search; memory and CPU columns;
  sample rows and fixed figures (the cards of `RmsConnect` and `Alerts`, the
  file dialog's files); the countdown of the LuCI frame, a display that nothing
  reads; dialogs whose flags nothing opens; the filling-in of demo accounts;
  collisions of identifiers made from four digits of the clock; rounding of
  binary fractions, which the percentages of small fleets do not meet.
* The agent's tunnel bridge, the status column and rollouts are not modelled
  yet (section 2 has the order). They need models of their own size: two
  threads with descriptors, a byte stream cut anywhere, a broker that reorders
  wills and heartbeats. Nothing in the modules above depends on them, and what
  they can do to a modelled component is there: any bytes from the router, any
  change of the server's data.
