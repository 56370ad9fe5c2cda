------------------------- MODULE FleetPages_proofs -------------------------
(***************************************************************************)
(* Proofs about FleetPages, for any number of overlapping loads, changes   *)
(* of the server's data, and failures: its invariants, and that a page     *)
(* goes back in time only by loads that overtake each other.               *)
(***************************************************************************)
EXTENDS FleetPages, TLAPS

\* Nobody is owed a claim, or can make one, but on the two pages that list routers.
ClaimsHaveAList ==
    claimOpen \/ claim # "none" \/ owed # 0 => page \in {"dashboard", "devices"}

\* Nothing is shown, answered or owed that the server has not had yet.
NothingFromTheFuture ==
    /\ owed <= version
    /\ \A q \in DOMAIN data : data[q] \in Versions => data[q] <= version
    /\ \A s \in Slots : Busy(s) =>
          \A q \in PartsOf(page) :
             loads[s].got[q] \in Versions => loads[s].got[q] <= version

\* What a load brings that no other load has overtaken is not older than the page.
AheadUnlessOvertaken ==
    \A s \in Slots : Busy(s) /\ ~loads[s].overtaken =>
        \A q \in PartsOf(page) :
            loads[s].got[q] \in Versions /\ data[q] \in Versions =>
                data[q] <= loads[s].got[q]

\* The inductive invariant.
IInv ==
    /\ TypeOK
    /\ ClaimsHaveAList
    /\ NothingFromTheFuture
    /\ AheadUnlessOvertaken
    /\ SpinnerHasLoad
    /\ ClaimOnItsWay

-----------------------------------------------------------------------------
\* A load has been started: it stands in a slot that was free, and nothing else changed.
Started(s, k) ==
    /\ loads' \in [Slots -> {Idle} \cup LoadOf(page)]
    /\ loading' \in BOOLEAN /\ refreshing' \in BOOLEAN
    /\ ~Busy(s) /\ Busy(s)' /\ loads'[s] \in LoadOf(page)
    /\ \A x \in Slots \ {s} : loads'[x] = loads[x]
    /\ \A q \in PartsOf(page) : loads'[s].got[q] \in {Waiting, Unsent}
    /\ "devices" \in PartsOf(page) => loads'[s].got["devices"] = Waiting
    /\ SpinnerHasLoad' /\ AheadUnlessOvertaken'

LEMMA StartLemma ==
  ASSUME IInv, NEW s \in Slots, NEW k \in {"refresh", "poll"}, StartLoad(s, k),
         UNCHANGED <<page, data>>
  PROVE  Started(s, k)
<1> DEFINE n == NewLoad(page, k)
<1>1. /\ n \in LoadOf(page) /\ n.kind = k /\ ~n.overtaken
      /\ \A q \in PartsOf(page) : n.got[q] \in {Waiting, Unsent}
      /\ "devices" \in PartsOf(page) => n.got["devices"] = Waiting
  BY DEF NewLoad, LoadOf
<1>2. n # Idle
  BY <1>1, IdleAssumption DEF IInv, TypeOK
<1>3. ~Busy(s) /\ loads' = [loads EXCEPT ![s] = n] /\ Starts(k)
  BY DEF StartLoad
<1> HIDE DEF n
<1>4. loads' \in [Slots -> {Idle} \cup LoadOf(page)]
  BY <1>1, <1>3 DEF IInv, TypeOK
<1>5. loads'[s] = n /\ \A x \in Slots \ {s} : loads'[x] = loads[x]
  BY <1>3 DEF IInv, TypeOK
<1>6. loading' \in BOOLEAN /\ refreshing' \in BOOLEAN
  BY <1>3 DEF Starts
<1>7. SpinnerHasLoad'
  BY <1>1, <1>2, <1>3, <1>5 DEF IInv, SpinnerHasLoad, Busy, Starts
<1>8. AheadUnlessOvertaken'
  BY <1>1, <1>2, <1>5, MarksAssumption DEF IInv, AheadUnlessOvertaken, Busy, Versions
<1> QED
  BY <1>1, <1>2, <1>3, <1>4, <1>5, <1>6, <1>7, <1>8 DEF Started, Busy

\* A request of a load has got its answer, and the load is otherwise what it was.
PartSettled(s, q, v) ==
    /\ loads' \in [Slots -> {Idle} \cup LoadOf(page)]
    /\ \A x \in Slots : Busy(x)' <=> Busy(x)
    /\ \A x \in Slots \ {s} : loads'[x] = loads[x]
    /\ loads'[s].kind = loads[s].kind /\ loads'[s].overtaken = loads[s].overtaken
    /\ \A p \in PartsOf(page) : loads'[s].got[p] = IF p = q THEN v ELSE loads[s].got[p]

LEMMA SettleLemma ==
  ASSUME IInv, NEW s \in Slots, NEW q \in PartsOf(page), Busy(s),
         NEW v \in Versions \cup {Nothing}, loads' = [loads EXCEPT ![s].got[q] = v]
  PROVE  PartSettled(s, q, v)
<1> DEFINE n == [loads[s] EXCEPT !.got[q] = v]
<1>1. loads[s] \in LoadOf(page) /\ page \in Pages
  BY DEF IInv, TypeOK, Busy
<1>2. /\ n \in LoadOf(page) /\ n.kind = loads[s].kind /\ n.overtaken = loads[s].overtaken
      /\ \A p \in PartsOf(page) : n.got[p] = IF p = q THEN v ELSE loads[s].got[p]
  BY <1>1 DEF LoadOf
<1>3. loads' = [loads EXCEPT ![s] = n]
  OBVIOUS
<1>4. n # Idle
  BY <1>1, <1>2, IdleAssumption
<1> HIDE DEF n
<1>5. loads'[s] = n /\ \A x \in Slots \ {s} : loads'[x] = loads[x]
  BY <1>3 DEF IInv, TypeOK
<1>6. loads' \in [Slots -> {Idle} \cup LoadOf(page)]
  BY <1>2, <1>3 DEF IInv, TypeOK
<1> QED
  BY <1>2, <1>4, <1>5, <1>6 DEF PartSettled, Busy

\* The loads of a page that has just been mounted.
LEMMA MountLemma ==
  ASSUME NEW p \in Pages
  PROVE  /\ MountedLoads(p) \in [Slots -> {Idle} \cup LoadOf(p)]
         /\ MountedLoads(p)[First] # Idle /\ MountedLoads(p)[First].kind = "initial"
         /\ \A s \in Slots : MountedLoads(p)[s] # Idle =>
               /\ s = First
               /\ \A q \in PartsOf(p) : MountedLoads(p)[s].got[q] \in {Waiting, Unsent}
<1> DEFINE n == NewLoad(p, "initial")
<1>1. /\ n \in LoadOf(p) /\ n.kind = "initial"
      /\ \A q \in PartsOf(p) : n.got[q] \in {Waiting, Unsent}
  BY DEF NewLoad, LoadOf
<1>2. n # Idle
  BY <1>1, IdleAssumption
<1>3. MountedLoads(p) = [s \in Slots |-> IF s = First THEN n ELSE Idle]
  BY DEF MountedLoads
<1> HIDE DEF n
<1> QED
  BY <1>1, <1>2, <1>3, SlotsAssumption

\* A load has been applied: it is over, or waits for its telemetry, and all others are
\* what they were, but overtaken.
Applied(s, now) ==
    /\ loads' \in [Slots -> {Idle} \cup LoadOf(page)]
    /\ loads'[s] = now
    /\ \A x \in Slots \ {s} :
          /\ Busy(x) <=> loads'[x] # Idle
          /\ Busy(x) => /\ loads'[x].overtaken
                        /\ loads'[x].kind = loads[x].kind /\ loads'[x].got = loads[x].got

LEMMA ApplyLemma ==
  ASSUME TypeOK, NEW s \in Slots, NEW now \in {Idle} \cup LoadOf(page),
         loads' = Overtake(s, now)
  PROVE  Applied(s, now)
<1>1. ASSUME NEW x \in Slots, Busy(x)
      PROVE  LET n == [loads[x] EXCEPT !.overtaken = TRUE] IN
             /\ n \in LoadOf(page) /\ n # Idle /\ n.overtaken
             /\ n.kind = loads[x].kind /\ n.got = loads[x].got
  <2>1. loads[x] \in LoadOf(page)
    BY <1>1 DEF TypeOK, Busy
  <2>2. [loads[x] EXCEPT !.overtaken = TRUE] \in LoadOf(page)
    BY <2>1 DEF LoadOf
  <2> QED
    BY <2>1, <2>2, IdleAssumption DEF TypeOK, LoadOf
<1>2. \A x \in Slots : loads'[x] = IF x = s THEN now
                                   ELSE IF Busy(x) THEN [loads[x] EXCEPT !.overtaken = TRUE]
                                   ELSE Idle
  BY DEF Overtake
<1>3. loads' \in [Slots -> {Idle} \cup LoadOf(page)]
  <2>1. DOMAIN loads' = Slots /\ loads' = [x \in Slots |-> loads'[x]]
    BY DEF Overtake
  <2> QED
    BY <1>1, <1>2, <2>1
<1> QED
  BY <1>1, <1>2, <1>3 DEF Applied

\* What the answers of a load are, once none is waited for.
LEMMA SettledLemma ==
  ASSUME TypeOK, NEW s \in Slots, Busy(s), Settled(s)
  PROVE  /\ loads[s].got \in [PartsOf(page) -> Versions \cup {Nothing}]
         /\ loads[s].kind \in {"initial", "refresh", "poll"}
         /\ \A q \in PartsOf(page) : loads[s].got[q] \notin {Waiting, Unsent}
<1>1. loads[s] \in LoadOf(page)
  BY DEF TypeOK, Busy
<1> QED
  BY <1>1 DEF Settled, LoadOf

\* Every action keeps every part of the invariant.
LEMMA Step == IInv /\ [Next]_vars => IInv'
<1>a. SUFFICES ASSUME IInv, [Next]_vars PROVE IInv'
  OBVIOUS
<1>b. /\ TypeOK /\ DOMAIN data = PartsOf(page)
  BY <1>a DEF IInv, TypeOK
<1> USE SlotsAssumption, PartsAssumption, BoundsAssumption, MarksAssumption,
        IdleAssumption DEF Versions, server, shown, dialog, history
<1>1. ASSUME NEW p \in Pages, Mount(p) PROVE IInv'
  <2>m. /\ page' = p /\ loads' = MountedLoads(p)
        /\ data' = [q \in PartsOf(p) |-> Nothing]
        /\ loading' = TRUE /\ refreshing' = FALSE /\ owed' = 0 /\ swallowed' = FALSE
        /\ claim' = "none" /\ claimOpen' = FALSE /\ reboot' = "none" /\ dismissed' = FALSE
        /\ UNCHANGED <<version, bare, failures>>
    BY <1>1 DEF Mount, MountedData
  <2>1. TypeOK'
    <3>1. data' \in [PartsOf(page') -> Versions \cup {Nothing}]
      BY <2>m
    <3>2. loads' \in [Slots -> {Idle} \cup LoadOf(page')]
      BY <2>m, MountLemma
    <3>3. auto' \in BOOLEAN
      BY <1>1 DEF Mount
    <3>4. /\ version' \in Versions /\ bare' \in {0} \cup Versions
          /\ swallowed' \in BOOLEAN /\ dismissed' \in BOOLEAN
          /\ page' \in Pages /\ loading' \in BOOLEAN
          /\ refreshing' \in BOOLEAN /\ claimOpen' \in BOOLEAN
          /\ claim' \in {"none", "sent", "done", "refused"}
          /\ reboot' \in {"none", "asked", "sent"} /\ failures' \in 0..MaxFailures
          /\ owed' \in {0} \cup Versions
      BY <1>b, <2>m DEF TypeOK
    <3> QED
      BY <3>1, <3>2, <3>3, <3>4 DEF TypeOK
  <2>2. ClaimsHaveAList'
    BY <2>m DEF ClaimsHaveAList
  <2>3. NothingFromTheFuture'
    BY <1>b, <2>m, MountLemma DEF TypeOK, NothingFromTheFuture, Busy
  <2>4. AheadUnlessOvertaken'
    BY <2>m, MountLemma DEF AheadUnlessOvertaken, Busy
  <2>5. SpinnerHasLoad'
    BY <2>m, MountLemma DEF SpinnerHasLoad, Busy
  <2>6. ClaimOnItsWay'
    BY <2>m DEF ClaimOnItsWay
  <2> QED
    BY <2>1, <2>2, <2>3, <2>4, <2>5, <2>6 DEF IInv
<1>2. CASE ServerChanges
  <2>1. TypeOK'
    BY <1>a, <1>b, <1>2 DEF IInv, TypeOK, ServerChanges
  <2>2. ClaimsHaveAList'
    BY <1>a, <1>b, <1>2 DEF IInv, TypeOK, ClaimsHaveAList, ServerChanges
  <2>3. NothingFromTheFuture'
    BY <1>a, <1>b, <1>2
    DEF IInv, TypeOK, NothingFromTheFuture, Busy, ServerChanges
  <2>4. AheadUnlessOvertaken'
    BY <1>a, <1>b, <1>2
    DEF IInv, TypeOK, AheadUnlessOvertaken, NothingFromTheFuture, Busy, ServerChanges
  <2>5. SpinnerHasLoad'
    BY <1>a, <1>b, <1>2
    DEF IInv, TypeOK, SpinnerHasLoad, Busy, ServerChanges
  <2>6. ClaimOnItsWay'
    BY <1>a, <1>b, <1>2
    DEF IInv, TypeOK, ClaimOnItsWay, ClaimsHaveAList, NothingFromTheFuture, Busy,
        ServerChanges
  <2> QED
    BY <2>1, <2>2, <2>3, <2>4, <2>5, <2>6 DEF IInv
<1>3. CASE SelectInterval
  <2>1. TypeOK'
    BY <1>a, <1>b, <1>3 DEF IInv, TypeOK, SelectInterval
  <2>2. ClaimsHaveAList'
    BY <1>a, <1>b, <1>3 DEF IInv, TypeOK, ClaimsHaveAList, SelectInterval
  <2>3. NothingFromTheFuture'
    BY <1>a, <1>b, <1>3
    DEF IInv, TypeOK, NothingFromTheFuture, Busy, SelectInterval
  <2>4. AheadUnlessOvertaken'
    BY <1>a, <1>b, <1>3
    DEF IInv, TypeOK, AheadUnlessOvertaken, NothingFromTheFuture, Busy, SelectInterval
  <2>5. SpinnerHasLoad'
    BY <1>a, <1>b, <1>3 DEF IInv, TypeOK, SpinnerHasLoad, Busy, SelectInterval
  <2>6. ClaimOnItsWay'
    BY <1>a, <1>b, <1>3
    DEF IInv, TypeOK, ClaimOnItsWay, ClaimsHaveAList, NothingFromTheFuture, Busy,
        SelectInterval
  <2> QED
    BY <2>1, <2>2, <2>3, <2>4, <2>5, <2>6 DEF IInv
<1>4. ASSUME NEW s \in Slots, Refresh(s) PROVE IInv'
  <2>s. Started(s, "refresh")
    BY <1>a, <1>4, StartLemma DEF Refresh
  <2>1. TypeOK'
    BY <1>a, <1>b, <1>4, <2>s DEF Started, IInv, TypeOK, Refresh
  <2>2. ClaimsHaveAList'
    BY <1>a, <1>b, <1>4, <2>s
    DEF Started, IInv, TypeOK, ClaimsHaveAList, Refresh
  <2>3. NothingFromTheFuture'
    BY <1>a, <1>b, <1>4, <2>s
    DEF Started, IInv, TypeOK, NothingFromTheFuture, Busy, Refresh
  <2>4. AheadUnlessOvertaken'
    BY <2>s DEF Started
  <2>5. SpinnerHasLoad'
    BY <2>s DEF Started
  <2>6. ClaimOnItsWay'
    BY <1>a, <1>b, <1>4, <2>s
    DEF Started, IInv, TypeOK, ClaimOnItsWay, ClaimsHaveAList, NothingFromTheFuture,
        Busy, Refresh
  <2> QED
    BY <2>1, <2>2, <2>3, <2>4, <2>5, <2>6 DEF IInv
<1>5. ASSUME NEW s \in Slots, Poll(s) PROVE IInv'
  <2>s. Started(s, "poll")
    BY <1>a, <1>5, StartLemma DEF Poll
  <2>1. TypeOK'
    BY <1>a, <1>b, <1>5, <2>s DEF Started, IInv, TypeOK, Poll
  <2>2. ClaimsHaveAList'
    BY <1>a, <1>b, <1>5, <2>s DEF Started, IInv, TypeOK, ClaimsHaveAList, Poll
  <2>3. NothingFromTheFuture'
    BY <1>a, <1>b, <1>5, <2>s
    DEF Started, IInv, TypeOK, NothingFromTheFuture, Busy, Poll
  <2>4. AheadUnlessOvertaken'
    BY <2>s DEF Started
  <2>5. SpinnerHasLoad'
    BY <2>s DEF Started
  <2>6. ClaimOnItsWay'
    BY <1>a, <1>b, <1>5, <2>s
    DEF Started, IInv, TypeOK, ClaimOnItsWay, ClaimsHaveAList, NothingFromTheFuture,
        Busy, Poll
  <2> QED
    BY <2>1, <2>2, <2>3, <2>4, <2>5, <2>6 DEF IInv
<1>6. ASSUME NEW s \in Slots, NEW q \in PartsOf(page), Answer(s, q) PROVE IInv'
  <2>s. PartSettled(s, q, version)
    BY <1>a, <1>b, <1>6, SettleLemma DEF Answer, TypeOK
  <2>1. TypeOK'
    BY <1>a, <1>b, <1>6, <2>s DEF PartSettled, IInv, TypeOK, Answer
  <2>2. ClaimsHaveAList'
    BY <1>a, <1>b, <1>6, <2>s
    DEF PartSettled, IInv, TypeOK, ClaimsHaveAList, Answer
  <2>3. NothingFromTheFuture'
    BY <1>a, <1>b, <1>6, <2>s
    DEF PartSettled, IInv, TypeOK, NothingFromTheFuture, Busy, Answer
  <2>4. AheadUnlessOvertaken'
    BY <1>a, <1>b, <1>6, <2>s
    DEF PartSettled, IInv, TypeOK, AheadUnlessOvertaken, NothingFromTheFuture, Busy,
        Answer
  <2>5. SpinnerHasLoad'
    BY <1>a, <1>b, <1>6, <2>s
    DEF PartSettled, IInv, TypeOK, SpinnerHasLoad, Busy, Answer
  <2>6. ClaimOnItsWay'
    BY <1>a, <1>b, <1>6, <2>s
    DEF PartSettled, IInv, TypeOK, ClaimOnItsWay, ClaimsHaveAList, NothingFromTheFuture,
        Busy, Answer
  <2> QED
    BY <2>1, <2>2, <2>3, <2>4, <2>5, <2>6 DEF IInv
<1>7. ASSUME NEW s \in Slots, NEW q \in PartsOf(page), Fail(s, q) PROVE IInv'
  <2>s. PartSettled(s, q, Nothing)
    BY <1>a, <1>b, <1>7, SettleLemma DEF Fail, TypeOK
  <2>1. TypeOK'
    BY <1>a, <1>b, <1>7, <2>s DEF PartSettled, IInv, TypeOK, Fail
  <2>2. ClaimsHaveAList'
    BY <1>a, <1>b, <1>7, <2>s
    DEF PartSettled, IInv, TypeOK, ClaimsHaveAList, Fail
  <2>3. NothingFromTheFuture'
    BY <1>a, <1>b, <1>7, <2>s
    DEF PartSettled, IInv, TypeOK, NothingFromTheFuture, Busy, Fail
  <2>4. AheadUnlessOvertaken'
    BY <1>a, <1>b, <1>7, <2>s
    DEF PartSettled, IInv, TypeOK, AheadUnlessOvertaken, NothingFromTheFuture, Busy,
        Fail
  <2>5. SpinnerHasLoad'
    BY <1>a, <1>b, <1>7, <2>s
    DEF PartSettled, IInv, TypeOK, SpinnerHasLoad, Busy, Fail
  <2>6. ClaimOnItsWay'
    BY <1>a, <1>b, <1>7, <2>s
    DEF PartSettled, IInv, TypeOK, ClaimOnItsWay, ClaimsHaveAList, NothingFromTheFuture,
        Busy, Fail
  <2> QED
    BY <2>1, <2>2, <2>3, <2>4, <2>5, <2>6 DEF IInv
<1>8. ASSUME NEW s \in Slots, DashboardLoaded(s) PROVE IInv'
  <2>s. Applied(s, Idle)
    BY <1>b, <1>8, ApplyLemma DEF DashboardLoaded
  <2>t. /\ loads[s].got \in [PartsOf(page) -> Versions \cup {Nothing}]
        /\ loads[s].kind \in {"initial", "refresh", "poll"}
        /\ \A q \in PartsOf(page) : loads[s].got[q] \notin {Waiting, Unsent}
    BY <1>b, <1>8, SettledLemma DEF DashboardLoaded
  <2>1. TypeOK'
    BY <1>a, <1>b, <1>8, <2>s, <2>t
    DEF IInv, TypeOK, Applied, Ends, StillOwed, PartsOf, DashboardLoaded
  <2>2. ClaimsHaveAList'
    BY <1>a, <1>b, <1>8, <2>s, <2>t
    DEF IInv, TypeOK, ClaimsHaveAList, Applied, Ends, StillOwed, PartsOf,
        DashboardLoaded
  <2>3. NothingFromTheFuture'
    BY <1>a, <1>b, <1>8, <2>s, <2>t
    DEF IInv, TypeOK, NothingFromTheFuture, Busy, Applied, Ends, StillOwed, PartsOf,
        DashboardLoaded
  <2>4. AheadUnlessOvertaken'
    BY <1>a, <1>b, <1>8, <2>s, <2>t
    DEF IInv, TypeOK, AheadUnlessOvertaken, NothingFromTheFuture, Busy, Applied, Ends,
        StillOwed, PartsOf, DashboardLoaded
  <2>5. SpinnerHasLoad'
    BY <1>a, <1>b, <1>8, <2>s, <2>t
    DEF IInv, TypeOK, SpinnerHasLoad, Busy, Applied, Ends, StillOwed, PartsOf,
        DashboardLoaded
  <2>6. ClaimOnItsWay'
    <3> SUFFICES ASSUME owed' # 0, ~swallowed'
                 PROVE  \E x \in Slots : Busy(x)' /\
                    loads'[x].got["devices"] \in {Waiting, Nothing} \cup owed..MaxVersion + 1
      BY <1>8 DEF ClaimOnItsWay, DashboardLoaded, StillOwed
    <3>1. /\ owed' = owed /\ owed # 0 /\ ~swallowed /\ page = "dashboard"
          /\ "devices" \in PartsOf(page)
          /\ loads[s].got["devices"] \in Versions /\ loads[s].got["devices"] < owed
      <4>1. /\ page = "dashboard" /\ "devices" \in PartsOf(page)
            /\ owed' = StillOwed(loads[s].got["devices"])
        BY <1>8 DEF DashboardLoaded, PartsOf
      <4>2. ~swallowed /\ loads[s].got["devices"] # Nothing
        BY <1>8 DEF DashboardLoaded
      <4>3. loads[s].got["devices"] \in Versions
        BY <2>t, <4>1, <4>2
      <4>4. owed' = owed /\ owed # 0 /\ ~(loads[s].got["devices"] >= owed)
        BY <4>1, <4>2 DEF StillOwed
      <4>5. owed \in Nat /\ loads[s].got["devices"] \in Nat
        BY <1>b, <4>3 DEF TypeOK
      <4> QED
        BY <4>1, <4>2, <4>3, <4>4, <4>5
    <3>2. PICK x \in Slots : Busy(x) /\
             loads[x].got["devices"] \in {Waiting, Nothing} \cup owed..MaxVersion + 1
      BY <1>a, <3>1 DEF IInv, ClaimOnItsWay
    <3>3. x # s
      BY <3>1, <3>2, <1>b DEF TypeOK
    <3> QED
      BY <2>s, <3>2, <3>3 DEF Applied, Busy
  <2> QED
    BY <2>1, <2>2, <2>3, <2>4, <2>5, <2>6 DEF IInv
<1>9. ASSUME NEW s \in Slots, ListLoaded(s) PROVE IInv'
  <2>s. Applied(s, Idle)
    BY <1>b, <1>9, ApplyLemma DEF ListLoaded
  <2>t. /\ loads[s].got \in [PartsOf(page) -> Versions \cup {Nothing}]
        /\ loads[s].kind \in {"initial", "refresh", "poll"}
        /\ \A q \in PartsOf(page) : loads[s].got[q] \notin {Waiting, Unsent}
    BY <1>b, <1>9, SettledLemma DEF ListLoaded
  <2>1. TypeOK'
    BY <1>a, <1>b, <1>9, <2>s, <2>t
    DEF IInv, TypeOK, Applied, Ends, StillOwed, PartsOf, ListLoaded
  <2>2. ClaimsHaveAList'
    BY <1>a, <1>b, <1>9, <2>s, <2>t
    DEF IInv, TypeOK, ClaimsHaveAList, Applied, Ends, StillOwed, PartsOf, ListLoaded
  <2>3. NothingFromTheFuture'
    BY <1>a, <1>b, <1>9, <2>s, <2>t
    DEF IInv, TypeOK, NothingFromTheFuture, Busy, Applied, Ends, StillOwed, PartsOf,
        ListLoaded
  <2>4. AheadUnlessOvertaken'
    BY <1>a, <1>b, <1>9, <2>s, <2>t
    DEF IInv, TypeOK, AheadUnlessOvertaken, NothingFromTheFuture, Busy, Applied, Ends,
        StillOwed, PartsOf, ListLoaded
  <2>5. SpinnerHasLoad'
    BY <1>a, <1>b, <1>9, <2>s, <2>t
    DEF IInv, TypeOK, SpinnerHasLoad, Busy, Applied, Ends, StillOwed, PartsOf,
        ListLoaded
  <2>6. ClaimOnItsWay'
    BY <1>a, <1>b, <1>9, <2>s, <2>t
    DEF IInv, TypeOK, ClaimOnItsWay, ClaimsHaveAList, NothingFromTheFuture, Busy,
        Applied, Ends, StillOwed, PartsOf, ListLoaded
  <2> QED
    BY <2>1, <2>2, <2>3, <2>4, <2>5, <2>6 DEF IInv
<1>10. ASSUME NEW s \in Slots, DeviceLoaded(s) PROVE IInv'
  <2> DEFINE now == [loads[s] EXCEPT !.got["telemetry"] = Waiting]
  <2>x. /\ loads[s] \in LoadOf(page) /\ page = "detail" /\ loads' = Overtake(s, now)
        /\ loads[s].got["telemetry"] = Unsent /\ loads[s].got["device"] \in Versions
        /\ PartsOf(page) = {"device", "telemetry"}
        /\ data' = [data EXCEPT !["device"] = loads[s].got["device"]]
    BY <1>b, <1>10 DEF TypeOK, Busy, DeviceLoaded, PartsOf
  <2>y. /\ now \in LoadOf(page) /\ now.kind = loads[s].kind
        /\ now.overtaken = loads[s].overtaken /\ now.got["device"] = loads[s].got["device"]
        /\ now.got["telemetry"] = Waiting
    BY <2>x DEF LoadOf
  <2> HIDE DEF now
  <2>z. now # Idle
    BY <2>x, <2>y DEF Pages
  <2>s. Applied(s, now)
    BY <1>b, <2>x, <2>y, ApplyLemma
  <2>w. /\ UNCHANGED <<version, page, loading, refreshing, owed>> /\ Busy(s)
        /\ DOMAIN data' = PartsOf(page)
        /\ data'["device"] = loads[s].got["device"]
        /\ data'["telemetry"] = data["telemetry"]
        /\ loads[s].got["device"] <= version
    BY <1>a, <1>b, <1>10, <2>x DEF DeviceLoaded, IInv, TypeOK, NothingFromTheFuture
  <2>1. TypeOK'
    BY <1>a, <1>b, <1>10, <2>s, <2>x, <2>y, <2>z
    DEF IInv, TypeOK, Applied, Ends, StillOwed, PartsOf, DeviceLoaded
  <2>2. ClaimsHaveAList'
    BY <1>a, <1>b, <1>10, <2>s, <2>x, <2>y, <2>z
    DEF IInv, TypeOK, ClaimsHaveAList, Applied, Ends, StillOwed, PartsOf, DeviceLoaded
  <2>3. NothingFromTheFuture'
    <3>1. \A x \in Slots \ {s} : loads'[x] # Idle =>
             \A q \in PartsOf(page) :
                loads'[x].got[q] \in Versions => loads'[x].got[q] <= version
      BY <1>a, <2>s DEF IInv, NothingFromTheFuture, Applied
    <3>2. \A q \in PartsOf(page) :
             loads'[s].got[q] \in Versions => loads'[s].got[q] <= version
      BY <1>a, <2>s, <2>x, <2>y DEF IInv, NothingFromTheFuture, Applied, Busy, TypeOK
    <3> QED
      BY <1>a, <3>1, <3>2, <2>w, <2>x DEF IInv, NothingFromTheFuture, Busy
  <2>4. AheadUnlessOvertaken'
    <3>1. \A x \in Slots \ {s} : loads'[x] # Idle => loads'[x].overtaken
      BY <2>s DEF Applied
    <3>2. \A q \in PartsOf(page) :
             loads'[s].got[q] \in Versions => data'[q] = loads'[s].got[q]
      BY <2>s, <2>x, <2>y, <2>w DEF Applied
    <3> QED
      BY <2>w, <3>1, <3>2 DEF AheadUnlessOvertaken, Busy
  <2>5. SpinnerHasLoad'
    <3>1. \A x \in Slots : Busy(x) => loads'[x] # Idle /\ loads'[x].kind = loads[x].kind
      BY <2>s, <2>y, <2>z DEF Applied
    <3> QED
      BY <1>a, <2>w, <3>1 DEF IInv, SpinnerHasLoad, Busy
  <2>6. ClaimOnItsWay'
    BY <1>a, <1>b, <1>10, <2>s, <2>x, <2>y, <2>z
    DEF IInv, TypeOK, ClaimOnItsWay, ClaimsHaveAList, NothingFromTheFuture, Busy,
        Applied, Ends, StillOwed, PartsOf, DeviceLoaded
  <2> QED
    BY <2>1, <2>2, <2>3, <2>4, <2>5, <2>6 DEF IInv
<1>11. ASSUME NEW s \in Slots, DeviceFailed(s) PROVE IInv'
  <2>1. TypeOK'
    BY <1>a, <1>b, <1>11 DEF IInv, TypeOK, Ends, DeviceFailed
  <2>2. ClaimsHaveAList'
    BY <1>a, <1>b, <1>11 DEF IInv, TypeOK, ClaimsHaveAList, Ends, DeviceFailed
  <2>3. NothingFromTheFuture'
    BY <1>a, <1>b, <1>11
    DEF IInv, TypeOK, NothingFromTheFuture, Busy, Ends, DeviceFailed
  <2>4. AheadUnlessOvertaken'
    BY <1>a, <1>b, <1>11
    DEF IInv, TypeOK, AheadUnlessOvertaken, NothingFromTheFuture, Busy, Ends,
        DeviceFailed
  <2>5. SpinnerHasLoad'
    BY <1>a, <1>b, <1>11
    DEF IInv, TypeOK, SpinnerHasLoad, Busy, Ends, DeviceFailed
  <2>6. ClaimOnItsWay'
    BY <1>a, <1>b, <1>11
    DEF IInv, TypeOK, ClaimOnItsWay, ClaimsHaveAList, NothingFromTheFuture, Busy, Ends,
        DeviceFailed
  <2> QED
    BY <2>1, <2>2, <2>3, <2>4, <2>5, <2>6 DEF IInv
<1>12. ASSUME NEW s \in Slots, TelemetryLoaded(s) PROVE IInv'
  <2>s. Applied(s, Idle)
    BY <1>b, <1>12, ApplyLemma DEF TelemetryLoaded
  <2>t. /\ loads[s].got \in [PartsOf(page) -> Versions \cup {Nothing}]
        /\ loads[s].kind \in {"initial", "refresh", "poll"}
        /\ \A q \in PartsOf(page) : loads[s].got[q] \notin {Waiting, Unsent}
    BY <1>b, <1>12, SettledLemma DEF TelemetryLoaded
  <2>1. TypeOK'
    BY <1>a, <1>b, <1>12, <2>s, <2>t
    DEF IInv, TypeOK, Applied, Ends, StillOwed, PartsOf, TelemetryLoaded
  <2>2. ClaimsHaveAList'
    BY <1>a, <1>b, <1>12, <2>s, <2>t
    DEF IInv, TypeOK, ClaimsHaveAList, Applied, Ends, StillOwed, PartsOf,
        TelemetryLoaded
  <2>3. NothingFromTheFuture'
    BY <1>a, <1>b, <1>12, <2>s, <2>t
    DEF IInv, TypeOK, NothingFromTheFuture, Busy, Applied, Ends, StillOwed, PartsOf,
        TelemetryLoaded
  <2>4. AheadUnlessOvertaken'
    BY <1>a, <1>b, <1>12, <2>s, <2>t
    DEF IInv, TypeOK, AheadUnlessOvertaken, NothingFromTheFuture, Busy, Applied, Ends,
        StillOwed, PartsOf, TelemetryLoaded
  <2>5. SpinnerHasLoad'
    BY <1>a, <1>b, <1>12, <2>s, <2>t
    DEF IInv, TypeOK, SpinnerHasLoad, Busy, Applied, Ends, StillOwed, PartsOf,
        TelemetryLoaded
  <2>6. ClaimOnItsWay'
    BY <1>a, <1>b, <1>12, <2>s, <2>t
    DEF IInv, TypeOK, ClaimOnItsWay, ClaimsHaveAList, NothingFromTheFuture, Busy,
        Applied, Ends, StillOwed, PartsOf, TelemetryLoaded
  <2> QED
    BY <2>1, <2>2, <2>3, <2>4, <2>5, <2>6 DEF IInv
<1>13. ASSUME NEW s \in Slots, RebootSucceeds(s) PROVE IInv'
  <2>s. Started(s, "refresh")
    BY <1>a, <1>13, StartLemma DEF RebootSucceeds, RebootEnds
  <2>1. TypeOK'
    BY <1>a, <1>b, <1>13, <2>s DEF Started, IInv, TypeOK, RebootSucceeds, RebootEnds
  <2>2. ClaimsHaveAList'
    BY <1>a, <1>b, <1>13, <2>s
    DEF Started, IInv, TypeOK, ClaimsHaveAList, RebootSucceeds, RebootEnds
  <2>3. NothingFromTheFuture'
    BY <1>a, <1>b, <1>13, <2>s
    DEF Started, IInv, TypeOK, NothingFromTheFuture, Busy, RebootSucceeds, RebootEnds
  <2>4. AheadUnlessOvertaken'
    BY <2>s DEF Started
  <2>5. SpinnerHasLoad'
    BY <2>s DEF Started
  <2>6. ClaimOnItsWay'
    BY <1>a, <1>b, <1>13, <2>s
    DEF Started, IInv, TypeOK, ClaimOnItsWay, ClaimsHaveAList, NothingFromTheFuture,
        Busy, RebootSucceeds, RebootEnds
  <2> QED
    BY <2>1, <2>2, <2>3, <2>4, <2>5, <2>6 DEF IInv
<1>14. ASSUME NEW s \in Slots, ClaimSucceeds(s) PROVE IInv'
  <2>s. Started(s, "refresh")
    BY <1>a, <1>14, StartLemma DEF ClaimSucceeds
  <2>1. TypeOK'
    BY <1>a, <1>b, <1>14, <2>s DEF Started, IInv, TypeOK, ClaimSucceeds
  <2>2. ClaimsHaveAList'
    BY <1>a, <1>b, <1>14, <2>s DEF Started, IInv, TypeOK, ClaimsHaveAList, ClaimSucceeds
  <2>3. NothingFromTheFuture'
    BY <1>a, <1>b, <1>14, <2>s
    DEF Started, IInv, TypeOK, NothingFromTheFuture, Busy, ClaimSucceeds
  <2>4. AheadUnlessOvertaken'
    BY <2>s DEF Started
  <2>5. SpinnerHasLoad'
    BY <2>s DEF Started
  <2>6. ClaimOnItsWay'
    <3>1. page \in {"dashboard", "devices"}
      BY <1>a, <1>b, <1>14 DEF IInv, TypeOK, ClaimsHaveAList, ClaimSucceeds
    <3>2. "devices" \in PartsOf(page)
      BY <3>1 DEF PartsOf
    <3> QED
      BY <2>s, <3>2 DEF Started, ClaimOnItsWay
  <2> QED
    BY <2>1, <2>2, <2>3, <2>4, <2>5, <2>6 DEF IInv
<1>15. CASE ClaimAccepted
  <2>1. TypeOK'
    BY <1>a, <1>b, <1>15 DEF IInv, TypeOK, ClaimAccepted
  <2>2. ClaimsHaveAList'
    BY <1>a, <1>b, <1>15 DEF IInv, TypeOK, ClaimsHaveAList, ClaimAccepted
  <2>3. NothingFromTheFuture'
    BY <1>a, <1>b, <1>15
    DEF IInv, TypeOK, NothingFromTheFuture, Busy, ClaimAccepted
  <2>4. AheadUnlessOvertaken'
    BY <1>a, <1>b, <1>15
    DEF IInv, TypeOK, AheadUnlessOvertaken, NothingFromTheFuture, Busy, ClaimAccepted
  <2>5. SpinnerHasLoad'
    BY <1>a, <1>b, <1>15 DEF IInv, TypeOK, SpinnerHasLoad, Busy, ClaimAccepted
  <2>6. ClaimOnItsWay'
    BY <1>a, <1>b, <1>15
    DEF IInv, TypeOK, ClaimOnItsWay, ClaimsHaveAList, NothingFromTheFuture, Busy,
        ClaimAccepted
  <2> QED
    BY <2>1, <2>2, <2>3, <2>4, <2>5, <2>6 DEF IInv
<1>16. CASE ClaimRefused
  <2>1. TypeOK'
    BY <1>a, <1>b, <1>16 DEF IInv, TypeOK, ClaimRefused
  <2>2. ClaimsHaveAList'
    BY <1>a, <1>b, <1>16 DEF IInv, TypeOK, ClaimsHaveAList, ClaimRefused
  <2>3. NothingFromTheFuture'
    BY <1>a, <1>b, <1>16
    DEF IInv, TypeOK, NothingFromTheFuture, Busy, ClaimRefused
  <2>4. AheadUnlessOvertaken'
    BY <1>a, <1>b, <1>16
    DEF IInv, TypeOK, AheadUnlessOvertaken, NothingFromTheFuture, Busy, ClaimRefused
  <2>5. SpinnerHasLoad'
    BY <1>a, <1>b, <1>16 DEF IInv, TypeOK, SpinnerHasLoad, Busy, ClaimRefused
  <2>6. ClaimOnItsWay'
    BY <1>a, <1>b, <1>16
    DEF IInv, TypeOK, ClaimOnItsWay, ClaimsHaveAList, NothingFromTheFuture, Busy,
        ClaimRefused
  <2> QED
    BY <2>1, <2>2, <2>3, <2>4, <2>5, <2>6 DEF IInv
<1>17. CASE ClaimFails
  <2>1. TypeOK'
    BY <1>a, <1>b, <1>17 DEF IInv, TypeOK, ClaimFails
  <2>2. ClaimsHaveAList'
    BY <1>a, <1>b, <1>17 DEF IInv, TypeOK, ClaimsHaveAList, ClaimFails
  <2>3. NothingFromTheFuture'
    BY <1>a, <1>b, <1>17 DEF IInv, TypeOK, NothingFromTheFuture, Busy, ClaimFails
  <2>4. AheadUnlessOvertaken'
    BY <1>a, <1>b, <1>17
    DEF IInv, TypeOK, AheadUnlessOvertaken, NothingFromTheFuture, Busy, ClaimFails
  <2>5. SpinnerHasLoad'
    BY <1>a, <1>b, <1>17 DEF IInv, TypeOK, SpinnerHasLoad, Busy, ClaimFails
  <2>6. ClaimOnItsWay'
    BY <1>a, <1>b, <1>17
    DEF IInv, TypeOK, ClaimOnItsWay, ClaimsHaveAList, NothingFromTheFuture, Busy,
        ClaimFails
  <2> QED
    BY <2>1, <2>2, <2>3, <2>4, <2>5, <2>6 DEF IInv
<1>18. CASE OpenClaim
  <2>1. TypeOK'
    BY <1>a, <1>b, <1>18 DEF IInv, TypeOK, OpenClaim
  <2>2. ClaimsHaveAList'
    BY <1>a, <1>b, <1>18 DEF IInv, TypeOK, ClaimsHaveAList, OpenClaim, Interactive, Pages
  <2>3. NothingFromTheFuture'
    BY <1>a, <1>b, <1>18 DEF IInv, TypeOK, NothingFromTheFuture, Busy, OpenClaim
  <2>4. AheadUnlessOvertaken'
    BY <1>a, <1>b, <1>18
    DEF IInv, TypeOK, AheadUnlessOvertaken, NothingFromTheFuture, Busy, OpenClaim
  <2>5. SpinnerHasLoad'
    BY <1>a, <1>b, <1>18 DEF IInv, TypeOK, SpinnerHasLoad, Busy, OpenClaim
  <2>6. ClaimOnItsWay'
    BY <1>a, <1>b, <1>18
    DEF IInv, TypeOK, ClaimOnItsWay, ClaimsHaveAList, NothingFromTheFuture, Busy,
        OpenClaim
  <2> QED
    BY <2>1, <2>2, <2>3, <2>4, <2>5, <2>6 DEF IInv
<1>19. CASE SubmitClaim
  <2>1. TypeOK'
    BY <1>a, <1>b, <1>19 DEF IInv, TypeOK, SubmitClaim
  <2>2. ClaimsHaveAList'
    BY <1>a, <1>b, <1>19 DEF IInv, TypeOK, ClaimsHaveAList, SubmitClaim
  <2>3. NothingFromTheFuture'
    BY <1>a, <1>b, <1>19
    DEF IInv, TypeOK, NothingFromTheFuture, Busy, SubmitClaim
  <2>4. AheadUnlessOvertaken'
    BY <1>a, <1>b, <1>19
    DEF IInv, TypeOK, AheadUnlessOvertaken, NothingFromTheFuture, Busy, SubmitClaim
  <2>5. SpinnerHasLoad'
    BY <1>a, <1>b, <1>19 DEF IInv, TypeOK, SpinnerHasLoad, Busy, SubmitClaim
  <2>6. ClaimOnItsWay'
    BY <1>a, <1>b, <1>19
    DEF IInv, TypeOK, ClaimOnItsWay, ClaimsHaveAList, NothingFromTheFuture, Busy,
        SubmitClaim
  <2> QED
    BY <2>1, <2>2, <2>3, <2>4, <2>5, <2>6 DEF IInv
<1>20. CASE CancelClaim
  <2>1. TypeOK'
    BY <1>a, <1>b, <1>20 DEF IInv, TypeOK, CancelClaim
  <2>2. ClaimsHaveAList'
    BY <1>a, <1>b, <1>20 DEF IInv, TypeOK, ClaimsHaveAList, CancelClaim
  <2>3. NothingFromTheFuture'
    BY <1>a, <1>b, <1>20
    DEF IInv, TypeOK, NothingFromTheFuture, Busy, CancelClaim
  <2>4. AheadUnlessOvertaken'
    BY <1>a, <1>b, <1>20
    DEF IInv, TypeOK, AheadUnlessOvertaken, NothingFromTheFuture, Busy, CancelClaim
  <2>5. SpinnerHasLoad'
    BY <1>a, <1>b, <1>20 DEF IInv, TypeOK, SpinnerHasLoad, Busy, CancelClaim
  <2>6. ClaimOnItsWay'
    BY <1>a, <1>b, <1>20
    DEF IInv, TypeOK, ClaimOnItsWay, ClaimsHaveAList, NothingFromTheFuture, Busy,
        CancelClaim
  <2> QED
    BY <2>1, <2>2, <2>3, <2>4, <2>5, <2>6 DEF IInv
<1>21. CASE AskReboot
  <2>1. TypeOK'
    BY <1>a, <1>b, <1>21 DEF IInv, TypeOK, AskReboot
  <2>2. ClaimsHaveAList'
    BY <1>a, <1>b, <1>21 DEF IInv, TypeOK, ClaimsHaveAList, AskReboot
  <2>3. NothingFromTheFuture'
    BY <1>a, <1>b, <1>21 DEF IInv, TypeOK, NothingFromTheFuture, Busy, AskReboot
  <2>4. AheadUnlessOvertaken'
    BY <1>a, <1>b, <1>21
    DEF IInv, TypeOK, AheadUnlessOvertaken, NothingFromTheFuture, Busy, AskReboot
  <2>5. SpinnerHasLoad'
    BY <1>a, <1>b, <1>21 DEF IInv, TypeOK, SpinnerHasLoad, Busy, AskReboot
  <2>6. ClaimOnItsWay'
    BY <1>a, <1>b, <1>21
    DEF IInv, TypeOK, ClaimOnItsWay, ClaimsHaveAList, NothingFromTheFuture, Busy,
        AskReboot
  <2> QED
    BY <2>1, <2>2, <2>3, <2>4, <2>5, <2>6 DEF IInv
<1>22. CASE ConfirmReboot
  <2>1. TypeOK'
    BY <1>a, <1>b, <1>22 DEF IInv, TypeOK, ConfirmReboot
  <2>2. ClaimsHaveAList'
    BY <1>a, <1>b, <1>22 DEF IInv, TypeOK, ClaimsHaveAList, ConfirmReboot
  <2>3. NothingFromTheFuture'
    BY <1>a, <1>b, <1>22
    DEF IInv, TypeOK, NothingFromTheFuture, Busy, ConfirmReboot
  <2>4. AheadUnlessOvertaken'
    BY <1>a, <1>b, <1>22
    DEF IInv, TypeOK, AheadUnlessOvertaken, NothingFromTheFuture, Busy, ConfirmReboot
  <2>5. SpinnerHasLoad'
    BY <1>a, <1>b, <1>22 DEF IInv, TypeOK, SpinnerHasLoad, Busy, ConfirmReboot
  <2>6. ClaimOnItsWay'
    BY <1>a, <1>b, <1>22
    DEF IInv, TypeOK, ClaimOnItsWay, ClaimsHaveAList, NothingFromTheFuture, Busy,
        ConfirmReboot
  <2> QED
    BY <2>1, <2>2, <2>3, <2>4, <2>5, <2>6 DEF IInv
<1>23. CASE CancelReboot
  <2>1. TypeOK'
    BY <1>a, <1>b, <1>23 DEF IInv, TypeOK, CancelReboot
  <2>2. ClaimsHaveAList'
    BY <1>a, <1>b, <1>23 DEF IInv, TypeOK, ClaimsHaveAList, CancelReboot
  <2>3. NothingFromTheFuture'
    BY <1>a, <1>b, <1>23
    DEF IInv, TypeOK, NothingFromTheFuture, Busy, CancelReboot
  <2>4. AheadUnlessOvertaken'
    BY <1>a, <1>b, <1>23
    DEF IInv, TypeOK, AheadUnlessOvertaken, NothingFromTheFuture, Busy, CancelReboot
  <2>5. SpinnerHasLoad'
    BY <1>a, <1>b, <1>23 DEF IInv, TypeOK, SpinnerHasLoad, Busy, CancelReboot
  <2>6. ClaimOnItsWay'
    BY <1>a, <1>b, <1>23
    DEF IInv, TypeOK, ClaimOnItsWay, ClaimsHaveAList, NothingFromTheFuture, Busy,
        CancelReboot
  <2> QED
    BY <2>1, <2>2, <2>3, <2>4, <2>5, <2>6 DEF IInv
<1>24. CASE RebootFails
  <2>1. TypeOK'
    <3>1. reboot' \in {"none", "asked", "sent"} /\ dismissed' \in BOOLEAN
      BY <1>b, <1>24 DEF TypeOK, RebootFails, RebootEnds
    <3>2. /\ failures' \in 0..MaxFailures
          /\ UNCHANGED <<version, bare, page, data, loading, refreshing, auto, loads,
                         claimOpen, claim, owed, swallowed>>
      BY <1>b, <1>24 DEF TypeOK, RebootFails
    <3> QED
      BY <1>b, <3>1, <3>2 DEF TypeOK
  <2>2. ClaimsHaveAList'
    BY <1>a, <1>b, <1>24 DEF IInv, TypeOK, ClaimsHaveAList, RebootFails, RebootEnds
  <2>3. NothingFromTheFuture'
    BY <1>a, <1>b, <1>24
    DEF IInv, TypeOK, NothingFromTheFuture, Busy, RebootFails, RebootEnds
  <2>4. AheadUnlessOvertaken'
    BY <1>a, <1>b, <1>24
    DEF IInv, TypeOK, AheadUnlessOvertaken, NothingFromTheFuture, Busy, RebootFails
  <2>5. SpinnerHasLoad'
    BY <1>a, <1>b, <1>24 DEF IInv, TypeOK, SpinnerHasLoad, Busy, RebootFails, RebootEnds
  <2>6. ClaimOnItsWay'
    BY <1>a, <1>b, <1>24
    DEF IInv, TypeOK, ClaimOnItsWay, ClaimsHaveAList, NothingFromTheFuture, Busy,
        RebootFails, RebootEnds
  <2> QED
    BY <2>1, <2>2, <2>3, <2>4, <2>5, <2>6 DEF IInv
<1>25. CASE UNCHANGED vars
  BY <1>a, <1>25
  DEF IInv, TypeOK, vars, ClaimsHaveAList, NothingFromTheFuture,
      AheadUnlessOvertaken, SpinnerHasLoad, ClaimOnItsWay, Busy
<1>26. ASSUME NEW s \in Slots, DashboardThrows(s) PROVE IInv'
  <2>1. /\ page' = "blank" /\ DOMAIN data' = {} /\ PartsOf("blank") = {}
        /\ loading' = FALSE /\ refreshing' = FALSE /\ auto' = FALSE
        /\ loads' = [x \in Slots |-> Idle]
        /\ claimOpen' = FALSE /\ claim' = "none" /\ owed' = 0 /\ swallowed' = FALSE
        /\ UNCHANGED <<version, bare, reboot, dismissed, failures>>
    BY <1>26 DEF DashboardThrows, MountedData, PartsOf
  <2>2. data' \in [PartsOf(page') -> Versions \cup {Nothing}]
    BY <1>26, <2>1 DEF DashboardThrows, MountedData
  <2>3. TypeOK'
    BY <1>b, <2>1, <2>2 DEF TypeOK, Pages
  <2>4. ClaimsHaveAList' /\ SpinnerHasLoad' /\ ClaimOnItsWay' /\ AheadUnlessOvertaken'
    BY <2>1 DEF ClaimsHaveAList, SpinnerHasLoad, ClaimOnItsWay, AheadUnlessOvertaken, Busy
  <2>5. NothingFromTheFuture'
    BY <1>b, <2>1 DEF TypeOK, NothingFromTheFuture, Busy
  <2> QED
    BY <2>2, <2>3, <2>4, <2>5 DEF IInv
<1>27. CASE DismissReboot
  <2>1. TypeOK'
    BY <1>a, <1>b, <1>27 DEF IInv, TypeOK, DismissReboot
  <2>2. ClaimsHaveAList'
    BY <1>a, <1>b, <1>27 DEF IInv, TypeOK, ClaimsHaveAList, DismissReboot
  <2>3. NothingFromTheFuture'
    BY <1>a, <1>b, <1>27
    DEF IInv, TypeOK, NothingFromTheFuture, Busy, DismissReboot
  <2>4. AheadUnlessOvertaken'
    BY <1>a, <1>b, <1>27
    DEF IInv, TypeOK, AheadUnlessOvertaken, NothingFromTheFuture, Busy, DismissReboot
  <2>5. SpinnerHasLoad'
    BY <1>a, <1>b, <1>27 DEF IInv, TypeOK, SpinnerHasLoad, Busy, DismissReboot
  <2>6. ClaimOnItsWay'
    BY <1>a, <1>b, <1>27
    DEF IInv, TypeOK, ClaimOnItsWay, ClaimsHaveAList, NothingFromTheFuture, Busy,
        DismissReboot
  <2> QED
    BY <2>1, <2>2, <2>3, <2>4, <2>5, <2>6 DEF IInv
<1> QED
  BY <1>a, <1>1, <1>2, <1>3, <1>4, <1>5, <1>6, <1>7, <1>8, <1>9, <1>10, <1>11, <1>12, <1>13,
     <1>14, <1>15, <1>16, <1>17, <1>18, <1>19, <1>20, <1>21, <1>22, <1>23, <1>24, <1>25,
     <1>26, <1>27
  DEF Next, Claiming, Apply, Request, Enter, Reload, Pages

LEMMA Start == Init => IInv
<1> SUFFICES ASSUME Init PROVE IInv
  OBVIOUS
<1>1. page \in Pages /\ page # "blank" /\ loads = MountedLoads(page) /\ data = [q \in PartsOf(page) |-> Nothing]
  BY DEF Init, MountedData, Pages
<1>2. version \in Versions /\ DOMAIN data = PartsOf(page)
  BY <1>1, BoundsAssumption DEF Init, Versions
<1>3. data \in [PartsOf(page) -> Versions \cup {Nothing}]
  BY <1>1
<1>4. TypeOK
  <2>1. loads \in [Slots -> {Idle} \cup LoadOf(page)]
    BY <1>1, MountLemma
  <2>2. auto \in BOOLEAN
    BY DEF Init
  <2>3. /\ loading \in BOOLEAN /\ refreshing \in BOOLEAN /\ claimOpen \in BOOLEAN
        /\ dismissed \in BOOLEAN /\ swallowed \in BOOLEAN /\ bare \in {0} \cup Versions
    BY DEF Init
  <2>4. claim = "none" /\ reboot = "none" /\ failures = 0 /\ owed = 0
    BY DEF Init
  <2>5. failures \in 0..MaxFailures
    BY <2>4, BoundsAssumption
  <2> QED
    BY <1>1, <1>2, <1>3, <2>1, <2>2, <2>3, <2>4, <2>5 DEF TypeOK
<1>5. ClaimsHaveAList /\ ClaimOnItsWay
  BY DEF Init, ClaimsHaveAList, ClaimOnItsWay
<1>6. SpinnerHasLoad
  BY <1>1, MountLemma, SlotsAssumption DEF Init, SpinnerHasLoad, Busy
<1>7. NothingFromTheFuture /\ AheadUnlessOvertaken
  BY <1>1, <1>2, MountLemma, MarksAssumption
  DEF Init, NothingFromTheFuture, AheadUnlessOvertaken, Busy, Versions
<1> QED
  BY <1>4, <1>5, <1>6, <1>7 DEF IInv

LEMMA Invariance == Spec => []IInv
  BY Start, Step, PTL DEF Spec

\* Type correctness, for any number of overlapping loads.
THEOREM PagesTypeCorrect == Spec => []TypeOK
  BY Invariance, PTL DEF IInv

\* However many loads overlap, start and end, a page never spins without one whose end
\* will stop it.
THEOREM SpinnersHaveLoads == Spec => []SpinnerHasLoad
  BY Invariance, PTL DEF IInv

\* A successful claim is never forgotten: until it, or an error, is shown, a load whose
\* list cannot be older is in flight, but for a dashboard that has hidden its failure.
THEOREM ClaimsAreOnTheirWay == Spec => []ClaimOnItsWay
  BY Invariance, PTL DEF IInv

\* The step that BackOnlyByOverlap allows.
BackByOverlap ==
    \A q \in DOMAIN data \cap DOMAIN data' :
        (data[q] # Nothing /\ data'[q] # Nothing /\ data'[q] < data[q])
            => \E s \in Slots : Busy(s) /\ loads[s].overtaken

LEMMA BackStep == IInv /\ [Next]_vars => BackByOverlap \/ UNCHANGED vars
<1> SUFFICES ASSUME IInv, Next,
                    NEW q \in DOMAIN data \cap DOMAIN data',
                    data[q] # Nothing, data'[q] # Nothing, data'[q] < data[q]
             PROVE  \E s \in Slots : Busy(s) /\ loads[s].overtaken
  BY DEF BackByOverlap
<1>1. q \in PartsOf(page) /\ data[q] \in Versions /\ data[q] \in Nat
  BY BoundsAssumption DEF IInv, TypeOK, Versions
<1>2. data' # data
  BY <1>1
<1>3. ASSUME NEW p \in Pages, Mount(p) PROVE FALSE
  BY <1>3 DEF Mount, MountedData
<1>8. ASSUME NEW s \in Slots, DashboardThrows(s) PROVE FALSE
  BY <1>8 DEF DashboardThrows, MountedData
<1>4. ASSUME NEW s \in Slots, Busy(s), data'[q] \in {data[q], loads[s].got[q]},
             data'[q] \in Versions
      PROVE  loads[s].overtaken
  <2>1. data'[q] = loads[s].got[q] /\ data'[q] \in Nat
    BY <1>1, <1>4, BoundsAssumption DEF Versions
  <2> QED
    BY <1>1, <1>4, <2>1 DEF IInv, AheadUnlessOvertaken
<1>5. ASSUME NEW s \in Slots, DashboardLoaded(s) \/ ListLoaded(s)
      PROVE  Busy(s) /\ loads[s].overtaken
  <2>1. data' = loads[s].got /\ Busy(s) /\ Settled(s)
    BY <1>5 DEF DashboardLoaded, ListLoaded
  <2>2. data'[q] \in Versions
    BY <1>1, <2>1, SettledLemma DEF IInv
  <2> QED
    BY <1>4, <2>1, <2>2
<1>6. ASSUME NEW s \in Slots, DeviceLoaded(s) PROVE Busy(s) /\ loads[s].overtaken
  <2>1. Busy(s) /\ loads[s].got["device"] \in Versions
    BY <1>6 DEF DeviceLoaded
  <2>2. data'[q] \in {data[q], loads[s].got[q]} /\ data'[q] \in Versions
    BY <1>1, <1>6, <2>1 DEF DeviceLoaded, IInv, TypeOK
  <2> QED
    BY <1>4, <2>1, <2>2
<1>7. ASSUME NEW s \in Slots, TelemetryLoaded(s) PROVE Busy(s) /\ loads[s].overtaken
  <2>1. /\ Busy(s) /\ Settled(s) /\ loads[s].got["telemetry"] # Nothing
        /\ data' = [data EXCEPT !["telemetry"] = loads[s].got["telemetry"]]
    BY <1>2, <1>7 DEF TelemetryLoaded
  <2>2. data'[q] \in {data[q], loads[s].got[q]} /\ data'[q] \in Versions
    BY <1>1, <2>1, SettledLemma DEF IInv, TypeOK
  <2> QED
    BY <1>4, <2>1, <2>2
<1> QED
  BY <1>2, <1>3, <1>5, <1>6, <1>7, <1>8
  DEF Next, Claiming, Apply, Request, Enter, Reload, Pages, ServerChanges, SelectInterval, Refresh, Poll,
      Answer, Fail, DeviceFailed, RebootSucceeds, ClaimSucceeds, ClaimAccepted,
      ClaimRefused, ClaimFails, OpenClaim, SubmitClaim, CancelClaim, AskReboot,
      ConfirmReboot, CancelReboot, DismissReboot, RebootFails, shown

\* Data on the screen is replaced by older data only by a load that another has
\* overtaken, whatever is started, answered, failed or left: never by the page before.
THEOREM OnlyOverlapGoesBack == Spec => BackOnlyByOverlap
<1>1. IInv /\ [Next]_vars => [BackByOverlap]_vars
  BY BackStep
<1> QED
  BY Invariance, <1>1, PTL DEF Spec, BackOnlyByOverlap, BackByOverlap
=============================================================================
