---------------------------- MODULE MCLocalPages ----------------------------
(* Fleets that meet every threshold of FleetMetrics, and a few forms to fill in. *)
EXTENDS LocalPages

CONSTANTS a, b, key1, key2

TwoNames == {a, b}
TwoKeys  == {key1, key2}

Signals == {-96, -95, -86, -85, 0, 49, 50, 70, 71, 74, 75, Absent}

Router(st, c, r1, r2, f, up) ==
    [status |-> st, carrier |-> c, rssi |-> r1, cellular_rssi |-> r2,
     flash_free |-> f, uptime_seconds |-> up]

Plain(st, r) == Router(st, {"airtel"}, r, r, 66, 90061)

OneRouter ==
    {Router(st, {"jio"}, r1, r2, 66, 60) :
        st \in Statuses, r1 \in Signals, r2 \in {-90, 0, 75, Absent}}
    \cup {Router(st, c, 75, 75, 66, 60) :
        st \in {"ONLINE", "OFFLINE"}, c \in SUBSET {"airtel", "jio", "vi", "bsnl", "5g"}}
    \cup {Router("ONLINE", {}, 75, 75, f, 60) : f \in {0, 1, 4, 12, 66, 159, 160, 161}}
    \cup {Router("ONLINE", {}, 75, 75, 66, 86400 * d + 3600 * h + 60 * m + s) :
        d \in {0, 1, 2}, h \in {0, 1, 23}, m \in {0, 1, 59}, s \in {0, 1, 59}}

\* Fleets of three, seven and eight routers, in every split over the three grades.
Mixed == UNION {{[i \in 1..n |-> Plain("ONLINE", IF i <= o THEN 80 ELSE IF i <= g THEN 60 ELSE 10)] :
                     o \in 0..n, g \in 0..n} : n \in {3, 7, 8}}

SomeRecords ==
    UNION {[1..n -> [timestamp : 1..3, rssi : {-96, 75, Absent}]] : n \in 0..2}

SomeFleets == {<<d>> : d \in OneRouter} \cup Mixed
=============================================================================
