------------------------------ MODULE Queries ------------------------------
(***************************************************************************)
(* What the endpoints of app/main.py compute from the table of readings.   *)
(* A table t is a sequence of rows in the order of their ids; each row has *)
(* a sensor, a value and the time at which it was recorded.  Values are in *)
(* hundredths and times in minutes.  An average is the pair of its sum and *)
(* its count, and its rounding for the answer is left out.  Where a        *)
(* comparison or a truncation of floating-point results decides, the       *)
(* result compared is the exact one and an error, in halves of its unit:   *)
(* an argument "off", for which any number within Error may stand.         *)
(* The arguments are those a handler accepts, of sensors that exist: for   *)
(* all others it answers 400 or 404 without looking at the readings.       *)
(***************************************************************************)
EXTENDS Integers, FiniteSets, SequencesExt

CONSTANTS
    None,           \* null in arguments and answers
    EnoughRows,     \* readings that sensor_anomalies asks for: 10
    HealthRows,     \* readings that sensor_health looks at: 10
    StuckRows,      \* equal readings that make a sensor stuck there: 5
    ActiveMinutes,  \* age of the last reading of an active sensor: 10
    MaxItems,       \* violations listed in an answer: 50
    Error           \* bound of the rounding errors

ASSUME RowsAssumption ==
    /\ {EnoughRows, HealthRows, StuckRows, MaxItems} \subseteq Nat \ {0}
    /\ StuckRows <= HealthRows
ASSUME MinutesAssumption == ActiveMinutes \in Nat
ASSUME ErrorAssumption == Error \in Nat
ASSUME NoneAssumption == None \notin Int

\* Rounding errors, one for each of the values vs.
Offs(vs) == [Range(vs) -> -Error..Error]

-----------------------------------------------------------------------------
(* The selects.                                                             *)

\* The rows of t at the positions that have a key, by their keys and, where
\* these are equal, by their ids.
UpTo(key, i) == {j \in DOMAIN key : key[j] < key[i] \/ (key[j] = key[i] /\ j <= i)}

Placed(key, k) == CHOOSE i \in DOMAIN key : Cardinality(UpTo(key, i)) = k

Arranged(t, key) == [k \in 1..Cardinality(DOMAIN key) |-> t[Placed(key, k)]]

\* order_by(id)
ById(t, positions) == Arranged(t, [i \in positions |-> i])

Of(t, s) == ById(t, {i \in DOMAIN t : t[i].sensor = s})

\* limit
Oldest(rs, limit) == SubSeq(rs, 1, IF limit < Len(rs) THEN limit ELSE Len(rs))

\* order_by(id.desc()), limit
Newest(rs, limit) == Oldest(Reverse(rs), limit)

\* the same, reversed for the handlers that go through time
Window(rs, limit) == Reverse(Newest(rs, limit))

ValuesOf(rs) == [i \in DOMAIN rs |-> rs[i].value]

\* Sums(vs)[i]: the sum of the first i values
Sums(vs) ==
    LET sum[i \in 0..Len(vs)] == IF i = 0 THEN 0 ELSE sum[i - 1] + vs[i]
    IN  sum

Total(vs) == Sums(vs)[Len(vs)]

-----------------------------------------------------------------------------
(* Lists of readings.                                                       *)
LatestReading(t, s) == IF Of(t, s) = <<>> THEN None ELSE Last(Of(t, s))

LatestPerSensor(t, sensors) == [s \in sensors |-> LatestReading(t, s)]

ReadingsSince(t, lastId, limit) == Oldest(SubSeq(t, lastId + 1, Len(t)), limit)

RecentReadings(t, sensors, limit) ==
    Newest(ById(t, {i \in DOMAIN t : t[i].sensor \in sensors}), limit)

\* The most recent first, by their time; a bound may be None.
ListReadings(t, s, minValue, maxValue, limit) ==
    LET rs == Of(t, s)
        within == {i \in DOMAIN rs : /\ minValue = None \/ rs[i].value >= minValue
                                     /\ maxValue = None \/ rs[i].value <= maxValue}
    IN  Oldest(Arranged(rs, [i \in within |-> -rs[i].at]), limit)

\* Those after a time, the earliest first.
ReadingsWindow(t, s, since, limit) ==
    LET rs == Of(t, s) IN
    Oldest(Arranged(rs, [i \in {j \in DOMAIN rs : rs[j].at > since} |-> rs[i].at]), limit)

ExportCsv(t, s, limit) == Oldest(Of(t, s), limit)

-----------------------------------------------------------------------------
(* Minimum, maximum and average.                                            *)
Stats(vs) ==
    IF vs = <<>> THEN [count |-> 0, min |-> None, max |-> None, sum |-> 0]
    ELSE [count |-> Len(vs), min |-> Min(Range(vs)), max |-> Max(Range(vs)), sum |-> Total(vs)]

SensorStats(t, s, window) == Stats(ValuesOf(Newest(Of(t, s), window)))

GroupStats(t, group) == Stats(ValuesOf(ById(t, {i \in DOMAIN t : t[i].sensor \in group})))

\* sensor_summary, without the latest reading.
SummaryStats(t, s) == Stats(ValuesOf(Of(t, s)))

\* The difference of the averages, as a pair of numerator and denominator.
Compare(t, s, other, window) ==
    LET a == SensorStats(t, s, window)
        b == SensorStats(t, other, window)
    IN  IF a.count = 0 \/ b.count = 0 THEN None
        ELSE <<a.sum * b.count - b.sum * a.count, a.count * b.count>>

Aggregate(t, s, window, bucket) ==
    LET rs == Window(Of(t, s), window)
        chunk(k) == SubSeq(rs, (k - 1) * bucket + 1,
                           IF k * bucket < Len(rs) THEN k * bucket ELSE Len(rs))
    IN  [k \in 1..((Len(rs) + bucket - 1) \div bucket) |->
            [stats |-> Stats(ValuesOf(chunk(k))),
             first |-> Head(chunk(k)).at, last |-> Last(chunk(k)).at]]

-----------------------------------------------------------------------------
(* Faulty variants, for comparison.                                         *)

\* int instead of round.
FloorDiv(a, b) == a \div b

\* The largest value falls behind the last bin.
DistributionOpen(t, s, bins, window, off) ==
    LET vs == ValuesOf(Newest(Of(t, s), window))
        lo == Min(Range(vs))
        hi == Max(Range(vs))
        bin(v) == (2 * (v - lo) * bins + off[v]) \div (2 * (hi - lo)) + 1
    IN  IF vs = <<>> THEN <<>>
        ELSE IF lo = hi THEN <<Len(vs)>>
        ELSE [b \in 1..bins |-> Cardinality({i \in DOMAIN vs : bin(vs[i]) = b})]

\* A reading of exactly the limit's age no longer counts.
ActiveSensorsAfter(t, sensors, now) ==
    {s \in sensors : LatestReading(t, s) # None /\ LatestReading(t, s).at > now - ActiveMinutes}

-----------------------------------------------------------------------------
(* Order statistics and fits.                                               *)

\* Python's round of a / b: to the nearest, ties to the even number.
RoundDiv(a, b) ==
    LET q == a \div b
        r == a % b
    IN  IF 2 * r > b \/ (2 * r = b /\ q % 2 = 1) THEN q + 1 ELSE q

Percentile(t, s, window, p) ==
    LET newest == ValuesOf(Newest(Of(t, s), window))
        vs == Arranged(newest, newest)
        n == Len(vs)
    IN  IF n = 0 THEN None ELSE vs[Min({n - 1, RoundDiv(p * (n - 1), 100)}) + 1]

\* The slope is num / den, with both sums multiplied by 8 n.
Slope(vs, off) ==
    LET n == Len(vs)
        x(i) == 2 * (i - 1) - (n - 1)
        y(i) == n * vs[i] - Total(vs)
    IN  [num |-> 2 * Total([i \in 1..n |-> 2 * x(i) * y(i)]) + off,
         den |-> 2 * n * Total([i \in 1..n |-> x(i) * x(i)])]

Trend(t, s, window, off) ==
    LET vs == ValuesOf(Window(Of(t, s), window))
        slope == Slope(vs, off)
    IN  IF Len(vs) < 3 THEN "unknown"
        ELSE IF slope.num > slope.den THEN "rising"
        ELSE IF slope.num < -slope.den THEN "falling"
        ELSE "flat"

MovingAverage(t, s, period, points) ==
    LET vs == ValuesOf(Window(Of(t, s), points)) IN
    [i \in period..Len(vs) |-> Total(SubSeq(vs, i - period + 1, i))]

-----------------------------------------------------------------------------
(* Selections by value, as positions counted from the newest reading.       *)
ThresholdViolations(t, s, minValue, maxValue, window) ==
    LET vs == ValuesOf(Newest(Of(t, s), window))
        below == {i \in DOMAIN vs : minValue # None /\ vs[i] < minValue}
        above == {i \in DOMAIN vs \ below : maxValue # None /\ vs[i] > maxValue}
    IN  [checked |-> Len(vs), violations |-> Cardinality(below \cup above),
         below |-> below, above |-> above,
         items |-> {i \in below \cup above :
                      Cardinality({j \in below \cup above : j < i}) < MaxItems}]

\* |v - mean| > sigma * stddev, multiplied by the count and squared; sigma is
\* not negative.
Anomalies(t, s, window, sigma, off) ==
    LET vs == ValuesOf(Newest(Of(t, s), window))
        n == Len(vs)
        square(i) == (n * vs[i] - Total(vs)) * (n * vs[i] - Total(vs))
        variance == Total([i \in 1..n |-> square(i)])
    IN  IF n < EnoughRows THEN {}
        ELSE {i \in 1..n : 2 * n * square(i) + off[vs[i]] > 2 * sigma * sigma * variance}

DetectStuck(t, s, samples) ==
    LET vs == ValuesOf(Newest(Of(t, s), samples)) IN
    Len(vs) = samples /\ Cardinality(Range(vs)) = 1

\* Counts by bin; one bin when all values are equal.  A quotient is never
\* negative.
Distribution(t, s, bins, window, off) ==
    LET vs == ValuesOf(Newest(Of(t, s), window))
        lo == Min(Range(vs))
        hi == Max(Range(vs))
        scaled(v) == Max({0, 2 * (v - lo) * bins + off[v]})
        bin(v) == Min({bins - 1, scaled(v) \div (2 * (hi - lo))}) + 1
    IN  IF vs = <<>> THEN <<>>
        ELSE IF lo = hi THEN <<Len(vs)>>
        ELSE [b \in 1..bins |-> Cardinality({i \in DOMAIN vs : bin(vs[i]) = b})]

-----------------------------------------------------------------------------
(* Activity at time now.                                                    *)
SensorRate(t, s, minutes, now) ==
    Cardinality({i \in DOMAIN Of(t, s) : Of(t, s)[i].at >= now - minutes})

InactiveSensors(t, sensors, minutes, now) ==
    {s \in sensors : LatestReading(t, s) = None \/ LatestReading(t, s).at < now - minutes}

ActiveSensors(t, sensors, now) ==
    {s \in sensors : LatestReading(t, s) # None /\ LatestReading(t, s).at >= now - ActiveMinutes}

\* fleet_health, from the numbers of sensors, active sensors and devices
\* with the latest firmware.
FleetStatus(total, active, uptodate) ==
    IF total = 0 THEN "empty"
    ELSE IF 100 * active >= 90 * total /\ 100 * uptodate >= 80 * total THEN "healthy"
    ELSE IF 100 * active >= 50 * total THEN "degraded"
    ELSE "unhealthy"

SensorHealth(t, s, now) ==
    LET rs == Newest(Of(t, s), HealthRows) IN
    IF rs = <<>> THEN "no-data"
    ELSE IF Head(rs).at < now - ActiveMinutes THEN "stale"
    ELSE IF Cardinality(Range(ValuesOf(rs))) = 1 /\ Len(rs) >= StuckRows THEN "stuck"
    ELSE "healthy"
=============================================================================
