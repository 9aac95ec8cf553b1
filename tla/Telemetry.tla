----------------------------- MODULE Telemetry -----------------------------
(***************************************************************************)
(* The way of a reading through the hub: the receivers store it, while the *)
(* endpoints of the API, in another process, answer from the same table.   *)
(* A behaviour with no link in use is a table as it may stand, over which  *)
(* the answers of the endpoints are compared with each other and with      *)
(* definitions of what they report.                                        *)
(***************************************************************************)
EXTENDS Receivers, Queries

CONSTANTS
    Sensors,     \* sensors of the table
    Asked,       \* bound: the sensors whose summary a client asks for
    Windows,     \* values of window, limit, points and samples
    Bounds,      \* values of min_value and max_value
    Sigmas       \* values of sigma

ASSUME ArgumentsAssumption ==
    /\ Sensors \subseteq Int /\ IsFiniteSet(Sensors) /\ Asked \subseteq Sensors
    /\ Windows \subseteq Nat \ {0} /\ Sigmas \subseteq Nat
    /\ None \in Bounds /\ Bounds \subseteq Int \cup {None}
ASSUME TablesAssumption ==
    \A start \in Starts : \A i \in DOMAIN start.rows :
      LET r == start.rows[i] IN
      r # None /\ r.sensor \in Sensors /\ r.at \in Int /\ r.value \in Int

VARIABLE summary   \* a request for the summary of a sensor

vars == <<rvars, summary>>

Idle == [step |-> "idle"]

TInit == Init /\ summary = Idle

-----------------------------------------------------------------------------
(* Faulty variants, for comparison.                                         *)

\* The latest reading is selected first.
SwappedSummary ==
    \/ /\ summary.step # "select_latest"
       /\ \E s \in Asked : summary' = [step |-> "select_latest", sensor |-> s,
                                         latest |-> LatestReading(rows, s)]
    \/ /\ summary.step = "select_latest"
       /\ summary' = [step |-> "answered", sensor |-> summary.sensor,
                      latest |-> summary.latest, stats |-> SummaryStats(rows, summary.sensor)]

-----------------------------------------------------------------------------
(* sensor_summary selects all readings of the sensor and then the latest    *)
(* one; its session holds no snapshot of the table between the two.         *)
SensorSummary ==
    \/ /\ summary.step # "select_latest"
       /\ \E s \in Asked : summary' = [step |-> "select_latest", sensor |-> s,
                                         stats |-> SummaryStats(rows, s)]
    \/ /\ summary.step = "select_latest"
       /\ summary' = [step |-> "answered", sensor |-> summary.sensor, stats |-> summary.stats,
                      latest |-> LatestReading(rows, summary.sensor)]

Request == SensorSummary /\ UNCHANGED rvars

Next ==
    \/ RNext /\ UNCHANGED summary
    \/ Request

(* While a receiver has something to do, some receiver goes on: its loop    *)
(* blocks only where there is nothing to receive.  Nothing makes a crashed  *)
(* receiver start again, a device send, or a client ask.                    *)
FairSpec ==
    /\ TInit /\ [][Next]_vars
    /\ WF_vars(UNCHANGED summary /\ \E l \in on : Serve(l))

-----------------------------------------------------------------------------
(* Again and again all good readings sent so far have been stored, but for  *)
(* links that something has disturbed and for what came after a value that  *)
(* is no number; and as MaxSent ends the sending, each is stored in the     *)
(* end.  No receiver waits for ever for more of a stream that has a whole   *)
(* line in it.                                                              *)
GoodMessagesStored == []<>(\A l \in on \ disturbed : Expected(l) \subseteq StoredOver(l))

(* An answer of sensor_summary never shows a latest reading older than its  *)
(* statistics, nor none beside a count: while receivers insert, the two     *)
(* selects see the table as it was at two moments, one after the other.     *)
SummaryConsistent ==
    summary.step = "answered" =>
        \E i \in 0..Len(rows) : \E k \in i..Len(rows) :
            /\ summary.stats = SummaryStats(SubSeq(rows, 1, i), summary.sensor)
            /\ summary.latest = LatestReading(SubSeq(rows, 1, k), summary.sensor)

-----------------------------------------------------------------------------
AtRest == on = {}

InTimeOrder(rs) == \A i, j \in DOMAIN rs : i < j => rs[i].at <= rs[j].at

\* The values that lie in bin b of n between the least and the greatest one, the last
\* bin closed, when the bounds of the bins are moved outwards by slack.
InBin(vs, b, n, slack) ==
    LET lo == Min(Range(vs))
        width == Max(Range(vs)) - lo
    IN  {i \in DOMAIN vs : /\ 2 * (b - 1) * width - slack <= 2 * (vs[i] - lo) * n \/ b = 1
                           /\ 2 * (vs[i] - lo) * n < 2 * b * width + slack \/ b = n}

ChunksAddUp(s, window, bucket) ==
    LET whole == SensorStats(rows, s, window)
        chunks == Aggregate(rows, s, window, bucket)
        of == [k \in DOMAIN chunks |-> chunks[k].stats]
    IN
    /\ Total([k \in DOMAIN of |-> of[k].count]) = whole.count
    /\ Total([k \in DOMAIN of |-> of[k].sum]) = whole.sum
    /\ of # <<>> => /\ Min({of[k].min : k \in DOMAIN of}) = whole.min
                    /\ Max({of[k].max : k \in DOMAIN of}) = whole.max
    /\ \A k \in 1..(Len(of) - 1) :
         /\ of[k].count = bucket
         /\ InTimeOrder(Of(rows, s)) => chunks[k].last <= chunks[k + 1].first

BinsAddUp(s, window, bins) ==
    LET vs == ValuesOf(Newest(Of(rows, s), window)) IN
    \A off \in Offs(vs) :
      LET counts == Distribution(rows, s, bins, window, off) IN
      /\ Total(counts) = Len(vs)
      /\ Len(counts) = bins => \A b \in 1..bins :
           /\ counts[b] >= Cardinality(InBin(vs, b, bins, -Error))
           /\ counts[b] <= Cardinality(InBin(vs, b, bins, Error))

ViolationsAddUp(s, window, minValue, maxValue) ==
    LET found == ThresholdViolations(rows, s, minValue, maxValue, window)
        listed == ListReadings(rows, s, minValue, maxValue, window)
    IN
    /\ found.violations = Cardinality(found.below) + Cardinality(found.above)
    /\ found.items \subseteq found.below \cup found.above
    /\ Cardinality(found.items) = Min({found.violations, MaxItems})
    /\ window >= Len(Of(rows, s)) => found.violations + Len(listed) = Len(Of(rows, s))

(* What splits the readings of a window loses and doubles none: the chunks  *)
(* of an aggregate, in the order of time, add up to the statistics of the   *)
(* window; the bins of a histogram count each reading once, and hold those  *)
(* that lie between their bounds but for what rounding moves across one;    *)
(* what the list filters out is what the violations count, each once; a     *)
(* group counts what its sensors count; and the list of the newest readings *)
(* continues where a client that asks by id has got to.                     *)
SplitsAreExact == AtRest =>
    /\ \A s \in Sensors, window \in Windows :
         /\ \A bucket \in 1..window : ChunksAddUp(s, window, bucket)
         /\ \A bins \in 2..window : BinsAddUp(s, window, bins)
         /\ \A minValue, maxValue \in Bounds : ViolationsAddUp(s, window, minValue, maxValue)
    /\ \A s, q \in Sensors : s # q =>
         GroupStats(rows, {s, q}).count = SummaryStats(rows, s).count + SummaryStats(rows, q).count
    /\ \A n \in Windows : n <= Len(rows) =>
         RecentReadings(rows, Sensors, n) = Reverse(ReadingsSince(rows, Len(rows) - n, n))

\* The sum over the pairs of positions up to n.
SumOverPairs(n, F(_, _)) == Total([j \in 1..n |-> Total([i \in 1..(j - 1) |-> F(i, j)])])

PercentilesAgree(s, window, vs) ==
    LET n == Len(vs)
        percentile(p) == Percentile(rows, s, window, p)
    IN
    /\ \A p \in {50, 90, 95, 99} : \E rank \in 0..(n - 1) :
         /\ -50 <= 100 * rank - p * (n - 1) /\ 100 * rank - p * (n - 1) <= 50
         /\ Cardinality({i \in 1..n : vs[i] < percentile(p)}) <= rank
         /\ Cardinality({i \in 1..n : vs[i] <= percentile(p)}) > rank
    /\ percentile(50) <= percentile(90) /\ percentile(90) <= percentile(95)
    /\ percentile(95) <= percentile(99)

TrendAgrees(s, window, vs) ==
    LET rise == SumOverPairs(Len(vs), LAMBDA i, j : (j - i) * (vs[j] - vs[i]))
        steps == SumOverPairs(Len(vs), LAMBDA i, j : (j - i) * (j - i))
    IN
    \A off \in -Error..Error :
      LET trend == Trend(rows, s, window, off) IN
      /\ 8 * (rise - steps) > Error => trend = "rising"
      /\ trend = "rising" => 8 * (rise - steps) > -Error
      /\ 8 * (rise + steps) < -Error => trend = "falling"
      /\ trend = "falling" => 8 * (rise + steps) < Error

AnomaliesAgree(s, window, vs, sigma) ==
    LET n == Len(vs)
        away(k) == Total([i \in 1..n |-> vs[n + 1 - k] - vs[i]])
        spread == SumOverPairs(n, LAMBDA i, j : (vs[i] - vs[j]) * (vs[i] - vs[j]))
        beyond(slack) ==
            {k \in 1..n : 2 * n * (away(k) * away(k) - sigma * sigma * spread) > slack}
    IN
    \A off \in Offs(vs) :
      LET found == Anomalies(rows, s, window, sigma, off) IN
      beyond(Error) \subseteq found /\ found \subseteq beyond(-Error)

MovingAverageAgrees(s, window, vs, period) ==
    LET n == Len(vs)
        ma == MovingAverage(rows, s, period, window)
    IN  /\ n >= period => ma[n] = SensorStats(rows, s, period).sum
        /\ \A i \in period..(n - 1) : ma[i + 1] - ma[i] = vs[i + 1] - vs[i + 1 - period]

(* The statistics are what their names say, by definitions that share       *)
(* nothing with the code's: a percentile is a value of the rank that is     *)
(* nearest to p, and percentiles are ordered; the regression and the        *)
(* deviations agree with the sums over all pairs of readings wherever these *)
(* are farther from the threshold than rounding can reach; the moving       *)
(* average moves by the reading that enters and the one that leaves, and    *)
(* ends at the mean of the window; a comparison with itself shows none, and *)
(* the histogram of a stuck sensor has one bin.                             *)
StatisticsAgree == AtRest => \A s \in Sensors, window \in Windows :
    LET vs == ValuesOf(Window(Of(rows, s), window))
        n == Len(vs)
    IN
    /\ n > 0 => PercentilesAgree(s, window, vs) /\ Compare(rows, s, s, window)[1] = 0
    /\ n >= 3 => TrendAgrees(s, window, vs)
    /\ n >= EnoughRows => \A sigma \in Sigmas : AnomaliesAgree(s, window, vs, sigma)
    /\ DetectStuck(rows, s, window) =>
         \A off \in Offs(vs) : Distribution(rows, s, 2, window, off) = <<window>>
    /\ \A period \in 2..window : MovingAverageAgrees(s, window, vs, period)

(* The endpoints that say whether a sensor is active agree, to the minute:  *)
(* each sensor is either active or inactive; an unhealthy fleet is one with *)
(* more sensors inactive than active; a sensor whose health is not stale is *)
(* active; it is stuck there when the stuck test finds its last readings    *)
(* equal; the rate counts the readings after the cutoff and those just at   *)
(* it; and a sensor with a rate is active, when readings were inserted in   *)
(* the order of their times.                                                *)
ActivityAgrees == AtRest =>
    LET active == ActiveSensors(rows, Sensors, Now)
        inactive == InactiveSensors(rows, Sensors, ActiveMinutes, Now)
    IN
    /\ active \cup inactive = Sensors /\ active \cap inactive = {}
    /\ \A uptodate \in 0..Cardinality(Sensors) :
         FleetStatus(Cardinality(Sensors), Cardinality(active), uptodate) = "unhealthy"
           <=> Cardinality(inactive) > Cardinality(active)
    /\ \A s \in Sensors :
         LET rs == Of(rows, s)
             health == SensorHealth(rows, s, Now)
         IN
         /\ s \in active <=> health \in {"healthy", "stuck"}
         /\ rs = <<>> <=> health = "no-data"
         /\ health = "stuck" <=>
              /\ s \in active /\ Len(rs) >= StuckRows
              /\ DetectStuck(rows, s, Min({Len(rs), HealthRows}))
         /\ LET cutoff == Now - ActiveMinutes IN
            SensorRate(rows, s, ActiveMinutes, Now) =
              Len(ReadingsWindow(rows, s, cutoff, Len(rows)))
                + Cardinality({i \in DOMAIN rs : rs[i].at = cutoff})
         /\ InTimeOrder(rs) =>
              (s \in active <=> SensorRate(rows, s, ActiveMinutes, Now) > 0)
         /\ rs # <<>> =>
              /\ LatestPerSensor(rows, Sensors)[s] = Last(ExportCsv(rows, s, Len(rs)))
              /\ InTimeOrder(rs) => ListReadings(rows, s, None, None, 1)[1].at
                                      = LatestReading(rows, s).at
=============================================================================
