----------------------------- MODULE AnalysisClaims -----------------------------
(***************************************************************************)
(* What the algorithms of the analyses promise, each compared with a       *)
(* reference definition or with the validation of the object it builds,    *)
(* over all the inputs of a bounded set.  MC_SweepRunner assumes them, so  *)
(* that TLC evaluates every one before it explores the sweep.              *)
(***************************************************************************)
EXTENDS Integers, Sequences, FiniteSets

Quality == INSTANCE MeasurementQuality
Fit == INSTANCE DCSweepAnalysis
Cycle == INSTANCE HysteresisAnalysis
Calibration == INSTANCE CalibrationAnalysis
Response == INSTANCE FrequencyResponseAnalysis
Criteria == INSTANCE AcceptanceCriteria

SeqsUpTo(S, n) == UNION {[1..k -> S] : k \in 0..n}

\* a record of a channel; what no claim tells apart is fixed
Record(id, channel, unit, number, value, status, flags) ==
    [id |-> id, raw |-> id, source |-> "hardware", channel |-> channel,
     unit |-> unit, number |-> number, value |-> value, status |-> status,
     flags |-> flags]

--------------------------------------------------------------------------------
(* Quality *)

\* the values, statuses and flags that a Measurement may have together
Qualities ==
    {q \in [value : {"missing", "nonfinite", "finite"}, status : Quality!Status,
            flags : SUBSET Quality!QualityFlag] : Quality!Consistent(q)}

Measured(q, unit, number) ==
    Record("r", "input", unit, number, q.value, q.status, q.flags)

(* Whatever the policy allows, a measurement that exists is decided        *)
(* without an error: the decision passes its own validation.               *)
DecisionsAccepted ==
    \A q \in Qualities : \A allowed \in Quality!AllowedFlags :
        LET m == Measured(q, "mV", 1)
        IN  /\ Quality!DecisionAccepted(Quality!Assess(m, allowed, "V"), allowed)
            /\ Response!FrequencyDecisionAccepted(
                    Response!AssessFrequency(m, allowed), allowed)

(* A measurement counts exactly when it has a number and every doubt about *)
(* it is one that the policy allows; an INVALID one never counts.          *)
OnlyAllowedDoubtsIncluded ==
    \A q \in Qualities : \A allowed \in Quality!AllowedFlags :
        (Quality!Assess(Measured(q, "V", 1), allowed, "V").disposition = "INCLUDED")
            <=> q.value = "finite" /\ q.status # "INVALID" /\ q.flags \subseteq allowed

(* Two voltages compare alike in whatever unit they came and are wanted.   *)
UnitsDoNotMatter ==
    \A target \in {"V", "mV"} : \A a, b \in -2..2 :
        LET norm(v, unit) == Quality!NormalizeVoltage(v, unit, target)
        IN  /\ norm(a, "V") = norm(1000 * a, "mV")
            /\ a < b <=> norm(a, "V") < norm(b, "V")

--------------------------------------------------------------------------------
(* DC sweep and calibration *)

\* a few qualities that differ in what becomes of them
Good == [value |-> "finite", status |-> "VALID", flags |-> {}]
Doubtful == [value |-> "finite", status |-> "SUSPECT", flags |-> {"TIME_ANOMALY"}]
Wrong == [value |-> "finite", status |-> "INVALID", flags |-> {"DEVICE_FAULT"}]
Lost == [value |-> "missing", status |-> "INVALID", flags |-> {"MISSING"}]
FewQualities == {Good, Doubtful, Wrong, Lost}

Of(q, id, channel, number) ==
    Record(id, channel, "V", number, q.value, q.status, q.flags)

Config(allowed, minimum) ==
    [allowed |-> allowed, unit |-> "V", low |-> 0, high |-> 3000,
     minimum |-> minimum]

(* Every pair of records gives a point that passes its own validation, and *)
(* a saturated output never enters the fit.                                *)
PointsAccepted ==
    \A q, r \in FewQualities : \A x, y \in -1..4 : \A allowed \in {{}, {"TIME_ANOMALY"}} :
        LET p == Fit!ClassifyPoint([input |-> Of(q, 1, "input", x),
                                    output |-> Of(r, 2, "output", y)],
                                   Config(allowed, 2))
        IN  Fit!PointAccepted(p)
            /\ p.disposition = "INCLUDED" => y \in 1..2

(* However the records of the two channels are interleaved, an accepted    *)
(* batch is paired so that every record is in exactly one pair and the     *)
(* records of a channel keep their order.                                  *)
EveryRecordPairedOnce ==
    \A channels \in SeqsUpTo({"input", "output"}, 6) :
        LET ms == [i \in DOMAIN channels |-> Of(Good, i, channels[i], i)]
            pairs == Fit!Pairs(ms)
        IN  ~Fit!PairingRefused(ms) =>
                /\ 2 * Len(pairs) = Len(ms)
                /\ {pairs[k].input.id : k \in DOMAIN pairs}
                      \cup {pairs[k].output.id : k \in DOMAIN pairs} = DOMAIN ms
                /\ \A k \in 1..Len(pairs) - 1 :
                      /\ pairs[k].input.id < pairs[k + 1].input.id
                      /\ pairs[k].output.id < pairs[k + 1].output.id

\* the inputs and outputs of a fit that is not refused as lacking variation
Samples ==
    {s \in [x : SeqsUpTo(0..2, 3), y : SeqsUpTo(0..2, 3)] :
        Len(s.x) = Len(s.y) /\ Len(s.x) >= 2}

(* The check for two distinct inputs is just what the division needs.      *)
GapGuardsDivision ==
    \A s \in Samples :
        LET points == [i \in DOMAIN s.x |->
                          [disposition |-> "INCLUDED", input |-> [value |-> <<s.x[i]>>]]]
        IN  Fit!NoGain(s.x)
                <=> "distinct-input-values" \in Fit!MissingForFit(points, Config({}, 2))

(* The fitted line is the line of least squares: its residuals sum to zero *)
(* and are orthogonal to the inputs, and no other line with coefficients   *)
(* in a grid of halves has a smaller sum of squares.                       *)
FitIsLeastSquares ==
    \A s \in {z \in Samples : ~Fit!NoGain(z.x)} :
        LET n == Len(s.x)
            d == Fit!Deviations(s.x, s.x)
            e == Fit!Residuals(s.x, s.y)
            \* four times the sum of squares about the line a/2 * x + b/2
            squares(a, b) ==
                LET off == [i \in DOMAIN s.x |-> 2 * s.y[i] - a * s.x[i] - b]
                IN  Fit!Total(Fit!Products(off, off))
        IN  /\ Fit!Total(e) = 0
            /\ Fit!Total(Fit!Products(e, s.x)) = 0
            /\ \A a \in -2..2, b \in -1..4 :
                  4 * Fit!ResidualSquares(s.x, s.y) <= n * n * d * squares(a, b)

(* Without rounding r squared lies between 0 and 1: clamping it can hide   *)
(* no more than rounding.                                                  *)
ClampOnlyRounds ==
    \A s \in {z \in Samples : ~Fit!NoGain(z.x)} :
        Fit!RSquaredTimesTotal(s.x, s.y) \in 0..Fit!TotalSquares(s.x, s.y)

(* On the points it was fitted to, a calibration never makes the sum of    *)
(* squared errors larger.                                                  *)
CalibrationNeverWorsens ==
    \A s \in {z \in Samples : ~Fit!NoGain(z.x)} :
        Calibration!SquaresAfter(s.x, s.y) <= Calibration!SquaresBefore(s.x, s.y)

(* A record is calibrated exactly when it counts, and then passes for a    *)
(* measurement of its own with the lineage of the record it comes from.    *)
AppliedPointsAccepted ==
    \A q \in Qualities : \A allowed \in {{}, {"TIME_ANOMALY"}, {"SATURATED"}} :
        LET m == Of(q, 1, "observed", 1)
        IN  Calibration!AppliedAccepted(
                m, Calibration!Applied(m, Config(allowed, 2), 7))

--------------------------------------------------------------------------------
(* Hysteresis *)

Plans ==
    {p \in [rising : {<<0, 1>>, <<0, 1, 2>>}, falling : {<<1, 0>>, <<2, 1, 0>>},
            cycles : 1..3] : Cycle!PlanAccepted(p)}

(* The batches cut from the records of a run: every record is in one leg   *)
(* of one cycle, and each leg got the setpoints planned for it.            *)
LegsGetTheirSetpoints ==
    \A plan \in Plans :
        LET steps == Cycle!PlannedSetpoints(plan)
            ms == [i \in 1..2 * Len(steps) |-> <<i, steps[(i + 1) \div 2]>>]
            cut == Cycle!CycleInputs(plan, ms)
            joined[c \in 0..plan.cycles] ==
                IF c = 0 THEN <<>>
                ELSE joined[c - 1] \o cut[c].rising \o cut[c].falling
            given(leg) == [k \in 1..Len(leg) \div 2 |-> leg[2 * k][2]]
        IN  /\ joined[plan.cycles] = ms
            /\ \A c \in DOMAIN cut :
                  given(cut[c].rising) = plan.rising /\ given(cut[c].falling) = plan.falling

\* a point of a leg, from an input and a state record
Leg(qualities, numbers, states) ==
    [i \in 1..2 * Len(numbers) |->
        LET k == (i + 1) \div 2
        IN  IF i % 2 = 1 THEN Of(qualities[k][1], i, "input", numbers[k])
            ELSE [Of(qualities[k][2], i, "state", states[k]) EXCEPT !.unit = "bool"]]

(* Every pair of an input and a state gives a point that passes its own    *)
(* validation, whatever the policy allows for the input.                   *)
LegPointsAccepted ==
    \A q, r \in Qualities : \A allowed \in {{}, {"TIME_ANOMALY"}} :
        LET leg == Leg(<<<<q, r>>, <<Good, Good>>>>, <<1, 2>>, <<0, 1>>)
        IN  ~Cycle!LegRefused(leg) =>
                \A p \in {Cycle!LegPoints(leg, Config(allowed, 2))[k] : k \in {1, 2}} :
                    Cycle!LegPointAccepted(p)

\* the legs of usable points
Legs(n) ==
    {Cycle!LegPoints(Leg([k \in 1..n |-> <<Good, Good>>], x, b), Config({}, 2)) :
        x \in [1..n -> 1..3], b \in [1..n -> {0, 1}]}

(* A leg has a threshold exactly when its inputs are in order and its      *)
(* states are first all the one and then all the other; the threshold then *)
(* lies between the last input before and the first one after.             *)
OneCleanTransition ==
    \A points \in Legs(2) \cup Legs(3) \cup Legs(4) : \A d \in Cycle!Direction :
        LET has == ~Cycle!TransitionRefused(points, d)
                        /\ Cycle!TransitionMissing(points, d) = {}
            clean(k) == \A j \in DOMAIN points :
                            points[j].state = Cycle!Before(d) <=> j < k
        IN  /\ has <=> Cycle!Monotone(points, d)
                          /\ \E k \in 2..Len(points) : clean(k)
            /\ has => \E k \in 2..Len(points) :
                          clean(k) /\ Cycle!Threshold(points)
                                      = Cycle!InputAt(points, k - 1) + Cycle!InputAt(points, k)

(* The rounded mean of three equal widths may fall below them all, and the *)
(* summary then refuses itself; with one or two cycles it cannot.          *)
RoundedMeanMayLeaveItsBounds ==
    /\ ~Cycle!SummaryAccepted(<<6, 6, 6>>, Cycle!FMean(<<6, 6, 6>>, 3))
    /\ \A bits \in 2..5 : \A n \in {1, 2} :
          \A w \in [1..n -> 2 ^ (bits - 1)..2 ^ bits - 1] :
              Cycle!SummaryAccepted(w, Cycle!FMean(w, bits))

--------------------------------------------------------------------------------
(* Frequency response *)

GainSeqs == UNION {[1..n -> -2..2] : n \in 2..5}

(* The crossings are those of the reference definition, each once and in   *)
(* order: a point on the target, or the change of sign between two.  The   *)
(* one exception is the last point of a plateau that ends the sweep.       *)
CrossingsFoundOnce ==
    \A gains \in GainSeqs :
        LET n == Len(gains)
            found == Response!Crossings(gains, 0)
            touching == {k \in 1..n : gains[k] = 0
                                      /\ ~(k = n /\ gains[n - 1] = 0)}
            between == {k \in 1..n - 1 : gains[k] * gains[k + 1] < 0}
        IN  /\ {found[i] : i \in DOMAIN found}
                  = {2 * k : k \in touching} \cup {2 * k + 1 : k \in between}
            /\ \A i \in 1..Len(found) - 1 : found[i] < found[i + 1]

(* A cutoff is found exactly when some gain has fallen to its target: a    *)
(* sweep that goes far enough is never left without a crossing.            *)
DropIsFound ==
    \A gains \in GainSeqs : \A drop \in 1..3 :
        LET target == Response!CutoffTarget(gains, drop)
        IN  (Response!Crossings(gains, target) # <<>>)
                <=> \E k \in DOMAIN gains : gains[k] <= target

(* A response is analysed only when every record of every point counts.    *)
ResponseNeedsEveryPoint ==
    \A q \in [1..3 -> [1..3 -> {Good, Doubtful, Lost}]] :
        LET point(k) == Response!ResponsePoint(
                            [Of(q[k][1], 1, "f", k) EXCEPT !.unit = "Hz"],
                            Of(q[k][2], 2, "i", 1), Of(q[k][3], 3, "o", 1),
                            Config({}, 2))
        IN  (Response!MissingForResponse([k \in 1..3 |-> point(k)], 2) = {})
                <=> \A k, i \in 1..3 : q[k][i] = Good

--------------------------------------------------------------------------------
(* Criteria *)

Analyses ==
    [unit : {"V"}, missing : SUBSET {"gap"}, size : 0..3, actual : [{"A", "B"} -> 0..3]]

SomeCriteria ==
    [unit : {"V"}, minimum : 1..3,
     limits : [{"A"} -> {Criteria!AtMost(1), Criteria!AtLeast(2)}]
              \cup [{"A", "B"} -> {Criteria!Within(1, 2), Criteria!AtMost(2)}]]

(* Every derived result passes the validation of a TestRunResult, and PASS *)
(* is earned: no gap, enough points and every limit kept.                  *)
ResultsEarned ==
    \A a \in Analyses : \A criteria \in {{}} \cup {{c} : c \in SomeCriteria} :
        LET result == Criteria!Derive(a, criteria)
        IN  /\ Criteria!TestRunAccepted(result, 1)
            /\ result.outcome = "PASS"
                  <=> /\ a.missing = {}
                      /\ \E c \in criteria : Criteria!AllPassed(a, c)

(* Criteria that ask no more keep a PASS.                                  *)
LooserKeepsPass ==
    \A a \in Analyses : \A c, d \in SomeCriteria :
        /\ Criteria!Looser(d, c)
        /\ Criteria!Derive(a, {c}).outcome = "PASS"
        => Criteria!Derive(a, {d}).outcome = "PASS"

================================================================================
