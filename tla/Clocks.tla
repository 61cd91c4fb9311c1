--------------------------------- MODULE Clocks ---------------------------------
(***************************************************************************)
(* The calibration of the time-stamp counter on one processor              *)
(* (utils/tsc.hpp, utils/cpu_affinity_manager.hpp) and the stopwatch       *)
(* (utils/stopwatch.hpp).  The samples of a calibration may be any; the    *)
(* mean and the squared deviation are exact rationals.  The clock of the   *)
(* stopwatch may be set back.                                              *)
(***************************************************************************)
EXTENDS Welford, FiniteSets

CONSTANTS Cpus,         \* the processors
          CyclesPerMs,  \* what a measurement may give
          Measurements, \* nsamples
          TicksPerUnit, \* of the clock in one of the stopwatch, which is 1 if it is as fine
          MaxTime,      \* bound of the clock
          MaxLaps       \* bound on the laps between two resets

ASSUME ClocksAssumption ==
    /\ CyclesPerMs \subseteq Nat \ {0} /\ Measurements \in Nat \ {0, 1}
    /\ TicksPerUnit \in Nat \ {0} /\ MaxTime \in Nat

VARIABLES
    allowed,    \* the processors that the system lets the thread run on
    mask,       \* the affinity of the thread
    original,   \* original_mask_ of the manager, {} when there is none
    calibrating,\* "no", "measuring"; "failed" when it threw, "trapped" when it divided by zero
    measured,   \* cycles_per_msec, the samples
    running,    \* mean and stddev of the loop, with the number of samples
    cycles,     \* what tsc::get_optional() has, {} before a calibration
    now,        \* the clock
    watch,      \* the stopwatch: start_time_ and last_lap_time_
    laps        \* the laps since its last reset, in its units

tscVars   == <<allowed, mask, original, calibrating, measured, running, cycles>>
watchVars == <<now, watch, laps>>
clocksVars == <<tscVars, watchVars>>

\* pthread_setaffinity_np refuses a mask without an allowed processor.
Accepted(m) == m \cap allowed # {}

-----------------------------------------------------------------------------
(* The counter. *)

ClocksInit ==
    /\ allowed \in SUBSET Cpus \ {{}} /\ mask = allowed /\ original = {}
    /\ calibrating = "no" /\ measured = <<>> /\ running = EmptySummary /\ cycles = {}
    /\ now = 0 /\ watch = [start |-> 0, lastLap |-> 0] /\ laps = <<>>

ClocksIdle ==
    /\ allowed = Cpus /\ mask = Cpus /\ original = {}
    /\ calibrating = "no" /\ measured = <<>> /\ running = EmptySummary /\ cycles = {}
    /\ now = 0 /\ watch = [start |-> 0, lastLap |-> 0] /\ laps = <<>>

\* calibrate(cpuid) moves the thread to that processor, or to a random one;
\* when it may not run there the manager's constructor throws.
StartCalibration ==
    /\ calibrating = "no"
    /\ \E cpu \in Cpus :
          IF Accepted({cpu})
          THEN mask' = {cpu} /\ original' = mask /\ calibrating' = "measuring"
          ELSE calibrating' = "failed" /\ UNCHANGED <<mask, original>>
    /\ measured' = <<>> /\ running' = EmptySummary
    /\ UNCHANGED <<allowed, cycles, watchVars>>

\* One measurement; a sample that is the mean leaves it and the deviation.
Measure ==
    /\ calibrating = "measuring" /\ Len(measured) < Measurements
    /\ \E cpm \in CyclesPerMs :
          /\ measured' = Append(measured, cpm)
          /\ running' = Added(running, cpm)
    /\ UNCHANGED <<allowed, mask, original, calibrating, cycles, watchVars>>

\* Whether a sample is nearer to the mean than the standard deviation: its
\* square is compared.
NearMean(cpm) ==
    LET d == Minus(Rational(cpm), running.mean)
        square == Times(d, d)
        variance == DividedBy(running.m2, Measurements - 1)
    IN  square[1] * variance[2] < variance[1] * square[2]

\* The mean of the samples without outliers, rounded down.
WithoutOutliers ==
    LET count == IntegerSum([i \in 1 .. Len(measured) |-> IF NearMean(measured[i]) THEN 1 ELSE 0])
        sum   == IntegerSum([i \in 1 .. Len(measured) |-> IF NearMean(measured[i]) THEN measured[i] ELSE 0])
    IN  IF count = 0 THEN {} ELSE {sum \div count}

\* The destructor of the manager sets the affinity back.
RestoredMask_Never == mask
RestoredMask       == original

FinishCalibration ==
    /\ calibrating = "measuring" /\ Len(measured) = Measurements
    /\ IF WithoutOutliers = {} THEN calibrating' = "trapped" /\ UNCHANGED <<mask, original, cycles>>
       ELSE /\ calibrating' = "no"
            /\ cycles' = WithoutOutliers
            /\ mask' = RestoredMask
            /\ original' = {}
    /\ UNCHANGED <<allowed, measured, running, watchVars>>

\* The caller of a calibration that threw goes on.
GiveUp ==
    /\ calibrating = "failed" /\ calibrating' = "no"
    /\ UNCHANGED <<allowed, mask, original, measured, running, cycles, watchVars>>

-----------------------------------------------------------------------------
(* The stopwatch. *)

\* The clock may be set, forward and back.
Tick ==
    /\ now' \in 0 .. MaxTime
    /\ UNCHANGED <<watch, laps, tscVars>>

\* duration_cast of some ticks cuts off what is less than a unit.
duration_cast(d) == IF d < 0 THEN -((-d) \div TicksPerUnit) ELSE d \div TicksPerUnit

get == duration_cast(now - watch.start)

\* reset() and get_and_reset() set both times to one reading of the clock.
ResetWatch ==
    /\ watch' = [start |-> now, lastLap |-> now] /\ laps' = <<>>
    /\ UNCHANGED <<now, tscVars>>

\* A lap begins at the reading of the clock that ended the last one.
LapTime ==
    /\ Len(laps) < MaxLaps
    /\ laps' = Append(laps, duration_cast(now - watch.lastLap))
    /\ watch' = [watch EXCEPT !.lastLap = now]
    /\ UNCHANGED <<now, tscVars>>

TscNext       == StartCalibration \/ Measure \/ FinishCalibration \/ GiveUp
StopwatchNext == Tick \/ ResetWatch \/ LapTime

ClocksSpec == ClocksInit /\ [][TscNext \/ StopwatchNext]_clocksVars

-----------------------------------------------------------------------------
(* Properties. *)

\* A calibration traps only when all samples were the same; else it gives a
\* number between the smallest and the largest of them, and afterwards, also
\* when it threw, the thread may run where it might before (tsc.hpp:101-126,
\* cpu_affinity_manager.hpp:20-30).
CalibrationSound ==
    LET range == {measured[i] : i \in 1 .. Len(measured)}
    IN  /\ calibrating = "trapped" => Cardinality(range) = 1
        /\ calibrating \in {"no", "failed"} => mask = allowed /\ original = {}
        /\ calibrating = "no" /\ Len(measured) = Measurements =>
              \A c \in cycles : \E low, high \in range : low <= c /\ c <= high
        /\ Describes(running, measured)

\* Some units are so many ticks but for n roundings, each by less than a unit.
Rounded(units, ticks, n) ==
    LET error == units * TicksPerUnit - ticks
        most  == n * (TicksPerUnit - 1)
    IN  -most <= error /\ error <= most

\* The laps since a reset follow each other without a gap, up to the last, and
\* at its end add up to what get() says, but for the rounding of each of them:
\* it is never carried into the next lap, also if the clock is set back in
\* between (stopwatch.hpp:23-37).
LapsPartition ==
    /\ Rounded(IntegerSum(laps), watch.lastLap - watch.start, Len(laps))
    /\ now = watch.lastLap => Rounded(get - IntegerSum(laps), 0, Len(laps) + 1)

\* Summaries, calibrations and laps tell what was measured.
MeasurementsSound == SummariesExact /\ CalibrationSound /\ LapsPartition

=============================================================================
