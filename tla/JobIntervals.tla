------------------------------ MODULE JobIntervals ------------------------------
(***************************************************************************)
(* When the jobs of a fetcher run: the intervals of a JobRunner, which a    *)
(* run may change, and the frequency a fetcher in a pool saves instead, as  *)
(* its runner stops after one run. A run is what it found, whether it       *)
(* failed and how long it took: [count, error, took]; times are in          *)
(* milliseconds.                                                            *)
(***************************************************************************)
EXTENDS Integers, Sequences, SequencesExt

Undefined == -3
Reset == -1
Unbounded == 2000000          (* Number.MAX_SAFE_INTEGER, POSITIVE_INFINITY *)
RetryTime == 1000

Lesser(a, b) == IF a < b THEN a ELSE b
Greater(a, b) == IF a > b THEN a ELSE b
Default(value, default) == IF value = Undefined THEN default ELSE value

(* JobRunner.parseOptions: what run is given goes before what the runner    *)
(* was made with.                                                           *)
ParseOptions(options, intervalInit) ==
  [interval |-> options.interval,
   intervalInit |-> Default(intervalInit, options.interval),
   intervalMax |-> Default(options.intervalMax, Unbounded)]

(* The interval after a run that returned newInterval; 0 is for none.       *)
NextInterval(options, interval, newInterval) ==
  CASE newInterval \in {0, Undefined} -> Lesser(interval, options.intervalMax)
    [] newInterval = Reset -> options.interval
    [] OTHER -> Lesser(newInterval, options.intervalMax)

(* Mutant: a run that failed is not repeated before the interval is over. *)
SleepsOn(interval, run) == Greater(0, interval - run.took)

(* With intervalAccuracy, as every fetcher has it.                          *)
SleepTime(interval, run) ==
  IF run.error THEN RetryTime ELSE Greater(0, interval - run.took)

(* The loop of JobRunner.run: a step is a run and the sleep after it.       *)
JobStep(options, job, run, newInterval) ==
  LET interval == IF run.error THEN job.interval
                  ELSE NextInterval(options, job.interval, newInterval)
  IN [interval |-> interval, at |-> job.at + run.took + SleepTime(interval, run)]
-----------------------------------------------------------------------------
(* calculateNewInterval of Solana's accounts: the interval that would have  *)
(* found ForwardRatio signatures.                                           *)
ForwardRatio == 80
ForwardRatioThreshold == 100

CalculateNewInterval(count, interval) ==
  LET atLeast == Greater(interval, 1000)
  IN IF count > ForwardRatioThreshold THEN Reset
     ELSE IF count > 0 THEN (atLeast * ForwardRatio) \div count
     ELSE atLeast * 2

(* fetchForward: a run that failed at once says nothing of the account.     *)
NewInterval(options, interval, run) ==
  IF options.autoInterval /\ (~run.error \/ run.count > 0)
  THEN CalculateNewInterval(run.count, interval)
  ELSE interval

(* initJobsFrequencyState: jobs without an initial interval have none.      *)
InitFrequency(options, saved) ==
  IF options.intervalInit = Undefined THEN Undefined ELSE Default(saved, options.intervalInit)

(* _runJob: the frequency is kept by a run that resets the interval.        *)
UpdateFrequency(options, frequency, newInterval) ==
  IF newInterval > 0 /\ frequency # Undefined
  THEN Lesser(newInterval, IF options.intervalMax \in {0, Undefined} THEN newInterval
                           ELSE options.intervalMax)
  ELSE frequency

(* getNextRun *)
NextRun(options, lastRun, frequency) ==
  lastRun + IF frequency \in {0, Undefined} THEN options.interval ELSE frequency

(* A run in a pool: if it does not fail, its job is over, and the next one  *)
(* begins when it is due, with the frequency that was saved.                *)
PoolStep(options, pool, run) ==
  LET newInterval == NewInterval(options, pool.job.interval, run)
      frequency == UpdateFrequency(options, pool.frequency, newInterval)
      parsed == ParseOptions(options, frequency)
      next == [interval |-> parsed.intervalInit,
               at |-> Greater(pool.job.at + run.took,
                              NextRun(options, pool.job.at, frequency))]
  IN [frequency |-> frequency,
      job |-> IF run.error THEN JobStep(parsed, pool.job, run, newInterval) ELSE next]

(* What is left of it when the process restarts: the cursors were saved     *)
(* with the frequency.                                                      *)
Start(options, saved) ==
  LET frequency == InitFrequency(options, saved)
  IN [frequency |-> frequency,
      job |-> [interval |-> ParseOptions(options, frequency).intervalInit, at |-> 0]]

InPool(options, runs) ==
  FoldLeft(LAMBDA pool, run : PoolStep(options, pool, run), Start(options, Undefined), runs)

(* The same runs by one runner that is not in a pool.                       *)
Alone(options, runs) ==
  FoldLeft(LAMBDA job, run :
             JobStep(ParseOptions(options, options.intervalInit), job, run,
                     NewInterval(options, job.interval, run)),
           Start(options, Undefined).job, runs)
=============================================================================
