------------------------ MODULE MCEnvelopeController ------------------------
(* Small instances of EnvelopeController: a ramp of each dimension, with   *)
(* budgets that are ample, exact, too small, and beyond Word.              *)
EXTENDS EnvelopeController, TLC

MaximaOf(cps, conc, pps, calls, duration, hold, tail) ==
    "callsPerSecond" :> cps @@ "concurrentCalls" :> conc
    @@ "mediaPacketsPerSecond" :> pps @@ "totalCalls" :> calls
    @@ "durationSeconds" :> duration @@ "holdSeconds" :> hold
    @@ "cooldownSeconds" :> 1 @@ "recoveryDeadlineSeconds" :> tail - 1

WorkloadOf(cps, conc, pps, call) ==
    "callsPerSecond" :> cps @@ "concurrentCalls" :> conc
    @@ "mediaPacketsPerSecond" :> pps @@ "callDurationSeconds" :> call

Ramp(m, w, dimension, step) ==
    [maxima |-> m, workload |-> w, dimension |-> dimension, step |-> step]

MCManifest ==
    { Ramp(MaximaOf(3, 1, 1, 20, 12, 3, 2), WorkloadOf(1, 1, 1, 4), "callsPerSecond", 1),
      Ramp(MaximaOf(4, 1, 1, 12, 9, 2, 2), WorkloadOf(1, 1, 1, 3), "callsPerSecond", 2),
      Ramp(MaximaOf(1, 4, 1, 9, 8, 2, 2), WorkloadOf(1, 1, 1, 1), "concurrentCalls", 1),
      Ramp(MaximaOf(1, 1, 9, 20, 7, 2, 2), WorkloadOf(1, 1, 3, 3), "mediaPacketsPerSecond", 3),
      Ramp(MaximaOf(1, 1, 29, 20, 9, 2, 2), WorkloadOf(1, 1, 9, 3), "mediaPacketsPerSecond", 20),
      Ramp(MaximaOf(1, 1, 19, 20, 9, 2, 2), WorkloadOf(1, 1, 9, 3), "mediaPacketsPerSecond", 10),
      Ramp(MaximaOf(2, 2, 1, 1, 9, 2, 2), WorkloadOf(1, 1, 1, 3), "callsPerSecond", 1) }

MCOverride ==
    {<<>>, "totalCalls" :> 12, "durationSeconds" :> 6, "callsPerSecond" :> 2,
     "totalCalls" :> 18 @@ "durationSeconds" :> 8, "durationSeconds" :> 2,
     "callsPerSecond" :> 5, "concurrentCalls" :> 2}
=============================================================================
