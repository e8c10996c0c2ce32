----------------------------- MODULE MCRuntime -----------------------------
(* Parts of the process that run beside the requests, each on its own.     *)
(* Timers: two sleepers and one worker, whose queue holds one entry, so    *)
(* that the threads that dispatch timers have to resume coroutines         *)
(* themselves as well; a sleep due beyond MaxTime never ends by itself.    *)
(* The exporter: spans and measurements for a queue that holds two.        *)
EXTENDS Timers, OtlpExporter

CONSTANTS s1, s2, w, f1, c1, c2
VARIABLE part

MCSleepers == {s1, s2}
Plan(x, y) == [s \in MCSleepers |-> IF s = s1 THEN x ELSE y]
MCPlans == {Plan(1, 0), Plan(2, 0), Plan(1, 2)}

(* Beside the exporter the timers have nothing left to do, so that their   *)
(* fairness asks for nothing.                                              *)
MCInit ==
    \/ part = "timers" /\ TimersInit /\ ExporterInit
    \/ part = "exporter" /\ TimersBegin(MaxTime, "wait") /\ deadline = Plan(1, 0) /\ ExporterInit
MCNext ==
    \/ part = "timers" /\ TimersNext /\ UNCHANGED <<part, exportvars>>
    \/ part = "exporter" /\ ExporterNext /\ UNCHANGED <<part, timervars>>
MCSpec == MCInit /\ [][MCNext]_<<part, timervars, exportvars>> /\ TimersFairness

(* The fields of the scheduler, the executor and the exporter have their   *)
(* types and keep within their limits.                                     *)
RuntimeTypeOK == TimersTypeOK /\ ExporterTypeOK
=============================================================================
