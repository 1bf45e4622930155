----------------------------- MODULE VicunaProcess --------------------------
(***************************************************************************)
(* vicuna.py and the analyzer it starts.                                   *)
(*                                                                         *)
(* The script checks its arguments, starts the analyzer in a session of    *)
(* its own with both outputs going to pipes, waits for it up to a time     *)
(* limit, and prints one of three reports: the analyzer's summary, that it *)
(* failed, or that it ran out of time.  The analyzer computes for as long  *)
(* as it likes, and its writes wait while a pipe is full.                  *)
(***************************************************************************)
EXTENDS Naturals, Sequences, FiniteSets

CONSTANTS
  Jobs,      \* what an analysis writes: sequences over {"out", "err"}
  Capacity,  \* writes a pipe holds
  Timeout    \* the time limit (-timeout)

ASSUME ProcessAssumption ==
  /\ Jobs \subseteq Seq({"out", "err"})
  /\ Capacity \in Nat \ {0}
  /\ Timeout \in Nat

VARIABLES
  stage,    \* of the script: "start", "wait", "kill", "read", "print", "ended"
  args,     \* its arguments
  outlet,   \* where its report goes
  report,   \* the report it is about to print, and what it has read for it
  printed,  \* the report it has printed, "none" before
  status,   \* its exit status
  clock,    \* time since the analyzer was started
  child,    \* the analyzer: "none", "running", "exited", "killed"
  job,      \* what it will write
  todo,     \* the part it has not written yet
  code,     \* its exit code
  signal,   \* SIGTERM is on its way
  pipe      \* writes waiting in each pipe

script      == <<stage, report, printed, status>>
analyzer    == <<child, todo, code, signal>>
given       == <<args, outlet, job>>
processVars == <<script, clock, analyzer, pipe, given>>

Streams == {"out", "err"}
ReportKinds   == {"none", "message", "empty", "summary", "ice", "timeout"}

\* Nothing is read yet.
Nothing == [s \in Streams |-> 0]

Written(s) == Cardinality({ i \in DOMAIN job : job[i] = s })

-----------------------------------------------------------------------------
(* The script.                                                             *)

Stop(kind, exit) ==
  /\ stage' = "ended"
  /\ printed' = kind
  /\ status' = exit
  /\ UNCHANGED report

\* exit(1) for malformed arguments, exit(0) for a dry run
RefuseArguments ==
  /\ stage = "start"
  /\ args \in {"malformed", "dryrun"}
  /\ Stop("message", IF args = "malformed" THEN 1 ELSE 0)
  /\ UNCHANGED <<clock, analyzer, pipe, given>>

\* (mutant) the script ends with the exit code of the analyzer
OutputResultWithCode == Stop(report.kind, code)

\* Only a refused permission is caught, a full disk is not.
OutputResult ==
  CASE outlet \in {"stdout", "writable"} -> Stop(report.kind, 0)
    [] outlet = "denied"                 -> Stop("none", 0)
    [] outlet = "full"                   -> Stop("none", 1)

Publish ==
  /\ stage = "print"
  /\ OutputResult
  /\ UNCHANGED <<clock, analyzer, pipe, given>>

\* No C file and no external function.
NothingToDo ==
  /\ stage = "start"
  /\ args = "empty"
  /\ stage' = "print"
  /\ report' = [kind |-> "empty", text |-> Nothing]
  /\ UNCHANGED <<printed, status, clock, analyzer, pipe, given>>

Popen ==
  /\ stage = "start"
  /\ args = "project"
  /\ stage' = "wait"
  /\ child' = "running"
  /\ UNCHANGED <<report, printed, status, clock, todo, code, signal, pipe, given>>

\* (mutant) the script waits for the analyzer only
WaitExpiresNever == FALSE

WaitExpires == clock >= Timeout

\* proc.wait returns, or gives up
Wait ==
  /\ stage = "wait"
  /\ \/ child # "running" /\ stage' = "read"
     \/ WaitExpires /\ stage' = "kill"
  /\ UNCHANGED <<report, printed, status, clock, analyzer, pipe, given>>

\* (mutant) only the report, no signal
KillNothing == UNCHANGED signal

\* os.killpg: nothing happens to an analyzer that has just exited
Killpg == signal' = (child = "running")

GiveUp ==
  /\ stage = "kill"
  /\ Killpg
  /\ stage' = "print"
  /\ report' = [kind |-> "timeout", text |-> Nothing]
  /\ UNCHANGED <<printed, status, clock, child, todo, code, pipe, given>>

\* (mutant) any exit is a success
SucceededAlways == TRUE

Succeeded == code \in {0, 1}

\* The output is read once the analyzer is gone.
Read ==
  /\ stage = "read"
  /\ stage' = "print"
  /\ report' = IF Succeeded THEN [kind |-> "summary", text |-> [pipe EXCEPT !["err"] = 0]]
                            ELSE [kind |-> "ice", text |-> pipe]
  /\ pipe' = IF Succeeded THEN [pipe EXCEPT !["out"] = 0] ELSE Nothing
  /\ UNCHANGED <<printed, status, clock, analyzer, given>>

Script == RefuseArguments \/ NothingToDo \/ Popen \/ Wait \/ GiveUp \/ Read \/ Publish

-----------------------------------------------------------------------------
(* The analyzer and the clock.                                             *)

Blocked == child = "running" /\ todo # <<>> /\ pipe[Head(todo)] = Capacity

\* Writing to a pipe nobody can read any more kills the writer.
Write ==
  /\ child = "running"
  /\ todo # <<>>
  /\ IF stage = "ended"
       THEN child' = "killed" /\ UNCHANGED <<todo, pipe>>
       ELSE /\ ~Blocked
            /\ pipe' = [pipe EXCEPT ![Head(todo)] = @ + 1]
            /\ todo' = Tail(todo)
            /\ UNCHANGED child
  /\ UNCHANGED <<script, clock, code, signal, given>>

\* It ends with a report: 0 if no alarm was raised, 1 if some were.
Complete ==
  /\ child = "running"
  /\ todo = <<>>
  /\ child' = "exited"
  /\ code' \in {0, 1}
  /\ UNCHANGED <<script, clock, todo, signal, pipe, given>>

\* It panics (2), or cannot parse the sources (3), wherever it is.
Fail ==
  /\ child = "running"
  /\ ~Blocked
  /\ child' = "exited"
  /\ code' \in {2, 3}
  /\ UNCHANGED <<script, clock, todo, signal, pipe, given>>

Die ==
  /\ child = "running"
  /\ signal
  /\ child' = "killed"
  /\ UNCHANGED <<script, clock, todo, code, signal, pipe, given>>

Tick ==
  /\ stage \in {"wait", "kill"}
  /\ clock < Timeout
  /\ clock' = clock + 1
  /\ UNCHANGED <<script, analyzer, pipe, given>>

-----------------------------------------------------------------------------
ProcessInit ==
  /\ stage = "start"
  /\ args \in {"malformed", "dryrun", "empty", "project"}
  /\ outlet \in {"stdout", "writable", "denied", "full"}
  /\ report = [kind |-> "none", text |-> Nothing]
  /\ printed = "none"
  /\ status = 0
  /\ clock = 0
  /\ child = "none"
  /\ job \in Jobs
  /\ todo = job
  /\ code = 0
  /\ signal = FALSE
  /\ pipe = Nothing

ProcessNext == Script \/ Write \/ Complete \/ Fail \/ Die \/ Tick

\* The system runs the script and its clock and delivers signals.  Nothing
\* obliges the analyzer to go on: an analysis may take for ever.
ProcessSpec == ProcessInit /\ [][ProcessNext]_processVars /\ WF_processVars(Script) /\ WF_processVars(Tick) /\ WF_processVars(Die)

-----------------------------------------------------------------------------
(* Properties.                                                             *)

ProcessTypeOK ==
  /\ stage \in {"start", "wait", "kill", "read", "print", "ended"}
  /\ report \in [kind : ReportKinds, text : [Streams -> Nat]]
  /\ printed \in ReportKinds
  /\ status \in {0, 1}
  /\ clock \in 0 .. Timeout
  /\ child \in {"none", "running", "exited", "killed"}
  /\ code \in 0 .. 3
  /\ signal \in BOOLEAN
  /\ pipe \in [Streams -> 0 .. Capacity]
  /\ todo \in Seq(Streams)
  /\ outlet \in {"stdout", "writable", "denied", "full"}

\* A summary is all that an analysis that came to its end has written: no report
\* of one that failed half-way passes for a summary (vicuna.py 305-314).
SummaryIsWhole ==
  printed = "summary" => report.text["out"] = Written("out") /\ todo = <<>>

\* The script always ends, even on an analysis that never does
\* (vicuna.py 297-302).
ScriptEnds == <>(stage = "ended")

\* No analyzer outlives the script for ever, wherever it was when the time was
\* up: computing, waiting for a pipe, or just about to exit (vicuna.py 295-302).
NothingLeftRunning == stage = "ended" ~> child # "running"

\* A timeout is reported of an analysis that was still computing: it could not
\* be completed in time (vicuna.py 227).
TimeoutIsReal == stage = "kill" => ~Blocked
=============================================================================
