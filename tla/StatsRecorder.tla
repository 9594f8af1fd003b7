-------------------------- MODULE StatsRecorder --------------------------
(***************************************************************************)
(* heyp/stats/recorder.cc with the NdjsonLogger it writes through          *)
(* (heyp/proto/ndjson-logger.cc, fileio.cc).  The caller's thread records  *)
(* requests and ends steps; the record of a step is written by the one     *)
(* thread of the recorder's executor, in a task group of its own, and the  *)
(* next step or Close waits for that group.                                *)
(*                                                                         *)
(* A histogram is the set of the requests recorded in it.                  *)
(***************************************************************************)
EXTENDS Integers, Sequences, FiniteSets, SequencesExt

CONSTANTS MaxRpcs,   \* how many requests are recorded at most
          MaxSteps,  \* how many steps are ended at most
          Junk       \* what an uninitialized counter may hold

VARIABLES
  cum,        \* cum_num_rpcs_, uninitialized (cum_num_bits_ goes with it)
  prev_cum,   \* prev_cum_num_rpcs_, uninitialized as well
  rpcs,       \* how many requests were recorded (the ids of the samples)
  hist,       \* latency_hists_
  started,    \* started_
  steps,      \* steps ended so far
  bounds,     \* the value of rpcs at the end of each step (history)
  task,       \* what the executor's thread still has to write, or Nothing
  file,       \* the lines of the file
  open,       \* the file descriptor is open
  write_status, \* "ok", or "failed" once a write has failed
  closed      \* what Close returned: "no" before it

vars == <<cum, prev_cum, rpcs, hist, started, steps, bounds, task, file, open,
          write_status, closed>>

Nothing == [label |-> 0, rpcs |-> 0, hist |-> {}]

\* The constructor sets started_ only; Create opens the file.
Init ==
  /\ cum \in Junk /\ prev_cum \in Junk
  /\ rpcs = 0 /\ hist = {} /\ started = FALSE /\ steps = 0 /\ bounds = <<>>
  /\ task = Nothing /\ file = <<>> /\ open = TRUE
  /\ write_status = "ok" /\ closed = "no"

StartRecording ==
  /\ ~started
  /\ started' = TRUE
  /\ UNCHANGED <<cum, prev_cum, rpcs, hist, steps, bounds, task, file, open,
                 write_status, closed>>

\* RecordBufsize always counts, RecordLatency only once started.
RecordRpc ==
  /\ rpcs < MaxRpcs
  /\ rpcs' = rpcs + 1
  /\ cum' = cum + 1
  /\ hist' = IF started THEN hist \cup {rpcs + 1} ELSE hist
  /\ UNCHANGED <<prev_cum, started, steps, bounds, task, file, open,
                 write_status, closed>>

\* The loop after a step resets copies of the histograms.
Reset(h) == h

\* Waits for the group of the step before, then hands the record over.  The
\* counts are deltas, the histogram is what latency_hists_ holds.
DoneStep ==
  /\ started /\ steps < MaxSteps /\ closed = "no"
  /\ task = Nothing
  /\ task' = [label |-> steps + 1, rpcs |-> cum - prev_cum, hist |-> hist]
  /\ steps' = steps + 1
  /\ bounds' = Append(bounds, rpcs)
  /\ prev_cum' = cum
  /\ hist' = Reset(hist)
  /\ UNCHANGED <<cum, rpcs, started, file, open, write_status, closed>>

\* Logger::Write in the executor's thread: one line, or an error.
Write ==
  /\ task # Nothing
  /\ task' = Nothing
  /\ \/ open /\ file' = Append(file, task) /\ UNCHANGED write_status
     \/ write_status' = "failed" /\ UNCHANGED file
  /\ UNCHANGED <<cum, prev_cum, rpcs, hist, started, steps, bounds, open,
                 closed>>

\* Waits for the last group, closes the file and reports the first failure.
Close ==
  /\ closed = "no" /\ task = Nothing
  /\ open' = FALSE
  /\ closed' = write_status
  /\ UNCHANGED <<cum, prev_cum, rpcs, hist, started, steps, bounds, task,
                 file, write_status>>

Next == StartRecording \/ RecordRpc \/ DoneStep \/ Write \/ Close

Spec == Init /\ [][Next]_vars

---------------------------------------------------------------------------
\* When Close reports success the file has the record of every step, once
\* and in order, although each was written by another thread.
ClosedIsComplete ==
  closed = "ok" => [i \in DOMAIN file |-> file[i].label] = [i \in 1..steps |-> i]

\* The counts of a step's record are those of the step, from the second on;
\* the first has the difference of two counters nobody initialized.
CountsOfStep ==
  \A i \in DOMAIN file :
    LET k == file[i].label
    IN  k > 1 => file[i].rpcs = bounds[k] - bounds[k - 1]

\* The records of a run are complete and each is of its step.
RecordInv == ClosedIsComplete /\ CountsOfStep
===========================================================================
