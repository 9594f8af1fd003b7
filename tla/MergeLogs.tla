------------------------------ MODULE MergeLogs ------------------------------
(***************************************************************************)
(* heyp/app/testlopri/merge-logs.cc: MergeTo, which adds up, line by line, *)
(* the statistics the client's shards recorded.  A file is a sequence of   *)
(* lines; a line is a record, blank or not JSON, and the last line of a    *)
(* file may lack its newline (the shard was killed while it wrote it).     *)
(* The files may be of different lengths and their labels may differ.      *)
(*                                                                         *)
(* A record keeps its label, the counts that are added and the time of     *)
(* which the earliest is kept.  Reading one line is a step.                *)
(***************************************************************************)
EXTENDS Integers, Sequences, SequencesExt, FiniteSetsExt

CONSTANTS
    NumFiles,      \* input files
    Labels, Counts,
    MaxLines       \* bound: lines of a file

Files == 1 .. NumFiles
Record == [kind: {"record"}, label: Labels, count: Counts]
Line == Record \cup {[kind |-> k, label |-> "", count |-> 0] : k \in {"blank", "junk"}}

VARIABLES
    file,          \* the lines of each file
    torn,          \* files whose last line has no newline
    pos,           \* lines read of each file
    eof,           \* files at feof()
    next,          \* the file the inner loop reads from
    cur_records, num_done,
    output,        \* the merged lines
    status         \* "reading", or what MergeTo returned

vars == <<file, torn, pos, eof, next, cur_records, num_done, output, status>>

NoRecord == [kind |-> "none", label |-> "", count |-> 0]

Init ==
    /\ file \in [Files -> BoundedSeq(Line, MaxLines)]
    /\ torn \in SUBSET {f \in Files : file[f] # <<>>}
    /\ pos = [f \in Files |-> 0]
    /\ eof = {}
    /\ next = 1
    /\ cur_records = [f \in Files |-> NoRecord]
    /\ num_done = 0
    /\ output = <<>>
    /\ status = "reading"

\* ReadLine reads up to a newline; at EOF, also after a torn line, it fails.
AtEnd(f) == pos[f] = Len(file[f]) \/ (f \in torn /\ pos[f] = Len(file[f]) - 1)

ReadLine(f) ==
    /\ status = "reading" /\ next = f
    /\ IF AtEnd(f)
       THEN /\ eof' = eof \cup {f}
            /\ num_done' = num_done + 1
            /\ cur_records' = [cur_records EXCEPT ![f] = NoRecord]
            /\ next' = next + 1
            /\ UNCHANGED <<pos, status>>
       ELSE LET line == file[f][pos[f] + 1]
            IN /\ pos' = [pos EXCEPT ![f] = @ + 1]
               /\ \/ /\ line.kind = "blank"
                     /\ num_done' = num_done + 1
                     /\ cur_records' = [cur_records EXCEPT ![f] = NoRecord]
                     /\ next' = next + 1
                     /\ UNCHANGED status
                  \/ /\ line.kind = "junk"
                     /\ status' = "data_loss"
                     /\ UNCHANGED <<num_done, cur_records, next>>
                  \/ /\ line.kind = "record"
                     /\ cur_records' = [cur_records EXCEPT ![f] = line]
                     /\ next' = next + 1
                     /\ UNCHANGED <<num_done, status>>
               /\ UNCHANGED eof
    /\ UNCHANGED <<file, torn, output>>

\* ADD_FIELD_FROM_TO and the histograms' Add, over cur_records.
Merged == [kind |-> "record", label |-> cur_records[1].label,
           count |-> MapThenSumSet(LAMBDA f : cur_records[f].count, Files)]

\* The loop's end with a record of every file: their labels must agree.
MergeLine ==
    /\ status = "reading" /\ next > NumFiles /\ num_done = 0
    /\ IF \E f \in Files : cur_records[f].label # cur_records[1].label
       THEN status' = "data_loss" /\ UNCHANGED <<output, next>>
       ELSE \/ output' = Append(output, Merged) /\ next' = 1 /\ UNCHANGED status
            \/ status' = "write_failed" /\ UNCHANGED <<output, next>>
    /\ UNCHANGED <<file, torn, pos, eof, cur_records, num_done>>

\* Mutant: a blank line is taken for the end of its file.
Verdict_NoEof == IF num_done < NumFiles THEN "data_loss" ELSE "ok"

\* What MergeTo returns when some file had no record.
Verdict ==
    CASE num_done < NumFiles -> "data_loss"
      [] num_done >= NumFiles /\ eof # Files -> "internal"
      [] OTHER -> "ok"

Finish ==
    /\ status = "reading" /\ next > NumFiles /\ num_done > 0
    /\ status' = Verdict
    /\ UNCHANGED <<file, torn, pos, eof, next, cur_records, num_done, output>>

Next == MergeLine \/ Finish \/ \E f \in Files : ReadLine(f)

Spec == Init /\ [][Next]_vars
-----------------------------------------------------------------------------
\* The lines of a file that were written whole.
Whole(f) == IF f \in torn THEN Front(file[f]) ELSE file[f]

(* MergeTo answers OK only if nothing was dropped: every whole line of     *)
(* every file is a record that went into the output, and line i of the     *)
(* output is the sum of the lines i (merge-logs.cc:112-124).               *)
OkIsComplete ==
    status = "ok" =>
        \A f \in Files :
            /\ Len(Whole(f)) = Len(output)
            /\ \A i \in DOMAIN output :
                /\ file[f][i].kind = "record"
                /\ output[i].count = MapThenSumSet(LAMBDA g : file[g][i].count, Files)

(* A merged line never mixes steps of an experiment: the records it adds   *)
(* are the lines of one number and of one label in all files, whichever    *)
(* file is shorter, torn or has a gap (merge-logs.cc:66-79).               *)
LinesLineUp ==
    \A i \in DOMAIN output :
        \A f \in Files : i <= Len(Whole(f)) /\ file[f][i].label = output[i].label

(* A merged log is the sum of the logs of the shards, step by step.        *)
MergeInv == OkIsComplete /\ LinesLineUp
=============================================================================
