------------------------------- MODULE JsonLog -------------------------------
(***************************************************************************)
(* heyp/proto/ndjson-logger.{h,cc}, heyp/proto/fileio.cc and               *)
(* heyp/posix/pidfile.cc: a logger that appends one JSON line per record   *)
(* to a file it created, and the file with the process id.  Other threads  *)
(* of the process open and close files of their own; the kernel gives out  *)
(* the lowest free descriptor.  A write() may be short, interrupted or     *)
(* fail; close() of a regular file is not interrupted on Linux.            *)
(*                                                                         *)
(* A line is the sequence 1 .. LineLen of its pieces; only the bytes of    *)
(* the last Write are kept.                                                *)
(***************************************************************************)
EXTENDS Integers, Sequences, SequencesExt, FiniteSetsExt

CONSTANTS
    Fds,           \* descriptors of the process
    LineLen,       \* pieces of a line that one write() may end between
    MaxOps         \* bound: calls on the logger

None == -1
LineBytes == [i \in 1 .. LineLen |-> i]

VARIABLES
    owner,         \* who has a descriptor open: "log", "pid", "other", "free"
    fd,            \* fd_
    pc,            \* the call in progress
    total,         \* WriteJsonLine, WritePidFile: bytes the calls returned
    tail,          \* the bytes this Write, or WritePidFile, has appended
    shorts,        \* history: short writes of this Write
    result,        \* what the last call returned
    closed,        \* history: Close was called and no Init since
    foreign,       \* history: the logger used a descriptor it does not own
    ops

vars == <<owner, fd, pc, total, tail, shorts, result, closed, foreign, ops>>

Init ==
    /\ owner = [d \in Fds |-> "free"]
    /\ fd = None
    /\ pc = "idle"
    /\ total = 0 /\ tail = <<>> /\ shorts = 0
    /\ result = "none"
    /\ closed = FALSE /\ foreign = FALSE
    /\ ops = 0

Free == {d \in Fds : owner[d] = "free"}

\* Another thread's open() and close().
OtherFile ==
    /\ \/ Free # {} /\ owner' = [owner EXCEPT ![Min(Free)] = "other"]
       \/ \E d \in Fds : owner[d] = "other" /\ owner' = [owner EXCEPT ![d] = "free"]
    /\ UNCHANGED <<fd, pc, total, tail, shorts, result, closed, foreign, ops>>

Ends(res) == pc' = "idle" /\ result' = res

\* NdjsonLogger::Init(path), with Close before it if a file is open.
OpenLog ==
    /\ pc = "idle" /\ ops < MaxOps /\ ops' = ops + 1
    /\ fd = None \/ closed
    /\ \/ /\ Free # {}
          /\ fd' = Min(Free) /\ owner' = [owner EXCEPT ![Min(Free)] = "log"]
          /\ closed' = FALSE
          /\ Ends("ok")
       \/ Ends("error") /\ UNCHANGED <<fd, owner, closed>>
    /\ UNCHANGED <<total, tail, shorts, foreign>>

Write ==
    /\ pc = "idle" /\ ops < MaxOps /\ ops' = ops + 1
    /\ \/ fd = None /\ Ends("no_file") /\ UNCHANGED <<total, tail, shorts>>
       \/ /\ fd # None
          /\ pc' = "write" /\ total' = 0 /\ tail' = <<>> /\ shorts' = 0
          /\ UNCHANGED result
    /\ UNCHANGED <<owner, fd, closed, foreign>>

\* Mutant: one write() is enough.
WriteJsonLine_Once ==
    /\ pc = "write"
    /\ foreign' = (foreign \/ owner[fd] = "other")
    /\ \E wrote \in 1 .. LineLen :
         /\ owner[fd] # "free"
         /\ tail' = tail \o SubSeq(LineBytes, 1, wrote)
         /\ total' = total + wrote
         /\ shorts' = IF wrote < LineLen THEN shorts + 1 ELSE shorts
         /\ Ends("written")
    /\ UNCHANGED <<owner, fd, closed, ops>>

\* One write() of the loop: it always offers the whole buffer.
WriteJsonLine ==
    /\ pc = "write"
    /\ foreign' = (foreign \/ owner[fd] = "other")
    /\ \/ \E wrote \in 1 .. LineLen :
            /\ owner[fd] # "free"
            /\ tail' = tail \o SubSeq(LineBytes, 1, wrote)
            /\ total' = total + wrote
            /\ shorts' = IF wrote < LineLen THEN shorts + 1 ELSE shorts
            /\ IF total + wrote < LineLen THEN UNCHANGED <<pc, result>> ELSE Ends("written")
       \/ UNCHANGED <<pc, result, total, tail, shorts>>                     \* EINTR
       \/ Ends("error") /\ UNCHANGED <<total, tail, shorts>>
    /\ UNCHANGED <<owner, fd, closed, ops>>

\* close(fd_): released whatever it returns; a closed descriptor gives EBADF.
CloseFd ==
    /\ foreign' = (foreign \/ owner[fd] = "other")
    /\ owner' = [owner EXCEPT ![fd] = "free"]

\* NdjsonLogger::Close: fd_ keeps its value.
Close ==
    /\ pc = "idle" /\ ops < MaxOps /\ ops' = ops + 1
    /\ \/ fd = None /\ Ends("ok") /\ UNCHANGED <<owner, foreign, closed>>
       \/ /\ fd # None
          /\ CloseFd
          /\ closed' = TRUE
          /\ \E res \in {"ok", "error"} : Ends(res)
    /\ UNCHANGED <<fd, total, tail, shorts>>

\* ~NdjsonLogger closes a descriptor it still has.
Destroy ==
    /\ pc = "idle"
    /\ pc' = "destroyed"
    /\ IF fd # None THEN CloseFd ELSE UNCHANGED <<owner, foreign>>
    /\ UNCHANGED <<fd, total, tail, shorts, result, closed, ops>>

-----------------------------------------------------------------------------
(* WritePidFile, on a file of its own.                                     *)

PidDone(res) ==
    /\ owner' = [d \in Fds |-> IF owner[d] = "pid" THEN "free" ELSE owner[d]]
    /\ result' = res /\ pc' = "idle"

WritePidFile ==
    /\ \/ /\ pc = "idle" /\ ops < MaxOps /\ ops' = ops + 1 /\ fd = None /\ Free # {}
          /\ owner' = [owner EXCEPT ![Min(Free)] = "pid"]
          /\ pc' = "pid" /\ total' = 0 /\ tail' = <<>>
          /\ UNCHANGED result
       \/ /\ pc = "pid" /\ total < LineLen
          /\ \/ \E wrote \in 1 .. LineLen - total :
                  /\ tail' = tail \o SubSeq(LineBytes, total + 1, total + wrote)
                  /\ total' = total + wrote
                  /\ UNCHANGED <<owner, pc, result>>
             \/ PidDone("pid_error") /\ UNCHANGED <<total, tail>>
          /\ UNCHANGED ops
       \/ /\ pc = "pid" /\ total = LineLen
          /\ \E res \in {"pid_ok", "pid_error"} : PidDone(res)
          /\ UNCHANGED <<total, tail, ops>>
    /\ UNCHANGED <<fd, shorts, closed, foreign>>

Next ==
    \/ OtherFile \/ OpenLog \/ Write \/ WriteJsonLine \/ Close
    \/ Destroy \/ WritePidFile

Spec == Init /\ [][Next]_vars
-----------------------------------------------------------------------------
(* A record whose Write answered OK is a whole line at the end of the      *)
(* file, also if one write() was short: the next one repeats the line from *)
(* its start (fileio.cc:56-67).  A pid file written with OK is exact       *)
(* however its writes were cut (pidfile.cc:22-30).                         *)
WrittenWhole ==
    /\ (result = "written" /\ pc # "write" /\ shorts <= 1 /\ ~foreign)
          => IsSuffix(LineBytes, tail)
    /\ (result = "pid_ok" /\ pc = "idle") => tail = LineBytes

(* Nothing of the process leaks: a destroyed logger, and a pid file that   *)
(* was written or failed, hold no descriptor, in every order of calls and  *)
(* for every failure (ndjson-logger.cc:13-24, :40-54, pidfile.cc:25).      *)
FilesReleased ==
    /\ pc = "destroyed" => \A d \in Fds : owner[d] # "log"
    /\ pc # "pid" => \A d \in Fds : owner[d] # "pid"

(* What the logger says it wrote is there, and its files do not leak.      *)
LogInv == WrittenWhole /\ FilesReleased
=============================================================================
