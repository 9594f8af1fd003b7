-------------------------- MODULE FixedHostPattern --------------------------
(***************************************************************************)
(* heyp/cluster-agent/per-agg-allocators/impl-fixed-host-pattern.cc: the   *)
(* allocator that replays configured snapshots.  In a control period       *)
(* ClusterAllocator runs one AllocAgg task per flow group, concurrently;   *)
(* next_, the index of the snapshot to use, is read and incremented by all *)
(* of them without a lock.                                                 *)
(***************************************************************************)
EXTENDS Integers, Sequences, FiniteSets, FiniteSetsExt, Functions

CONSTANTS FGs,          \* flow groups with a pattern
          Patterns,     \* FG -> sequence of snapshots, each a sequence of
                        \* [alloc, num_hosts]
          NumChildren,  \* hosts of each flow group
          MaxSteps

Empty == 0              \* the allocation of a host that no pair covers

VARIABLES next,                    \* next_
          step,                    \* the control period
          pc,                      \* FG -> "index", "load", "store", "hosts", "done"
          snapshot, loaded,        \* FG -> snapshot chosen, next_ as loaded
          pair_index, pair_remaining,   \* SnapshotHostIter
          allocs                   \* FG -> what its hosts were given this period

vars == <<next, step, pc, snapshot, loaded, pair_index, pair_remaining, allocs>>

All(x) == [f \in FGs |-> x]

Init == /\ next = 0 /\ step = 0
        /\ pc = All("index") /\ snapshot = All(0) /\ loaded = All(0)
        /\ pair_index = All(1) /\ pair_remaining = All(0) /\ allocs = All(<<>>)

Pairs(f) == Patterns[f][snapshot[f]]

\* alloc_pattern.snapshots(next_ % size): indices start at 1 here.
ReadIndex(f) ==
    /\ pc[f] = "index" /\ step < MaxSteps
    /\ Patterns[f] # <<>>
    /\ snapshot' = [snapshot EXCEPT ![f] = (next % Len(Patterns[f])) + 1]
    /\ pc' = [pc EXCEPT ![f] = "load"]
    /\ UNCHANGED <<next, step, loaded, pair_index, pair_remaining, allocs>>

\* No pattern for the flow group, or a pattern without snapshots.
NoPattern(f) ==
    /\ pc[f] = "index" /\ step < MaxSteps
    /\ Patterns[f] = <<>>
    /\ pc' = [pc EXCEPT ![f] = "done"]
    /\ UNCHANGED <<next, step, snapshot, loaded, pair_index, pair_remaining, allocs>>

\* next_++ is a load and a store.
LoadNext(f) ==
    /\ pc[f] = "load"
    /\ loaded' = [loaded EXCEPT ![f] = next]
    /\ pc' = [pc EXCEPT ![f] = "store"]
    /\ UNCHANGED <<next, step, snapshot, pair_index, pair_remaining, allocs>>

\* The store, and the iterator's constructor.
StoreNext(f) ==
    /\ pc[f] = "store"
    /\ next' = loaded[f] + 1
    /\ pair_index' = [pair_index EXCEPT ![f] = 1]
    /\ pair_remaining' = [pair_remaining EXCEPT
                            ![f] = IF Pairs(f) = <<>> THEN 0 ELSE Pairs(f)[1].num_hosts]
    /\ pc' = [pc EXCEPT ![f] = "hosts"]
    /\ UNCHANGED <<step, snapshot, loaded, allocs>>

\* SnapshotHostIter::Next: the first pair from i on with hosts left, and what
\* is left of it then.
Advance(f, i, remaining) ==
    LET from == {j \in i .. Len(Pairs(f)) :
                   (IF j = i THEN remaining ELSE Pairs(f)[j].num_hosts) > 0}
        j == IF from = {} THEN Len(Pairs(f)) + 1 ELSE Min(from)
    IN  [index |-> j, remaining |-> IF from = {} THEN 0 ELSE IF j = i THEN remaining - 1
                                    ELSE Pairs(f)[j].num_hosts - 1]

AllocChild(f) ==
    /\ pc[f] = "hosts" /\ Len(allocs[f]) < NumChildren
    /\ LET a == Advance(f, pair_index[f], pair_remaining[f])
       IN  /\ pair_index' = [pair_index EXCEPT ![f] = a.index]
           /\ pair_remaining' = [pair_remaining EXCEPT ![f] = a.remaining]
           /\ allocs' = [allocs EXCEPT ![f] = Append(@, IF a.index <= Len(Pairs(f))
                                                        THEN Pairs(f)[a.index].alloc
                                                        ELSE Empty)]
    /\ UNCHANGED <<next, step, pc, snapshot, loaded>>

Finish(f) ==
    /\ pc[f] = "hosts" /\ Len(allocs[f]) = NumChildren
    /\ pc' = [pc EXCEPT ![f] = "done"]
    /\ UNCHANGED <<next, step, snapshot, loaded, pair_index, pair_remaining, allocs>>

\* GetAllocs waited for all tasks; the next control period begins.
NextStep ==
    /\ \A f \in FGs : pc[f] = "done"
    /\ step' = step + 1
    /\ pc' = All("index") /\ allocs' = All(<<>>)
    /\ UNCHANGED <<next, snapshot, loaded, pair_index, pair_remaining>>

Next == \/ \E f \in FGs : ReadIndex(f) \/ NoPattern(f) \/ LoadNext(f) \/ StoreNext(f)
                            \/ AllocChild(f) \/ Finish(f)
        \/ NextStep

Spec == Init /\ [][Next]_vars
-----------------------------------------------------------------------------
\* The pairs of a snapshot are handed out by their counts, in order, and the
\* remaining hosts get nothing (config.proto, FixedClusterHostAllocs.Snapshot),
\* pairs for no host included.
HostsByCount ==
    \A f \in FGs : pc[f] \in {"hosts", "done"} /\ Patterns[f] # <<>> =>
      \A h \in DOMAIN allocs[f] :
        LET Upto(j) == MapThenSumSet(LAMBDA k : Pairs(f)[k].num_hosts, 1 .. j)
            cover   == {j \in DOMAIN Pairs(f) : Upto(j) >= h}
        IN  allocs[f][h] = IF cover = {} THEN Empty ELSE Pairs(f)[Min(cover)].alloc
=============================================================================
