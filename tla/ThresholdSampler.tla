-------------------------- MODULE ThresholdSampler --------------------------
(***************************************************************************)
(* heyp/alg/sampler.h and its use in FastAggregator: a host reports its    *)
(* usage with a probability that grows with it, and the aggregator divides *)
(* each reported usage by that probability, apart for hosts at HIPRI and   *)
(* at LOPRI and for each shard; CollectSnapshot adds the truncated parts.  *)
(*                                                                         *)
(* thresh_ is num_samples / approval.  Probabilities are numerators over   *)
(* approval and estimates are num_samples times the code's, so that all    *)
(* arithmetic is exact: usage / (usage * thresh_) is approval/num_samples. *)
(* A usage of 0 has probability 0 and is never sampled; dividing it by its *)
(* probability would be 0/0.                                               *)
(***************************************************************************)
EXTENDS Integers, FiniteSets, FiniteSetsExt, Folds, Functions

CONSTANTS
    Hosts, Shard,       \* hosts, and the shard of a host's reports
    Usages,             \* usages of a host
    Samplers            \* <<num_samples_at_approval, approval>>

VARIABLES
    sampler, usage,     \* the aggregate's sampler and what the hosts use
    lopri,              \* hosts whose child id the selector has at LOPRI
    pending,            \* hosts that have not drawn yet
    est,                \* est_ of the estimators: shard and priority
    counts,             \* counts_ of a UsageDistEstimator
    volume              \* the aggregate's volume in the snapshot, or -1

vars == <<sampler, usage, lopri, pending, est, counts, volume>>

Shards == Range(Shard)
num_samples == sampler[1]
approval == sampler[2]
Least(a, b) == IF a < b THEN a ELSE b

\* ThresholdSamplingProbOf, as a numerator over Certain.
Certain == IF approval = 0 THEN 1 ELSE approval
ProbOf(u) == IF approval = 0 THEN 1 ELSE Least(u * num_samples, Certain)

\* Mutant: a sample counts for what its host uses.
Weighed_Plain(u) == u * num_samples

\* RecordSample: usage / p, times num_samples.
Weighed(u) == (u * num_samples * Certain) \div ProbOf(u)

\* EstDist: count / p, times num_samples * Certain.
EstDist(u, count) == (count * num_samples * Certain * Certain) \div ProbOf(u)

Init ==
    /\ sampler \in Samplers
    /\ usage \in [Hosts -> Usages]
    /\ lopri \in SUBSET Hosts
    /\ pending = Hosts
    /\ est = [s \in Shards |-> [hipri |-> 0, lopri |-> 0]]
    /\ counts = [u \in Usages |-> 0]
    /\ volume = -1

\* ShouldInclude: rand < prob, rand in [0, 1).
ShouldInclude(h, included) ==
    /\ included => ProbOf(usage[h]) > 0
    /\ ~included => ProbOf(usage[h]) < Certain

RecordSample(h) ==
    LET prio == IF h \in lopri THEN "lopri" ELSE "hipri"
    IN /\ est' = [est EXCEPT ![Shard[h]][prio] = @ + Weighed(usage[h])]
       /\ counts' = [counts EXCEPT ![usage[h]] = @ + 1]

Draw(h) ==
    /\ h \in pending
    /\ pending' = pending \ {h}
    /\ \/ ShouldInclude(h, TRUE) /\ RecordSample(h)
       \/ ShouldInclude(h, FALSE) /\ UNCHANGED <<est, counts>>
    /\ UNCHANGED <<sampler, usage, lopri, volume>>

\* CollectSnapshot: each part's estimate becomes an int64 before it is added.
SumBps == MapThenSumSet(LAMBDA s : (est[s].hipri \div num_samples)
                                     + (est[s].lopri \div num_samples), Shards)

CombineVolume ==
    /\ pending = {} /\ volume = -1
    /\ volume' = SumBps
    /\ UNCHANGED <<sampler, usage, lopri, pending, est, counts>>

Next == CombineVolume \/ \E h \in Hosts : Draw(h)

Spec == Init /\ [][Next]_vars
-----------------------------------------------------------------------------
Product(F(_), S) == FoldSet(LAMBDA h, acc : F(h) * acc, 1, S)

\* The probability, over Certain^|Hosts|, that exactly the hosts of S report.
Chance(S) == Product(LAMBDA h : IF h \in S THEN ProbOf(usage[h])
                                           ELSE Certain - ProbOf(usage[h]), Hosts)
TotalChance == Product(LAMBDA h : Certain, Hosts)
Mean(Value(_)) == MapThenSumSet(LAMBDA S : Chance(S) * Value(S), SUBSET Hosts)
Reported(S) == {h \in S : ProbOf(usage[h]) > 0}

(* Over all draws of the hosts, the estimate of the aggregate's usage is   *)
(* right on average: hosts that use little and seldom report weigh more    *)
(* when they do (sampler.h:76-101).                                        *)
UsageUnbiased ==
    pending = Hosts =>
        Mean(LAMBDA S : MapThenSumSet(LAMBDA h : Weighed(usage[h]), Reported(S)))
          = TotalChance * num_samples * MapThenSumSet(LAMBDA h : usage[h], Hosts)

(* The volume of the snapshot misses less than one unit for each priority  *)
(* of each shard of what the samples weigh, and never exceeds it: no shard *)
(* is left out and none is counted twice (fast-aggregator.cc:190-203).     *)
PartsAddUp ==
    volume # -1 =>
        LET weighed == MapThenSumSet(LAMBDA s : est[s].hipri + est[s].lopri, Shards)
        IN /\ volume * num_samples <= weighed
           /\ weighed < (volume + 2 * Cardinality(Shards)) * num_samples

(* EstDist is right on average too: over all draws, the expected count of  *)
(* a usage above 0 is the number of hosts that have it (sampler.h:108-124). *)
DistUnbiased ==
    pending = Hosts =>
        \A u \in Usages \ {0} :
            LET having == {h \in Hosts : usage[h] = u}
            IN Mean(LAMBDA S : EstDist(u, Cardinality(S \cap having)))
                 = TotalChance * num_samples * Certain * Cardinality(having)

(* What the samples of the hosts say of the aggregate is right on average, *)
(* and nothing of it is lost between the shards.                           *)
SamplerInv == UsageUnbiased /\ PartsAddUp /\ DistUnbiased
=============================================================================
