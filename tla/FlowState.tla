----------------------------- MODULE FlowState ------------------------------
(***************************************************************************)
(* heyp/flows/state.cc, heyp/alg/demand-predictor.cc: the usage that is    *)
(* remembered of a flow, and the demand predicted from it.  Times are      *)
(* whole seconds; rates, which the code computes as doubles and stores as  *)
(* int64, are floors of exact quotients.                                   *)
(* heyp/flows/aggregator.cc: the flows a bundler reports, and their sums   *)
(* per aggregate.  A BundleState is a pair of partial functions from flows *)
(* to [time, info]; an info is [cum_hipri, cum_lopri, usage, lopri].       *)
(***************************************************************************)
EXTENDS Integers, FiniteSets, Sequences, FiniteSetsExt, Functions, TLC

CONSTANTS multNum, multDen,   \* usage_multiplier of the demand predictor
          min_demand_bps

InfinitePast == -1            \* before every time of the model

\* A new AggState: cur_, updated_time_, was_updated_, have_bps_, usage_history_.
AggState == [time |-> InfinitePast, was_updated |-> FALSE, have_bps |-> FALSE,
             cum_hipri |-> 0, cum_lopri |-> 0, currently_lopri |-> FALSE,
             usage |-> 0, hipri_usage |-> 0, lopri_usage |-> 0, demand |-> 0,
             history |-> <<>>]

Cum(st) == st.cum_hipri + st.cum_lopri

\* BweDemandPredictor::FromUsage
FromUsage(now, history, time_window) ==
    LET recent == {history[i].bps : i \in {j \in DOMAIN history :
                                             history[j].time >= now - time_window}}
        est    == Max(recent \cup {0}) * multNum
    IN  IF est > min_demand_bps * multDen THEN est \div multDen ELSE min_demand_bps

\* The measured rate, as a fraction num/den: the mean since the last update,
\* unless the children's sum is more.
Measured(st, u, bytes, sum) ==
    LET dur == u.time - st.time
    IN  IF st.was_updated /\ dur > 0
        THEN [num |-> Max({8 * bytes, sum * dur}), den |-> dur]
        ELSE [num |-> sum, den |-> 1]

\* The stored rate: alpha = 0.3 once there is a rate to smooth.
Smoothed(st, old, m, smooth) ==
    IF ~st.have_bps \/ ~smooth
    THEN m.num \div m.den
    ELSE (3 * m.num + 7 * old * m.den) \div (10 * m.den)

\* Mutant: an entry exactly window old is dropped too.
GC_TooMuch(now, history, window) ==
    IF now - history[1].time > 2 * window
    THEN SelectSeq(history, LAMBDA e : e.time > now - window)
    ELSE history

\* Garbage collection of old entries, with some delay.
GC(now, history, window) ==
    IF now - history[1].time > 2 * window
    THEN SelectSeq(history, LAMBDA e : e.time >= now - window)
    ELSE history

\* The two CHECKs of AggState::UpdateUsage: the process aborts when a byte
\* count went down.
Aborts(st, u) ==
    u.time >= st.time /\ (u.cum_hipri < st.cum_hipri \/ u.cum_lopri < st.cum_lopri)

\* AggState::UpdateUsage, for an update that does not abort; an update older
\* than the last one is dropped.
UpdateUsage(st, u, smooth, window, time_window) ==
    LET lopri == u.cum_hipri = st.cum_hipri /\ u.cum_lopri > st.cum_lopri
        all   == Measured(st, u, u.cum_hipri + u.cum_lopri - Cum(st), u.sum)
        hi    == Measured(st, u, u.cum_hipri - st.cum_hipri, u.sum_hipri)
        lo    == Measured(st, u, u.cum_lopri - st.cum_lopri, u.sum_lopri)
        seen  == [st EXCEPT !.time = u.time, !.was_updated = TRUE,
                            !.cum_hipri = u.cum_hipri, !.cum_lopri = u.cum_lopri,
                            !.currently_lopri = lopri]
        bps   == Smoothed(st, st.usage, all, smooth)
        hist  == GC(u.time, Append(st.history, [time |-> u.time, bps |-> bps]), window)
    IN  IF u.time < st.time THEN st
        ELSE IF ~st.was_updated /\ all.num = 0 THEN seen
        ELSE [seen EXCEPT !.have_bps = TRUE, !.usage = bps,
                          !.hipri_usage = Smoothed(st, st.hipri_usage, hi, smooth),
                          !.lopri_usage = Smoothed(st, st.lopri_usage, lo, smooth),
                          !.history = hist,
                          !.demand = FromUsage(u.time, hist, time_window)]

\* The bytes a LeafState counts: a counter that went down is not counted.
LeafBytes(st, cum) == Max({cum, Cum(st)})

\* What LeafState::UpdateUsage passes on: the bytes since the last update all
\* have the priority the flow has now.
LeafUpdate(st, time, cum, sum, is_lopri) ==
    LET diff == LeafBytes(st, cum) - Cum(st)
    IN  [time |-> time, sum |-> sum, sum_hipri |-> 0, sum_lopri |-> 0,
         cum_hipri |-> st.cum_hipri + IF is_lopri THEN 0 ELSE diff,
         cum_lopri |-> st.cum_lopri + IF is_lopri THEN diff ELSE 0]
-----------------------------------------------------------------------------
InfiniteFuture == 1000000
NoTime == -1                  \* InfinitePast

BundleState == [active |-> <<>>, dead |-> <<>>]

\* The flows that were not reported for usage_history_window.
Expired(active, timestamp, window) ==
    {f \in DOMAIN active : active[f].time + window < timestamp}

\* FlowAggregator::Update, on the entry of one bundler: a reported flow is
\* active; an active flow not reported for the window is dead, but not forgotten.
BundleUpdate(bs, timestamp, infos, window) ==
    LET active == [f \in DOMAIN infos |-> [time |-> timestamp, info |-> infos[f]]]
                    @@ bs.active
        revived == DOMAIN infos \ DOMAIN bs.active
        expired == Expired(active, timestamp, window)
    IN  [active |-> Restrict(active, DOMAIN active \ expired),
         dead   |-> [f \in expired |-> [time |-> timestamp, info |-> active[f].info]]
                      @@ Restrict(bs.dead, DOMAIN bs.dead \ revived)]

AggWIP == [oldest_active_time |-> InfiniteFuture, newest_dead_time |-> NoTime,
           cum_hipri |-> 0, cum_lopri |-> 0,
           sum |-> 0, sum_hipri |-> 0, sum_lopri |-> 0, children |-> {}]

SumOf(flows, F(_)) == MapThenSumSet(F, flows)

\* What ForEachAgg adds for one bundler: dead flows count in the bytes, and
\* in nothing else.  agg_of maps each flow to its aggregate.
AddBundle(wips, bs, agg_of) ==
    LET aggs == {agg_of[f] : f \in DOMAIN bs.active \cup DOMAIN bs.dead}
        Added(w, a) ==
            LET act  == {f \in DOMAIN bs.active : agg_of[f] = a}
                dead == {f \in DOMAIN bs.dead : agg_of[f] = a}
                I(f) == bs.active[f].info
                D(f) == bs.dead[f].info
            IN  [oldest_active_time |-> Min({w.oldest_active_time} \cup {bs.active[f].time : f \in act}),
                 newest_dead_time   |-> Max({w.newest_dead_time} \cup {bs.dead[f].time : f \in dead}),
                 cum_hipri |-> w.cum_hipri + SumOf(act, LAMBDA f : I(f).cum_hipri)
                                           + SumOf(dead, LAMBDA f : D(f).cum_hipri),
                 cum_lopri |-> w.cum_lopri + SumOf(act, LAMBDA f : I(f).cum_lopri)
                                           + SumOf(dead, LAMBDA f : D(f).cum_lopri),
                 sum       |-> w.sum + SumOf(act, LAMBDA f : I(f).usage),
                 sum_hipri |-> w.sum_hipri
                                 + SumOf({f \in act : ~I(f).lopri}, LAMBDA f : I(f).usage),
                 sum_lopri |-> w.sum_lopri
                                 + SumOf({f \in act : I(f).lopri}, LAMBDA f : I(f).usage),
                 children  |-> w.children \cup act]
    IN  [a \in DOMAIN wips \cup aggs |->
            IF a \in aggs THEN Added(IF a \in DOMAIN wips THEN wips[a] ELSE AggWIP, a)
            ELSE wips[a]]

\* The time and the counts given to AggState::UpdateUsage.
WipUpdate(w) ==
    [time |-> IF w.oldest_active_time # InfiniteFuture THEN w.oldest_active_time
              ELSE IF w.newest_dead_time # NoTime THEN w.newest_dead_time
              ELSE 0,
     sum |-> w.sum, sum_hipri |-> w.sum_hipri, sum_lopri |-> w.sum_lopri,
     cum_hipri |-> w.cum_hipri, cum_lopri |-> w.cum_lopri]
=============================================================================
