--------------------------- MODULE DemandHistory ----------------------------
(***************************************************************************)
(* One LeafState (heyp/flows/state.cc) over its life: updates come at any  *)
(* time, late ones included, with any counter.  all is history: every      *)
(* entry usage_history_ ever had.                                          *)
(***************************************************************************)
EXTENDS FlowState

CONSTANTS time_window,            \* of the demand predictor
          usage_history_window,   \* of the tracker or aggregator that owns the state
          Counters, Rates,        \* byte counters, instantaneous rates
          MaxTime, MaxUpdates     \* bounds: the latest update, the updates counted

VARIABLES leaf, all, aborted

vars == <<leaf, all, aborted>>

Init == leaf = AggState /\ all = <<>> /\ aborted = FALSE

Update(time, cum, sum, is_lopri) ==
    LET u == LeafUpdate(leaf, time, cum, sum, is_lopri)
        new == UpdateUsage(leaf, u, TRUE, usage_history_window, time_window)
    IN  /\ ~aborted /\ Len(all) < MaxUpdates
        /\ aborted' = Aborts(leaf, u)
        /\ leaf' = IF Aborts(leaf, u) THEN leaf ELSE new
        /\ all' = IF u.time >= leaf.time /\ leaf'.have_bps
                  THEN Append(all, [time |-> leaf'.time, bps |-> leaf'.usage])
                  ELSE all

Next == \E time \in 0 .. MaxTime, cum \in Counters, sum \in Rates, lo \in BOOLEAN :
            Update(time, cum, sum, lo)

Spec == Init /\ [][Next]_vars
-----------------------------------------------------------------------------
\* Counting a leaf's bytes never trips the CHECKs of AggState, whatever
\* counters the kernel reports: LeafState does not pass on a counter that
\* went down.
LeafNeverAborts == ~aborted

\* Throwing old entries away (usage_history_) does not change the demand: it
\* is what the predictor makes of every usage of the last time_window.
GCKeepsWindow ==
    leaf.have_bps => leaf.demand = FromUsage(leaf.time, all, time_window)

\* A flow's history stays within the CHECKs and long enough for its demand.
DemandInv == LeafNeverAborts /\ GCKeepsWindow

\* No update, however late or lower, takes back what is known of the flow.
NeverBack ==
    [][leaf'.time >= leaf.time /\ leaf'.cum_hipri >= leaf.cum_hipri
         /\ leaf'.cum_lopri >= leaf.cum_lopri]_vars
=============================================================================
