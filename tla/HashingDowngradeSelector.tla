---------------------- MODULE HashingDowngradeSelector ----------------------
(***************************************************************************)
(* The hashing downgrade selector of one aggregate (impl-hashing.cc) under *)
(* DiffDowngradeSelectorImpl::PickLOPRIChildren (iface.cc), which turns    *)
(* the ring's diffs into a QoS for each child that reported this period.   *)
(* Children come and go between two calls.                                 *)
(*                                                                         *)
(* told, downs and steady are history: the ids marked by the diffs so far, *)
(* how often each id was downgraded (above the minimum), and the children  *)
(* that were in every call since a diff last named them.                   *)
(***************************************************************************)
EXTENDS HashRing, FiniteSets

CONSTANT Children      \* ids of the hosts of the aggregate

ASSUME ChildAssumption == Children \subseteq Ids

\* A caller may ask for a fraction outside [0, 1]: UpdateFrac clamps it.
WantFracs == -1 .. One + 1

VARIABLES lopri,           \* the ring, lopri_
          last_is_lopri,   \* child id -> QoS, for the children ever seen
          diff,            \* the diff of the last call
          told, downs, steady

selectorVars == <<lopri, last_is_lopri, diff, told, downs, steady>>

SelectorInit ==
    /\ lopri = HashRing0
    /\ last_is_lopri = [c \in {} |-> FALSE]
    /\ diff = Diff("kAdd", {})
    /\ told = {}
    /\ downs = [i \in Ids |-> 0]
    /\ steady = {}

\* The marked ids once a diff is applied to them: to_downgrade holds the
\* ranges of a kAdd, to_upgrade those of a kDel.
Applied(marked, d) ==
    IF d.type = "kAdd" THEN marked \cup d.ids ELSE marked \ d.ids

\* Mutant: the remembered children are not consulted.
Picked_Forget(present, reported, d) ==
    Applied({c \in present : c \in reported}, d) \cap present

\* The children now LOPRI: what the map remembers, else what the child
\* reported, then the diff.
Picked(present, reported, d) ==
    Applied({c \in present : IF c \in DOMAIN last_is_lopri
                             THEN last_is_lopri[c]
                             ELSE c \in reported}, d) \cap present

\* last_is_lopri_ afterwards: only the children of this call are written.
Remembered(present, picked) ==
    [c \in DOMAIN last_is_lopri \cup present |->
        IF c \in present THEN c \in picked ELSE last_is_lopri[c]]

Counted(d) ==
    LET up  == [i \in Ids |-> IF d.type = "kAdd" /\ i \in d.ids \ told
                              THEN downs[i] + 1 ELSE downs[i]]
        low == CHOOSE m \in {up[i] : i \in Ids} : \A i \in Ids : m <= up[i]
    IN  [i \in Ids |-> up[i] - low]

\* present reported this period, those in reported as LOPRI.
PickLOPRIChildren(frac, present, reported) ==
    LET u == UpdateFrac(lopri, frac)
    IN  /\ lopri' = u.ring
        /\ diff' = u.diff
        /\ last_is_lopri' = Remembered(present, Picked(present, reported, u.diff))
        /\ told' = Applied(told, u.diff)
        /\ downs' = Counted(u.diff)
        /\ steady' = (steady \cup u.diff.ids) \cap present

SelectorNext ==
    \E frac \in WantFracs, present \in SUBSET Children :
        \E reported \in SUBSET present :
            PickLOPRIChildren(frac, present, reported)

SelectorSpec == SelectorInit /\ [][SelectorNext]_selectorVars
-----------------------------------------------------------------------------
\* The ring's start is an id, its fraction is clamped, and only known
\* children are remembered.
SelectorTypeOK ==
    /\ lopri.start \in Ids /\ lopri.frac \in Fracs
    /\ DOMAIN last_is_lopri \subseteq Children
    /\ \A c \in DOMAIN last_is_lopri : last_is_lopri[c] \in BOOLEAN
    /\ told \subseteq Ids

\* The diffs UpdateFrac returned so far add up to MatchingRanges: a consumer
\* that only applies diffs (FastClusterController, PickLOPRIChildren) holds
\* the set that IsLOPRI (the aggregator's classification) answers from.
DiffsTrackRing == told = MatchingRanges(lopri)

\* A diff never names an id twice over: kAdd adds ids that were not marked,
\* kDel removes ids that were.  (No bundle is sent to a host whose QoS is
\* unchanged.)
NoRedundantChange ==
    [][\A i \in diff'.ids : i \in told <=> diff'.type = "kDel"]_selectorVars

\* The ring is a FIFO over the ids: no id is downgraded twice more often than
\* another, whatever sequence of fractions is asked for.
RoundRobin == \A i, j \in Ids : downs[i] <= downs[j] + 1

\* The share of the ids that is marked is the fraction last asked for
\* (UpdateFrac, clamped), for the fractions that are whole chunks.
MarkedIsFrac == Cardinality(told) * One = lopri.frac * IdSpaceSize

\* The ring marks as many ids as it was asked to, and takes turns.
RingInv == SelectorTypeOK /\ RoundRobin /\ MarkedIsFrac

\* A child that reported in every period since a diff last named it has the
\* QoS that the ring gives its id.
SyncedTracksRing ==
    \A c \in steady : c \in DOMAIN last_is_lopri
                        /\ last_is_lopri[c] = IsLOPRI(lopri, c)
=============================================================================
