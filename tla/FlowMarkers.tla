---------------------------- MODULE FlowMarkers -----------------------------
(***************************************************************************)
(* heyp/proto/alg.cc, heyp/flows/agg-marker.h: which flow markers name the *)
(* same flow, and the hash functions of the maps keyed by them.  A marker  *)
(* is a function on its fields, 0 being the proto default; a hash function *)
(* is the tuple of fields it hashes.  The state is a pair of markers being *)
(* filled in, alike but for at most one field.                             *)
(***************************************************************************)
EXTENDS Integers, FiniteSets

Group == [fg        |-> {"src_dc", "dst_dc"},
          job       |-> {"job"},
          src_host  |-> {"host_id"},
          host_flow |-> {"src_addr", "dst_addr", "protocol", "src_port", "dst_port"},
          seqnum    |-> {"seqnum"}]

Groups == DOMAIN Group
FieldsOf(groups) == UNION {Group[g] : g \in groups}
Fields == FieldsOf(Groups)

\* CompareFlowOptions: the groups of fields that are looked at.
HostFlowOptions    == {"fg", "job", "src_host"}
ClusterFlowOptions == {"fg"}

ExpectedFieldsAreSet(marker, options) == \A f \in FieldsOf(options) : marker[f] # 0

\* The job is looked at when it is expected, not when it is unexpected.
UnexpectedFieldsAreUnset(marker, options) ==
    /\ \A f \in FieldsOf((Groups \ options) \ {"job"}) : marker[f] = 0
    /\ "job" \in options => marker["job"] = 0

IsSameFlow(lhs, rhs, options) == \A f \in FieldsOf(options) : lhs[f] = rhs[f]

Kept(marker, groups) == [f \in Fields |-> IF f \in FieldsOf(groups) THEN marker[f] ELSE 0]

ToClusterFlow(flow) == Kept(flow, {"fg"})
ToHostFlow(flow)    == Kept(flow, {"fg", "job", "src_host"})

\* The four kinds of flow maps: what is hashed, what is compared.
Hash(marker, groups) == [f \in FieldsOf(groups) |-> marker[f]]

HashFlow(m)         == Hash(m, Groups)
EqFlow(a, b)        == IsSameFlow(a, b, Groups)
\* Mutant: the hash includes the id that equality ignores.
HashHostFlowNoId_WithId(m) == Hash(m, {"host_flow", "seqnum"})

HashHostFlowNoId(m) == Hash(m, {"host_flow"})
EqHostFlowNoId(a, b) == IsSameFlow(a, b, Groups \ {"fg", "job", "seqnum"})
HashFlowNoJob(m)    == Hash(m, Groups \ {"job"})
EqFlowNoJob(a, b)   == IsSameFlow(a, b, Groups \ {"job"})
HashClusterFlow(m)  == Hash(m, {"fg"})
EqClusterFlow(a, b) == IsSameFlow(a, b, {"fg"})

VARIABLES a, b

vars == <<a, b>>

Init == a = [f \in Fields |-> 0] /\ b = a

SetField(f) ==
    /\ a = b /\ a[f] = 0
    /\ a' = [a EXCEPT ![f] = 1] /\ b' = a'

SetFieldOfOne(f) ==
    /\ a = b
    /\ b' = [b EXCEPT ![f] = @ + 1] /\ UNCHANGED a

Next == \E f \in Fields : SetField(f) \/ SetFieldOfOne(f)

Spec == Init /\ [][Next]_vars
-----------------------------------------------------------------------------
\* Markers that a flow map takes for the same flow have the same hash, in each
\* of the four kinds of maps: otherwise a lookup misses an entry that is there.
EqualFlowsHashAlike ==
    /\ EqFlow(a, b) => HashFlow(a) = HashFlow(b)
    /\ EqHostFlowNoId(a, b) => HashHostFlowNoId(a) = HashHostFlowNoId(b)
    /\ EqFlowNoJob(a, b) => HashFlowNoJob(a) = HashFlowNoJob(b)
    /\ EqClusterFlow(a, b) => HashClusterFlow(a) = HashClusterFlow(b)

\* The aggregators split flows the way the options of their validity checks
\* say: two flows are counted together exactly when they agree on the fields
\* that identify the parent, and the parent of a valid child is complete.
AggregatesMatchOptions ==
    /\ EqFlow(ToHostFlow(a), ToHostFlow(b)) <=> IsSameFlow(a, b, HostFlowOptions)
    /\ EqFlow(ToClusterFlow(a), ToClusterFlow(b)) <=> IsSameFlow(a, b, ClusterFlowOptions)
    /\ ExpectedFieldsAreSet(b, Groups) => ExpectedFieldsAreSet(ToHostFlow(b), HostFlowOptions)
    /\ ExpectedFieldsAreSet(b, HostFlowOptions)
         => ExpectedFieldsAreSet(ToClusterFlow(b), ClusterFlowOptions)

\* Comparing, hashing, checking and aggregating agree on what names a flow.
MarkersInv == EqualFlowsHashAlike /\ AggregatesMatchOptions
=============================================================================
