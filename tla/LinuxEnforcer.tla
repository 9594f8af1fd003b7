--------------------------- MODULE LinuxEnforcer ---------------------------
(***************************************************************************)
(* heyp/host-agent/linux-enforcer: LinuxHostEnforcer (enforcer.cc) drives  *)
(* tc and iptables::Controller (iptables-controller.cc).  EnforceAllocs    *)
(* runs in stages, and traffic uses the kernel's state between them; a tc  *)
(* batch may be applied in part, an iptables-restore is applied wholly or  *)
(* not at all, and either may fail or be killed by its timeout.            *)
(*                                                                         *)
(* A flow is a flow group with one destination host and no ports, as       *)
(* ExpandDestIntoHostsSinglePri matches it.  A setting (and its rules in   *)
(* the mangle table) is a pair <<flow, priority>>, and so is the tc class  *)
(* the setting sends packets to, class ids being unique.  The model starts *)
(* after ResetDeviceConfig has cleared the device.                         *)
(***************************************************************************)
EXTENDS Integers

CONSTANTS
    Flows,
    WanFlows,             \* flows with a netem config
    Limits,               \* rate limits of allocations, 0 included
    kMaxBandwidthBps,
    min_rate_limit_bps, limit_hipri, limit_lopri,   \* HostEnforcerConfig
    MaxCalls,             \* bound: calls of EnforceAllocs
    MaxTcFailures,        \* bound: tc commands that fail or are killed
    MaxIptFailures        \* bound: iptables-restores that fail or are killed

ASSUME EnforcerAssumption ==
    /\ WanFlows \subseteq Flows
    /\ Limits \subseteq Nat /\ 0 \in Limits
    /\ kMaxBandwidthBps \in Nat /\ min_rate_limit_bps \in Nat
    /\ limit_hipri \in BOOLEAN /\ limit_lopri \in BOOLEAN
    /\ MaxCalls \in Nat /\ MaxTcFailures \in Nat /\ MaxIptFailures \in Nat

VARIABLES
    sys,                  \* sys_info_, by flow and priority
    applied, to_del,      \* iptables::Controller
    snapshot,             \* ipt_snapshot_
    classes,              \* kernel: the rate of each class, or NoClass
    table,                \* kernel: copies of each setting's rules
    pc, bundle,           \* EnforceAllocs: next stage, and its argument
    calls, tcFailures, iptFailures,
    committed,            \* history: the last CommitChanges returned OK
    granted               \* history: limit of a flow's last allocation

vars == <<sys, applied, to_del, snapshot, classes, table, pc, bundle,
          calls, tcFailures, iptFailures, committed, granted>>

Priorities == {"hipri", "lopri"}
Settings == Flows \X Priorities
NoClass == -1
NoCopies == [s \in Settings |-> 0]
SettingsOf(b) == (DOMAIN b) \X Priorities
NoBundle == [f \in {} |-> 0]

\* Allocations never limit both priorities (a check of
\* ExpandDestIntoHostsSinglePri).
Allocs == {a \in [Priorities -> Limits] : a["hipri"] = 0 \/ a["lopri"] = 0}

Rate(limit) == IF limit >= min_rate_limit_bps THEN limit ELSE min_rate_limit_bps

NewSys == [class_id |-> FALSE, cur |-> 0, did_create |-> FALSE, late |-> FALSE,
           matched |-> FALSE]

Init ==
    /\ sys = [s \in Settings |-> NewSys]
    /\ applied = {} /\ to_del = NoCopies /\ snapshot = {}
    /\ classes = [s \in Settings |-> NoClass]
    /\ table = NoCopies
    /\ pc = "init" /\ bundle = NoBundle
    /\ calls = 0 /\ tcFailures = 0 /\ iptFailures = 0
    /\ committed = TRUE
    /\ granted = [f \in Flows |-> kMaxBandwidthBps]
-----------------------------------------------------------------------------
(* TcCaller::Batch with -force: commands that fail do not stop the others. *)

\* The rates after the commands of done have run: limit is what a class is
\* set to.
RunTc(done, limit) ==
    [s \in Settings |-> IF s \in done THEN Rate(limit[s]) ELSE classes[s]]

\* done ran, of adds (class add) and changes (class change); adding a class
\* that exists fails.  ok is the status: a kill at the end fails a batch that
\* did all its work.  shown: the class show that follows a failure succeeds.
TcOutcome(adds, changes, done, ok, shown) ==
    LET all      == adds \cup changes
        possible == {s \in adds : classes[s] = NoClass}
                      \cup {s \in changes : classes[s] # NoClass}
        fault    == ~ok /\ ~(done = possible /\ possible # all /\ shown)
    IN  /\ done \subseteq possible
        /\ ok => done = all
        /\ all = {} => ok
        /\ tcFailures' = IF fault THEN tcFailures + 1 ELSE tcFailures
        /\ tcFailures' <= MaxTcFailures
-----------------------------------------------------------------------------
(* iptables::Controller::CommitChanges *)

Copies(batch) == [s \in Settings |-> IF s \in batch THEN 1 ELSE 0]

ToDel(staged) == [s \in Settings |-> to_del[s] + Copies(applied \ staged)[s]]

\* Mutant: rules already applied are added again.
ToAdd_All(staged) == staged

ToAdd(staged) == staged \ applied

\* iptables-restore applies the whole input or nothing; deleting a rule that
\* is not in the table fails it.
Restorable(staged) == \A s \in Settings : table[s] >= ToDel(staged)[s]

Restored(staged) ==
    [s \in Settings |-> table[s] - ToDel(staged)[s] + Copies(ToAdd(staged))[s]]

CommitOk(staged) ==
    /\ Restorable(staged)
    /\ table' = Restored(staged)
    /\ to_del' = NoCopies
    /\ applied' = staged
    /\ committed' = TRUE
    /\ UNCHANGED iptFailures

\* Restore: the command fails by itself, or it is killed by its timeout,
\* before or after the kernel took the new table.
RestoreFails(staged) ==
    \/ /\ Restorable(staged)
       /\ iptFailures < MaxIptFailures
       /\ iptFailures' = iptFailures + 1
       /\ table' \in {table, Restored(staged)}
    \/ ~Restorable(staged) /\ UNCHANGED <<iptFailures, table>>

\* "Just make sure that next time we rollback everything."
CommitFails(staged) ==
    /\ ToDel(staged) # NoCopies \/ ToAdd(staged) # {}
    /\ RestoreFails(staged)
    /\ to_del' = [s \in Settings |-> ToDel(staged)[s] + Copies(ToAdd(staged))[s]]
    /\ applied' = {}
    /\ committed' = FALSE
-----------------------------------------------------------------------------
(* InitSimulatedWan: create both classes of every flow with a netem config *)
(* and send its traffic to the HIPRI one.                                  *)

InitSimulatedWan(done, ok) ==
    LET wan == WanFlows \X Priorities
        max == [s \in Settings |-> kMaxBandwidthBps]
    IN  /\ pc = "init"
        /\ TcOutcome(wan, {}, done, ok, TRUE)
        /\ classes' = RunTc(done, max)
        /\ sys' = [s \in Settings |->
                     IF s \in wan
                     THEN [class_id |-> TRUE, cur |-> kMaxBandwidthBps, did_create |-> ok,
                           late |-> FALSE, matched |-> ok /\ s[2] = "hipri"]
                     ELSE sys[s]]
        /\ IF ok
           THEN LET staged == WanFlows \X {"hipri"} IN
                  \/ CommitOk(staged) /\ snapshot' = staged
                  \/ CommitFails(staged) /\ UNCHANGED snapshot
           ELSE UNCHANGED <<applied, to_del, snapshot, table, committed, iptFailures>>
        /\ pc' = "idle"
        /\ UNCHANGED <<bundle, calls, granted>>
-----------------------------------------------------------------------------
(* EnforceAllocs *)

\* ExpandDestIntoHostsSinglePri: all traffic of the flow is LOPRI or HIPRI.
Matched(f, p, b) == IF b[f]["lopri"] > 0 THEN p = "lopri" ELSE p = "hipri"

NewLimit(f, p, b) ==
    IF (p = "hipri" /\ limit_hipri) \/ (p = "lopri" /\ limit_lopri)
    THEN b[f][p] ELSE kMaxBandwidthBps

\* The limit on the flow's traffic in the class it is sent to.
Effective(f, b) == NewLimit(f, IF b[f]["lopri"] > 0 THEN "lopri" ELSE "hipri", b)

MustCreate(s, b) == ~sys[s].class_id /\ Matched(s[1], s[2], b)

\* Mutant: limits raised after iptables is updated.
When_RaiseLate(s, b) ==
    CASE MustCreate(s, b) -> "early"
      [] ~MustCreate(s, b) /\ NewLimit(s[1], s[2], b) # sys[s].cur -> "late"
      [] OTHER -> "same"

\* Mutant: the pass that lowers limits is left out.
When_NeverLower(s, b) ==
    IF MustCreate(s, b) \/ NewLimit(s[1], s[2], b) > sys[s].cur THEN "early" ELSE "same"

\* A class is created or its limit raised before iptables is updated, and
\* lowered after it.
When(s, b) ==
    LET new == NewLimit(s[1], s[2], b) IN
    CASE MustCreate(s, b) \/ new > sys[s].cur -> "early"
      [] ~MustCreate(s, b) /\ new < sys[s].cur -> "late"
      [] OTHER -> "same"

\* What StageTrafficControlForFlow appends for the settings of cs: class add
\* for those without a class, else class change for those in use.
ToCreate(cs, info) == {s \in cs : ~info[s].did_create}
ToChange(cs, info) == {s \in cs : info[s].did_create /\ info[s].matched}

\* Stage 1: create classes and increase limits.
EnforceStage1(b, done, ok, shown) ==
    LET in    == SettingsOf(b)
        early == {s \in in : When(s, b) = "early"}
        new   == [s \in Settings |-> IF s \in in THEN NewLimit(s[1], s[2], b) ELSE 0]
        info  == [s \in Settings |->
                    IF s \in in
                    THEN [class_id |-> sys[s].class_id \/ s \in early, cur |-> new[s],
                          did_create |-> sys[s].did_create,
                          late |-> \/ When(s, b) = "late"
                                   \/ When(s, b) = "same" /\ sys[s].late,
                          matched |-> Matched(s[1], s[2], b)]
                    ELSE sys[s]]
        adds  == ToCreate(early, info)
    IN  /\ pc = "idle" /\ calls < MaxCalls
        /\ calls' = calls + 1
        /\ TcOutcome(adds, ToChange(early, info), done, ok, shown)
        /\ classes' = RunTc(done, new)
        /\ sys' = [s \in Settings |->
                     [info[s] EXCEPT
                        !.did_create = @ \/ (s \in adds /\ (ok \/ (shown /\ classes'[s] # NoClass)))]]
        /\ bundle' = b
        /\ pc' = "stage2"
        /\ UNCHANGED <<applied, to_del, snapshot, table, iptFailures, committed, granted>>

Granted == [f \in Flows |-> IF f \in DOMAIN bundle THEN Effective(f, bundle) ELSE granted[f]]

\* Mutant: settings staged though their class was not created.
Staged_Unchecked == {s \in SettingsOf(bundle) : sys[s].matched}

\* Stage 2: the settings of the flows whose class exists.
Staged == {s \in SettingsOf(bundle) : sys[s].matched /\ sys[s].did_create}

EnforceStage2 ==
    /\ pc = "stage2"
    /\ \/ CommitOk(Staged) /\ pc' = "snapshot" /\ UNCHANGED <<granted, bundle>>
       \/ /\ CommitFails(Staged)
          /\ pc' = "idle"
          /\ granted' = Granted
          /\ bundle' = NoBundle
    /\ UNCHANGED <<sys, snapshot, classes, calls, tcFailures>>

\* The copy GetIsLopriFunc hands out is updated under its own lock.
EnforceSnapshot ==
    /\ pc = "snapshot"
    /\ snapshot' = applied
    /\ pc' = "stage3"
    /\ UNCHANGED <<sys, applied, to_del, classes, table, bundle, calls, tcFailures,
                   iptFailures, committed, granted>>

\* Stage 3: decrease limits.  A class created here is not recorded.
EnforceStage3(done, ok) ==
    LET late == {s \in SettingsOf(bundle) : sys[s].late}
    IN  /\ pc = "stage3"
        /\ TcOutcome(ToCreate(late, sys), ToChange(late, sys), done, ok, TRUE)
        /\ classes' = RunTc(done, [s \in Settings |-> sys[s].cur])
        /\ sys' = [s \in Settings |->
                     IF s \in late THEN [sys[s] EXCEPT !.late = FALSE, !.class_id = TRUE]
                                   ELSE sys[s]]
        /\ granted' = Granted
        /\ bundle' = NoBundle
        /\ pc' = "idle"
        /\ UNCHANGED <<applied, to_del, snapshot, table, calls, iptFailures, committed>>
-----------------------------------------------------------------------------
\* One allocation for each flow of a bundle.
Bundles == UNION {[fs -> Allocs] : fs \in SUBSET Flows}

Next ==
    \/ \E done \in SUBSET (WanFlows \X Priorities), ok \in BOOLEAN :
          InitSimulatedWan(done, ok)
    \/ \E b \in Bundles : \E done \in SUBSET SettingsOf(b),
                             ok \in BOOLEAN, shown \in BOOLEAN :
          EnforceStage1(b, done, ok, shown)
    \/ EnforceStage2
    \/ EnforceSnapshot
    \/ \E done \in SUBSET SettingsOf(bundle), ok \in BOOLEAN :
          EnforceStage3(done, ok)

Spec == Init /\ [][Next]_vars
-----------------------------------------------------------------------------
SysInfo == [class_id : BOOLEAN, cur : Nat, did_create : BOOLEAN, late : BOOLEAN,
            matched : BOOLEAN]

\* Types of the enforcer's and the kernel's state.  A class never has a rate
\* below min_rate_limit_bps (the std::max of StageTrafficControlForFlow).
TypeOK ==
    /\ sys \in [Settings -> SysInfo]
    /\ applied \subseteq Settings /\ snapshot \subseteq Settings
    /\ to_del \in [Settings -> Nat]
    /\ classes \in [Settings -> Int]
    /\ \A s \in Settings : classes[s] # NoClass => classes[s] >= min_rate_limit_bps
    /\ table \in [Settings -> Nat]
    /\ pc \in {"init", "idle", "stage2", "snapshot", "stage3"}
    /\ bundle \in Bundles
    /\ calls \in Nat /\ tcFailures \in Nat /\ iptFailures \in Nat
    /\ committed \in BOOLEAN
    /\ granted \in [Flows -> Nat]

\* Whatever fails or is killed, no rule of the mangle table sends packets to
\* a class that does not exist: stage 2 stages only flows whose class tc
\* reported.
RulesHaveClasses == \A s \in Settings : table[s] > 0 => classes[s] # NoClass

\* While a call moves a flow from one limit to another, its traffic is never
\* held below both (increase, then redirect, then decrease: the three stages
\* of EnforceAllocs), as long as no command failed.
NeverBelowBoth ==
    tcFailures = 0 /\ iptFailures = 0 =>
        \A s \in Settings : table[s] > 0 =>
            \/ classes[s] >= Rate(granted[s[1]])
            \/ classes[s] >= Rate(Granted[s[1]])

\* Between calls the class a flow is sent to has the rate of the flow's last
\* allocation, if that is positive and no command failed.
RatesEnforced ==
    tcFailures = 0 /\ iptFailures = 0 /\ pc = "idle" =>
        \A s \in Settings :
            table[s] > 0 /\ granted[s[1]] > 0 => classes[s] = Rate(granted[s[1]])

\* The table holds each rule of the snapshot once and no other rule.
SnapshotIsTable == pc # "snapshot" => table = Copies(snapshot)

\* GetIsLopriFunc answers from a snapshot: unless an iptables-restore failed,
\* the snapshot is what the kernel's table does to each flow, except between
\* the commit and the copy.
SnapshotCurrent == iptFailures = 0 => SnapshotIsTable

\* After a failed commit, "next time we rollback everything"
\* (iptables-controller.cc): once a later commit succeeds the table holds the
\* applied settings only, each once.
RolledBack == committed /\ iptFailures > 0 => table = Copies(applied)
=============================================================================
