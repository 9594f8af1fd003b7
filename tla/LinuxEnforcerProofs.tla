------------------------- MODULE LinuxEnforcerProofs ------------------------
(***************************************************************************)
(* LinuxEnforcer for any set of flows, any limits and any number of calls. *)
(* IInv: types, and no rule classifies into a missing class, whatever      *)
(* fails.  A rule is only staged once did_create_class is set, and the     *)
(* flag is only set for a class the kernel has.  TableInv and RateInv: as  *)
(* long as nothing fails, the snapshot is the table, no flow is held below *)
(* both its limits during a call, and each has its limit after it.         *)
(***************************************************************************)
EXTENDS LinuxEnforcer, TLAPS

\* did_create_class is set for classes the kernel has.
CreatedExist == \A s \in Settings : sys[s].did_create => classes[s] # NoClass

\* The table has rules of classes known to be created only.
RulesCreated == \A s \in Settings : table[s] > 0 => sys[s].did_create

\* The device was reset before InitSimulatedWan.
StartsEmpty == pc = "init" => table = NoCopies

IInv == TypeOK /\ CreatedExist /\ RulesCreated /\ StartsEmpty

\* Rates are naturals, not below the configured minimum.
LEMMA RateType == \A l \in Nat : Rate(l) \in Nat /\ Rate(l) >= min_rate_limit_bps
  BY EnforcerAssumption DEF Rate

\* The limit an allocation asks for, of a setting of the bundle.
LEMMA NewLimitType ==
    \A b \in Bundles : \A s \in SettingsOf(b) :
        s \in Settings /\ NewLimit(s[1], s[2], b) \in Nat
<1> SUFFICES ASSUME NEW b \in Bundles, NEW s \in SettingsOf(b)
             PROVE  s \in Settings /\ NewLimit(s[1], s[2], b) \in Nat
  OBVIOUS
<1>1. PICK fs \in SUBSET Flows : b \in [fs -> Allocs]
  BY DEF Bundles
<1>2. s[1] \in fs /\ s[2] \in Priorities /\ s \in Settings
  BY <1>1 DEF SettingsOf, Settings
<1>3. b[s[1]] \in [Priorities -> Limits]
  BY <1>1, <1>2 DEF Allocs
<1>4. b[s[1]][s[2]] \in Nat
  BY <1>2, <1>3, EnforcerAssumption
<1> QED
  BY <1>2, <1>4, EnforcerAssumption DEF NewLimit

\* The limit in force for a flow of a bundle.
LEMMA EffectiveType == \A b \in Bundles : \A f \in DOMAIN b : Effective(f, b) \in Nat
<1> SUFFICES ASSUME NEW b \in Bundles, NEW f \in DOMAIN b
             PROVE  Effective(f, b) \in Nat
  OBVIOUS
<1>1. \A p \in Priorities : NewLimit(f, p, b) \in Nat
  <2> SUFFICES ASSUME NEW p \in Priorities PROVE NewLimit(f, p, b) \in Nat
    OBVIOUS
  <2>1. <<f, p>> \in SettingsOf(b)
    BY DEF SettingsOf
  <2> QED
    BY <2>1, NewLimitType
<1> QED
  BY <1>1 DEF Effective, Priorities

\* A tc batch sets the classes of the commands that ran and removes none.
LEMMA TcKeepsClasses ==
    ASSUME TypeOK, NEW done, NEW limit \in [Settings -> Nat]
    PROVE  LET new == RunTc(done, limit) IN
           /\ new \in [Settings -> Int]
           /\ \A s \in Settings : new[s] # NoClass => new[s] >= min_rate_limit_bps
           /\ \A s \in Settings : classes[s] # NoClass \/ s \in done => new[s] # NoClass
<1>1. \A s \in Settings : Rate(limit[s]) \in Nat /\ Rate(limit[s]) >= min_rate_limit_bps
  BY RateType
<1> QED
  BY <1>1 DEF RunTc, TypeOK, NoClass

\* What a commit may do to the table and to the controller.
LEMMA CommitEffect ==
    ASSUME TypeOK, NEW staged \in SUBSET Settings,
           CommitOk(staged) \/ CommitFails(staged)
    PROVE  /\ table' \in [Settings -> Nat]
           /\ to_del' \in [Settings -> Nat]
           /\ applied' \subseteq Settings
           /\ committed' \in BOOLEAN
           /\ iptFailures' \in Nat
           /\ \A s \in Settings : table'[s] > 0 => table[s] > 0 \/ s \in staged
<1>1. /\ \A batch : Copies(batch) \in [Settings -> Nat]
      /\ \A batch : \A s \in Settings : Copies(batch)[s] > 0 => s \in batch
  BY DEF Copies
<1>2. ToDel(staged) \in [Settings -> Nat]
  BY <1>1 DEF ToDel, TypeOK
<1>3. Copies(ToAdd(staged)) \in [Settings -> Nat]
  BY <1>1
<1>4. Restorable(staged) =>
        /\ Restored(staged) \in [Settings -> Nat]
        /\ \A s \in Settings : Restored(staged)[s] > 0 => table[s] > 0 \/ s \in staged
  <2>1. \A s \in Settings : Copies(ToAdd(staged))[s] > 0 => s \in staged
    BY <1>1 DEF ToAdd
  <2> DEFINE d == ToDel(staged)
             c == Copies(ToAdd(staged))
  <2>2. d \in [Settings -> Nat] /\ c \in [Settings -> Nat] /\ table \in [Settings -> Nat]
    BY <1>2, <1>3 DEF TypeOK
  <2>3. \A s \in Settings : c[s] > 0 => s \in staged
    BY <2>1
  <2>4. /\ Restored(staged) = [s \in Settings |-> table[s] - d[s] + c[s]]
        /\ Restorable(staged) <=> \A s \in Settings : table[s] >= d[s]
    BY DEF Restored, Restorable
  <2> HIDE DEF d, c
  <2> QED
    BY <2>2, <2>3, <2>4
<1>5. CASE CommitOk(staged)
  BY <1>4, <1>5 DEF CommitOk, NoCopies, TypeOK
<1>6. CASE CommitFails(staged)
  <2>1. to_del' \in [Settings -> Nat]
    <3> DEFINE d == ToDel(staged)
               c == Copies(ToAdd(staged))
    <3>1. to_del' = [s \in Settings |-> d[s] + c[s]]
      BY <1>6 DEF CommitFails
    <3>2. d \in [Settings -> Nat] /\ c \in [Settings -> Nat]
      BY <1>2, <1>3
    <3> HIDE DEF d, c
    <3> QED
      BY <3>1, <3>2
  <2>2. /\ iptFailures' \in Nat
        /\ table' = table \/ (Restorable(staged) /\ table' = Restored(staged))
    BY <1>6 DEF CommitFails, RestoreFails, TypeOK
  <2> QED
    BY <1>4, <1>6, <2>1, <2>2 DEF CommitFails, TypeOK
<1> QED
  BY <1>5, <1>6

\* The enforcer starts in a state of the inductive invariant.
LEMMA InitIInv == Init => IInv
<1> SUFFICES ASSUME Init PROVE IInv
  OBVIOUS
<1>1. NoBundle \in Bundles
  <2>1. NoBundle \in [{} -> Allocs]
    BY DEF NoBundle
  <2> QED
    BY <2>1 DEF Bundles
<1> QED
  BY <1>1, EnforcerAssumption
  DEF Init, IInv, TypeOK, CreatedExist, RulesCreated, StartsEmpty, SysInfo, NewSys, NoCopies, NoClass

\* No bundle, and the limits of the flows after a call.
LEMMA GrantedType ==
    ASSUME TypeOK PROVE NoBundle \in Bundles /\ Granted \in [Flows -> Nat]
<1>1. NoBundle \in Bundles
  <2>1. NoBundle \in [{} -> Allocs]
    BY DEF NoBundle
  <2> QED
    BY <2>1 DEF Bundles
<1>2. \A f \in DOMAIN bundle : Effective(f, bundle) \in Nat
  BY EffectiveType DEF TypeOK
<1> QED
  BY <1>1, <1>2 DEF Granted, TypeOK

\* InitSimulatedWan keeps it, whatever part of its batch fails: classes
\* whose creation failed are not recorded as created.
LEMMA InitSimulatedWanIInv ==
    ASSUME IInv, NEW done, NEW ok \in BOOLEAN, InitSimulatedWan(done, ok)
    PROVE  IInv'
<1> DEFINE wan == WanFlows \X Priorities
           max == [s \in Settings |-> kMaxBandwidthBps]
           staged == WanFlows \X {"hipri"}
<1>1. TypeOK
  BY DEF IInv
<1>2. max \in [Settings -> Nat] /\ classes' = RunTc(done, max)
  BY EnforcerAssumption DEF InitSimulatedWan
<1>3. /\ classes' \in [Settings -> Int]
      /\ \A s \in Settings : classes'[s] # NoClass => classes'[s] >= min_rate_limit_bps
      /\ \A s \in Settings : classes[s] # NoClass \/ s \in done => classes'[s] # NoClass
  <2> HIDE DEF max
  <2> QED
    BY <1>1, <1>2, TcKeepsClasses
<1>4. /\ ok => done = wan
      /\ tcFailures' \in Nat
  BY <1>1 DEF InitSimulatedWan, TcOutcome, TypeOK
<1>5. /\ sys' \in [Settings -> SysInfo]
      /\ \A s \in Settings : sys'[s].did_create =>
            (s \in wan /\ ok) \/ (s \notin wan /\ sys[s].did_create)
      /\ \A s \in Settings : s \in wan => sys'[s].did_create = ok
      /\ \A s \in Settings : s \notin wan => sys'[s] = sys[s]
  <2>1. sys' = [s \in Settings |->
                  IF s \in wan
                  THEN [class_id |-> TRUE, cur |-> kMaxBandwidthBps, did_create |-> ok,
                        late |-> FALSE, matched |-> ok /\ s[2] = "hipri"]
                  ELSE sys[s]]
    BY DEF InitSimulatedWan
  <2>2. \A s \in Settings : (ok /\ s[2] = "hipri") \in BOOLEAN
    OBVIOUS
  <2>3. kMaxBandwidthBps \in Nat /\ sys \in [Settings -> SysInfo]
    BY <1>1, EnforcerAssumption DEF TypeOK
  <2> HIDE DEF wan
  <2> QED
    BY <2>1, <2>2, <2>3 DEF SysInfo
<1>6. wan \subseteq Settings /\ staged \subseteq wan /\ staged \in SUBSET Settings
  BY EnforcerAssumption DEF Settings, Priorities
<1>7. CreatedExist'
  BY <1>3, <1>4, <1>5 DEF CreatedExist, IInv
<1>8. /\ table' \in [Settings -> Nat] /\ to_del' \in [Settings -> Nat]
      /\ applied' \subseteq Settings /\ snapshot' \subseteq Settings
      /\ committed' \in BOOLEAN /\ iptFailures' \in Nat
      /\ \A s \in Settings : table'[s] > 0 => table[s] > 0 \/ (ok /\ s \in staged)
  <2>1. CASE ok
    <3>1. \/ CommitOk(staged) /\ snapshot' = staged
          \/ CommitFails(staged) /\ UNCHANGED snapshot
      BY <2>1 DEF InitSimulatedWan
    <3>2. snapshot' \subseteq Settings
      BY <1>1, <1>6, <3>1 DEF TypeOK
    <3> HIDE DEF staged
    <3> QED
      BY <1>1, <1>6, <2>1, <3>1, <3>2, CommitEffect
  <2>2. CASE ~ok
    BY <1>1, <2>2 DEF InitSimulatedWan, TypeOK
  <2> QED
    BY <2>1, <2>2
<1>9. RulesCreated'
  <2>1. \A s \in Settings : table[s] = 0
    BY DEF IInv, StartsEmpty, InitSimulatedWan, NoCopies
  <2>2. \A s \in Settings : table'[s] > 0 => ok /\ s \in wan
    BY <1>6, <1>8, <2>1
  <2> QED
    BY <1>5, <2>2 DEF RulesCreated
<1>10. TypeOK'
  BY <1>1, <1>3, <1>4, <1>5, <1>8 DEF TypeOK, InitSimulatedWan
<1> QED
  BY <1>7, <1>9, <1>10 DEF IInv, StartsEmpty, InitSimulatedWan

\* Stage 1 keeps it: rules only come to name classes recorded as created.
LEMMA EnforceStage1IInv ==
    ASSUME IInv, NEW b \in Bundles, NEW done, NEW ok \in BOOLEAN, NEW shown \in BOOLEAN,
           EnforceStage1(b, done, ok, shown)
    PROVE  IInv'
<1> DEFINE in    == SettingsOf(b)
           early == {s \in in : When(s, b) = "early"}
           new   == [s \in Settings |-> IF s \in in THEN NewLimit(s[1], s[2], b) ELSE 0]
           info  == [s \in Settings |->
                       IF s \in in
                       THEN [class_id |-> sys[s].class_id \/ s \in early, cur |-> new[s],
                             did_create |-> sys[s].did_create,
                             late |-> \/ When(s, b) = "late"
                                      \/ When(s, b) = "same" /\ sys[s].late,
                             matched |-> Matched(s[1], s[2], b)]
                       ELSE sys[s]]
           adds  == ToCreate(early, info)
<1>1. TypeOK /\ sys \in [Settings -> SysInfo]
  BY DEF IInv, TypeOK
<1>2. new \in [Settings -> Nat]
  BY NewLimitType
<1>3. classes' = RunTc(done, new)
  BY DEF EnforceStage1
<1>4. /\ classes' \in [Settings -> Int]
      /\ \A s \in Settings : classes'[s] # NoClass => classes'[s] >= min_rate_limit_bps
      /\ \A s \in Settings : classes[s] # NoClass \/ s \in done => classes'[s] # NoClass
  <2> HIDE DEF new
  <2> QED
    BY <1>1, <1>2, <1>3, TcKeepsClasses
<1>5. /\ ok => adds \subseteq done
      /\ tcFailures' \in Nat
  <2>1. TcOutcome(adds, ToChange(early, info), done, ok, shown)
    BY DEF EnforceStage1
  <2> HIDE DEF adds, early, info
  <2> QED
    BY <1>1, <2>1 DEF TcOutcome, TypeOK
<1>6. info \in [Settings -> SysInfo] /\ \A s \in Settings : info[s].did_create = sys[s].did_create
  <2>1. \A s \in Settings : /\ sys[s] \in SysInfo
                             /\ new[s] \in Nat
                             /\ (sys[s].class_id \/ s \in early) \in BOOLEAN
                             /\ (\/ When(s, b) = "late"
                                 \/ When(s, b) = "same" /\ sys[s].late) \in BOOLEAN
                             /\ Matched(s[1], s[2], b) \in BOOLEAN
    BY <1>1, <1>2 DEF Matched
  <2> HIDE DEF new, early, in
  <2> QED
    BY <2>1 DEF SysInfo
<1>7. sys' = [s \in Settings |->
                [info[s] EXCEPT
                   !.did_create = @ \/ (s \in adds /\ (ok \/ (shown /\ classes'[s] # NoClass)))]]
  BY DEF EnforceStage1
<1>8. /\ sys' \in [Settings -> SysInfo]
      /\ \A s \in Settings : sys[s].did_create => sys'[s].did_create
      /\ \A s \in Settings : sys'[s].did_create =>
            sys[s].did_create \/ (s \in adds /\ (ok \/ classes'[s] # NoClass))
  <2>1. \A s \in Settings : (s \in adds /\ (ok \/ (shown /\ classes'[s] # NoClass))) \in BOOLEAN
    OBVIOUS
  <2> HIDE DEF adds, info
  <2> QED
    BY <1>6, <1>7, <2>1 DEF SysInfo
<1>9. CreatedExist'
  <2> HIDE DEF adds
  <2> QED
    BY <1>4, <1>5, <1>8 DEF CreatedExist, IInv
<1>10. RulesCreated'
  BY <1>8 DEF RulesCreated, IInv, EnforceStage1
<1>11. TypeOK'
  <2>1. /\ UNCHANGED <<applied, to_del, snapshot, table, iptFailures, committed, granted>>
        /\ calls' = calls + 1 /\ bundle' = b /\ pc' = "stage2"
    BY DEF EnforceStage1
  <2> HIDE DEF in, early, new, info, adds
  <2> QED
    BY <1>1, <1>4, <1>5, <1>8, <2>1 DEF TypeOK
<1>12. StartsEmpty'
  BY DEF StartsEmpty, EnforceStage1
<1> QED
  BY <1>9, <1>10, <1>11, <1>12 DEF IInv

\* Stage 2, the iptables commit, keeps it when it fails or is killed, too.
LEMMA EnforceStage2IInv == ASSUME IInv, EnforceStage2 PROVE IInv'
<1>1. TypeOK
  BY DEF IInv
<1>2. Staged \in SUBSET Settings /\ \A s \in Staged : sys[s].did_create
  <2>1. \A s \in SettingsOf(bundle) : s \in Settings
    BY <1>1, NewLimitType DEF TypeOK
  <2> QED
    BY <2>1 DEF Staged
<1>3. /\ CommitOk(Staged) \/ CommitFails(Staged)
      /\ pc' \in {"snapshot", "idle"}
      /\ granted' = granted \/ granted' = Granted
      /\ bundle' = bundle \/ bundle' = NoBundle
      /\ UNCHANGED <<sys, snapshot, classes, calls, tcFailures>>
  BY DEF EnforceStage2
<1>4. /\ table' \in [Settings -> Nat]
      /\ to_del' \in [Settings -> Nat]
      /\ applied' \subseteq Settings
      /\ committed' \in BOOLEAN
      /\ iptFailures' \in Nat
      /\ \A s \in Settings : table'[s] > 0 => table[s] > 0 \/ s \in Staged
  BY <1>1, <1>2, <1>3, CommitEffect
<1>5. TypeOK'
  BY <1>1, <1>3, <1>4, GrantedType DEF TypeOK
<1>6. CreatedExist' /\ RulesCreated'
  BY <1>2, <1>3, <1>4 DEF IInv, CreatedExist, RulesCreated
<1> QED
  BY <1>3, <1>5, <1>6 DEF IInv, StartsEmpty

\* Publishing the snapshot touches neither classes nor rules.
LEMMA EnforceSnapshotIInv == ASSUME IInv, EnforceSnapshot PROVE IInv'
  BY DEF IInv, EnforceSnapshot, TypeOK, CreatedExist, RulesCreated, StartsEmpty

\* Stage 3 keeps it: it changes rates and deletes no class a rule names.
LEMMA EnforceStage3IInv ==
    ASSUME IInv, NEW done, NEW ok \in BOOLEAN, EnforceStage3(done, ok)
    PROVE  IInv'
<1> DEFINE late == {s \in SettingsOf(bundle) : sys[s].late}
           limit == [s \in Settings |-> sys[s].cur]
<1>1. TypeOK /\ sys \in [Settings -> SysInfo]
  BY DEF IInv, TypeOK
<1>2. limit \in [Settings -> Nat] /\ classes' = RunTc(done, limit)
  BY <1>1 DEF EnforceStage3, SysInfo
<1>3. /\ classes' \in [Settings -> Int]
      /\ \A s \in Settings : classes'[s] # NoClass => classes'[s] >= min_rate_limit_bps
      /\ \A s \in Settings : classes[s] # NoClass => classes'[s] # NoClass
  <2> HIDE DEF limit
  <2> QED
    BY <1>1, <1>2, TcKeepsClasses
<1>4. /\ sys' \in [Settings -> SysInfo]
      /\ \A s \in Settings : sys'[s].did_create = sys[s].did_create
  <2>1. sys' = [s \in Settings |->
                  IF s \in late THEN [sys[s] EXCEPT !.late = FALSE, !.class_id = TRUE]
                                ELSE sys[s]]
    BY DEF EnforceStage3
  <2> HIDE DEF late
  <2> QED
    BY <1>1, <2>1 DEF SysInfo
<1>5. tcFailures' \in Nat
  <2> DEFINE adds == ToCreate(late, sys)
             changes == ToChange(late, sys)
  <2>1. TcOutcome(adds, changes, done, ok, TRUE)
    BY DEF EnforceStage3
  <2> HIDE DEF adds, changes
  <2> QED
    BY <1>1, <2>1 DEF TcOutcome, TypeOK
<1>6. /\ granted' = Granted /\ bundle' = NoBundle /\ pc' = "idle"
      /\ UNCHANGED <<applied, to_del, snapshot, table, calls, iptFailures, committed>>
  BY DEF EnforceStage3
<1>7. TypeOK'
  BY <1>1, <1>3, <1>4, <1>5, <1>6, GrantedType DEF TypeOK
<1>8. CreatedExist' /\ RulesCreated'
  BY <1>3, <1>4, <1>6 DEF IInv, CreatedExist, RulesCreated
<1> QED
  BY <1>6, <1>7, <1>8 DEF IInv, StartsEmpty

\* So does every step.
LEMMA NextIInv == IInv /\ [Next]_vars => IInv'
<1> SUFFICES ASSUME IInv, [Next]_vars PROVE IInv'
  OBVIOUS
<1>1. ASSUME NEW done \in SUBSET (WanFlows \X Priorities), NEW ok \in BOOLEAN,
             InitSimulatedWan(done, ok)
      PROVE  IInv'
  BY <1>1, InitSimulatedWanIInv
<1>2. ASSUME NEW b \in Bundles, NEW done \in SUBSET SettingsOf(b),
             NEW ok \in BOOLEAN, NEW shown \in BOOLEAN, EnforceStage1(b, done, ok, shown)
      PROVE  IInv'
  BY <1>2, EnforceStage1IInv
<1>3. CASE EnforceStage2
  BY <1>3, EnforceStage2IInv
<1>4. CASE EnforceSnapshot
  BY <1>4, EnforceSnapshotIInv
<1>5. ASSUME NEW done \in SUBSET SettingsOf(bundle), NEW ok \in BOOLEAN,
             EnforceStage3(done, ok)
      PROVE  IInv'
  BY <1>5, EnforceStage3IInv
<1>6. CASE UNCHANGED vars
  BY <1>6 DEF vars, IInv, TypeOK, CreatedExist, RulesCreated, StartsEmpty
<1> QED
  BY <1>1, <1>2, <1>3, <1>4, <1>5, <1>6 DEF Next

\* The enforcer's state has its types, and no class a rate below the minimum.
THEOREM EnforcerType == Spec => []TypeOK
<1>1. IInv => TypeOK
  BY DEF IInv
<1> QED
  BY InitIInv, NextIInv, <1>1, PTL DEF Spec

\* Whatever tc and iptables commands fail or are killed, EnforceAllocs never
\* leaves a rule that classifies into a class that does not exist.
THEOREM NoRuleWithoutClass == Spec => []RulesHaveClasses
<1>1. IInv => RulesHaveClasses
  BY DEF IInv, CreatedExist, RulesCreated, RulesHaveClasses
<1> QED
  BY InitIInv, NextIInv, <1>1, PTL DEF Spec

-----------------------------------------------------------------------------
(* Rates, and the snapshot, while no command fails.                        *)

\* While no iptables-restore failed the controller's list is the table, and
\* the snapshot its copy.
TableInv ==
    iptFailures = 0 =>
        /\ to_del = NoCopies /\ table = Copies(applied)
        /\ pc # "snapshot" => snapshot = applied

Limited(p) == (p = "hipri" /\ limit_hipri) \/ (p = "lopri" /\ limit_lopri)

InCall == pc \in {"stage2", "snapshot", "stage3"}

\* A class exists when it has an id; its rate is that of the recorded limit,
\* or above it until stage 3 of the call that lowered the limit.
RateOf(s) ==
    /\ sys[s].class_id = sys[s].did_create
    /\ ~sys[s].did_create => classes[s] = NoClass /\ sys[s].cur = 0
    /\ sys[s].did_create => /\ pc # "init"
                            /\ classes[s] >= Rate(sys[s].cur)
                            /\ sys[s].cur > 0 /\ ~sys[s].late => classes[s] = Rate(sys[s].cur)
                            /\ ~Limited(s[2]) => sys[s].cur = kMaxBandwidthBps
    /\ sys[s].late => /\ InCall /\ s \in SettingsOf(bundle)
                      /\ sys[s].did_create /\ Limited(s[2])

\* The limits recorded are those of the bundle, and the applied settings have
\* the limits granted: in full between calls, at least until the commit.
CallInv ==
    /\ InCall => \A s \in SettingsOf(bundle) :
                    /\ sys[s].matched = Matched(s[1], s[2], bundle)
                    /\ sys[s].cur = NewLimit(s[1], s[2], bundle)
    /\ pc = "init" => applied = {} /\ granted = [f \in Flows |-> kMaxBandwidthBps]
    /\ pc = "idle" => \A s \in applied : sys[s].did_create /\ sys[s].cur = granted[s[1]]
    /\ pc = "stage2" => \A s \in applied :
                           sys[s].did_create /\ classes[s] >= Rate(granted[s[1]])
    /\ pc \in {"snapshot", "stage3"} => applied = Staged

NoFault == tcFailures = 0 /\ iptFailures = 0

RateInv == NoFault => CallInv /\ \A s \in Settings : RateOf(s)

\* A limited setting the bundle does not match gets the limit 0, a matched
\* one the limit of its flow.
LEMMA BundleFacts ==
    ASSUME NEW b \in Bundles, NEW s \in SettingsOf(b)
    PROVE  /\ s \in Settings /\ s[1] \in DOMAIN b /\ s[2] \in Priorities
           /\ NewLimit(s[1], s[2], b) \in Nat
           /\ Matched(s[1], s[2], b) \in BOOLEAN
           /\ ~Matched(s[1], s[2], b) /\ Limited(s[2]) => NewLimit(s[1], s[2], b) = 0
           /\ ~Limited(s[2]) => NewLimit(s[1], s[2], b) = kMaxBandwidthBps
           /\ Matched(s[1], s[2], b) => NewLimit(s[1], s[2], b) = Effective(s[1], b)
<1>1. PICK fs \in SUBSET Flows : b \in [fs -> Allocs]
  BY DEF Bundles
<1>2. s[1] \in DOMAIN b /\ s[1] \in fs /\ s[2] \in Priorities
  BY <1>1 DEF SettingsOf
<1>3. /\ b[s[1]] \in [Priorities -> Limits]
      /\ b[s[1]]["hipri"] = 0 \/ b[s[1]]["lopri"] = 0
  BY <1>1, <1>2 DEF Allocs
<1>4. b[s[1]]["hipri"] \in Nat /\ b[s[1]]["lopri"] \in Nat
  BY <1>3, EnforcerAssumption DEF Priorities
<1>5. ~Matched(s[1], s[2], b) /\ Limited(s[2]) => NewLimit(s[1], s[2], b) = 0
  BY <1>2, <1>3, <1>4 DEF Matched, NewLimit, Limited, Priorities
<1>6. Matched(s[1], s[2], b) => NewLimit(s[1], s[2], b) = Effective(s[1], b)
  BY <1>2 DEF Matched, Effective, Priorities
<1> QED
  BY <1>2, <1>5, <1>6, NewLimitType DEF Matched, NewLimit, Limited

\* A batch of class adds for missing classes and changes of existing ones
\* runs in full, or counts as a failure.
LEMMA TcRunsAll ==
    ASSUME tcFailures \in Nat, NEW adds, NEW changes, NEW done, NEW ok \in BOOLEAN, NEW shown,
           TcOutcome(adds, changes, done, ok, shown), tcFailures' = 0,
           \A s \in adds : classes[s] = NoClass, \A s \in changes : classes[s] # NoClass
    PROVE  ok /\ done = adds \cup changes /\ tcFailures = 0
<1> DEFINE all == adds \cup changes
           possible == {s \in adds : classes[s] = NoClass} \cup {s \in changes : classes[s] # NoClass}
<1>1. possible = all
  OBVIOUS
<1>2. /\ ok => done = all
      /\ tcFailures' = IF ~ok /\ ~(done = possible /\ possible # all /\ shown)
                       THEN tcFailures + 1 ELSE tcFailures
  BY DEF TcOutcome
<1> HIDE DEF possible
<1> QED
  BY <1>1, <1>2

\* A commit replaces the applied settings, or counts as a failure.
LEMMA CommitReplaces ==
    ASSUME TypeOK, to_del = NoCopies, table = Copies(applied), NEW staged \in SUBSET Settings
    PROVE  /\ CommitOk(staged) => /\ to_del' = NoCopies /\ table' = Copies(staged)
                                  /\ applied' = staged /\ iptFailures' = iptFailures
           /\ CommitFails(staged) => iptFailures' = iptFailures + 1
<1>1. \A s \in Settings : ToDel(staged)[s] = IF s \in applied \ staged THEN 1 ELSE 0
  BY DEF ToDel, NoCopies, Copies
<1>2. \A s \in Settings : /\ table[s] = IF s \in applied THEN 1 ELSE 0
                          /\ Copies(ToAdd(staged))[s] = IF s \in staged \ applied THEN 1 ELSE 0
  BY DEF Copies, ToAdd
<1>3. Restorable(staged)
  BY <1>1, <1>2 DEF Restorable
<1>4. \A s \in Settings : table[s] - ToDel(staged)[s] + Copies(ToAdd(staged))[s]
                            = IF s \in staged THEN 1 ELSE 0
  BY <1>1, <1>2
<1>5. Restored(staged) = Copies(staged)
  BY <1>4 DEF Restored, Copies
<1> QED
  BY <1>3, <1>5 DEF CommitOk, CommitFails, RestoreFails

\* Every step keeps the snapshot a copy of the table.
LEMMA TableStep == ASSUME TypeOK, TableInv, [Next]_vars PROVE TableInv'
<1>0. iptFailures \in Nat /\ bundle \in Bundles
  BY DEF TypeOK
<1>1. ASSUME NEW done, NEW ok \in BOOLEAN, InitSimulatedWan(done, ok) PROVE TableInv'
  <2> DEFINE staged == WanFlows \X {"hipri"}
  <2>1. staged \in SUBSET Settings
    BY EnforcerAssumption DEF Settings, Priorities
  <2>2. /\ \/ CommitOk(staged) /\ snapshot' = staged
           \/ CommitFails(staged) /\ UNCHANGED snapshot
           \/ UNCHANGED <<applied, to_del, snapshot, table, iptFailures>>
        /\ pc = "init"
    BY <1>1 DEF InitSimulatedWan
  <2> HIDE DEF staged
  <2>3. CASE CommitOk(staged) /\ snapshot' = staged
    <3>1. iptFailures' = iptFailures /\ applied' = staged
      BY <2>3 DEF CommitOk
    <3> QED
      BY <2>1, <2>3, <3>1, CommitReplaces DEF TableInv, Copies
  <2>4. CASE CommitFails(staged)
    <3>1. iptFailures' = iptFailures + 1 \/ iptFailures' = iptFailures
      BY <2>4 DEF CommitFails, RestoreFails
    <3> QED
      BY <1>0, <2>1, <2>4, <3>1, CommitReplaces DEF TableInv
  <2>5. CASE UNCHANGED <<applied, to_del, snapshot, table, iptFailures>>
    BY <2>2, <2>5 DEF TableInv, Copies
  <2> QED
    BY <2>2, <2>3, <2>4, <2>5
<1>2. ASSUME NEW b, NEW done, NEW ok, NEW shown, EnforceStage1(b, done, ok, shown) PROVE TableInv'
  BY <1>2 DEF EnforceStage1, TableInv, Copies
<1>3. CASE EnforceStage2
  <2>1. Staged \in SUBSET Settings
    BY <1>0, NewLimitType DEF Staged
  <2>2. /\ UNCHANGED snapshot
        /\ (CommitOk(Staged) /\ pc' = "snapshot") \/ CommitFails(Staged)
    BY <1>3 DEF EnforceStage2
  <2>3. CASE CommitOk(Staged) /\ pc' = "snapshot"
    <3>1. iptFailures' = iptFailures /\ applied' = Staged
      BY <2>3 DEF CommitOk
    <3> QED
      BY <2>1, <2>2, <2>3, <3>1, CommitReplaces DEF TableInv, Copies
  <2>4. CASE CommitFails(Staged)
    <3>1. iptFailures' = iptFailures + 1 \/ iptFailures' = iptFailures
      BY <2>4 DEF CommitFails, RestoreFails
    <3> QED
      BY <1>0, <2>1, <2>4, <3>1, CommitReplaces DEF TableInv
  <2> QED
    BY <2>2, <2>3, <2>4
<1>4. CASE EnforceSnapshot
  BY <1>4 DEF EnforceSnapshot, TableInv, Copies
<1>5. ASSUME NEW done, NEW ok, EnforceStage3(done, ok) PROVE TableInv'
  BY <1>5 DEF EnforceStage3, TableInv, Copies
<1>6. CASE UNCHANGED vars
  BY <1>6 DEF vars, TableInv, Copies
<1> QED
  BY <1>1, <1>2, <1>3, <1>4, <1>5, <1>6 DEF Next

\* Larger limits give larger rates.
LEMMA RateGrows == \A x, y \in Nat : x <= y => Rate(x) <= Rate(y)
  BY EnforcerAssumption DEF Rate

\* InitSimulatedWan creates every class it recorded, at the full rate.
LEMMA InitSimulatedWanRate ==
    ASSUME IInv, TableInv, RateInv, NEW done, NEW ok \in BOOLEAN, InitSimulatedWan(done, ok)
    PROVE  RateInv'
<1> SUFFICES ASSUME NoFault' PROVE CallInv' /\ \A s \in Settings : RateOf(s)'
  BY DEF RateInv
<1> DEFINE wan == WanFlows \X Priorities
           staged == WanFlows \X {"hipri"}
           max == [s \in Settings |-> kMaxBandwidthBps]
<1>1. /\ TypeOK /\ tcFailures \in Nat /\ iptFailures \in Nat /\ pc = "init" /\ pc' = "idle"
      /\ granted \in [Flows -> Nat] /\ classes \in [Settings -> Int]
      /\ sys \in [Settings -> SysInfo]
  BY DEF IInv, TypeOK, InitSimulatedWan
<1>2. wan \subseteq Settings /\ staged \in SUBSET wan
  BY EnforcerAssumption DEF Settings, Priorities
<1>3. TcOutcome(wan, {}, done, ok, TRUE) /\ tcFailures' = 0 /\ iptFailures' = 0
  BY DEF InitSimulatedWan, NoFault
<1>4. tcFailures = 0 /\ iptFailures = 0
  <2>1. tcFailures = 0
    BY <1>1, <1>3 DEF TcOutcome
  <2>2. iptFailures' = iptFailures \/ iptFailures' = iptFailures + 1
    BY DEF InitSimulatedWan, CommitOk, CommitFails, RestoreFails
  <2> QED
    BY <1>1, <1>3, <2>1, <2>2
<1>5. /\ \A s \in Settings : /\ ~sys[s].class_id /\ ~sys[s].did_create /\ ~sys[s].late
                             /\ classes[s] = NoClass /\ sys[s].cur = 0
      /\ applied = {} /\ granted = [f \in Flows |-> kMaxBandwidthBps]
  BY <1>1, <1>4 DEF RateInv, NoFault, RateOf, CallInv, InCall
<1>6. ok /\ done = wan
  <2> DEFINE possible == {s \in wan : classes[s] = NoClass} \cup {s \in {} : classes[s] # NoClass}
  <2>1. possible = wan /\ wan \cup {} = wan
    BY <1>2, <1>5
  <2>2. /\ ok => done = wan \cup {}
        /\ tcFailures' = IF ~ok /\ ~(done = possible /\ possible # wan \cup {} /\ TRUE)
                         THEN tcFailures + 1 ELSE tcFailures
    BY <1>3 DEF TcOutcome
  <2> HIDE DEF possible, wan
  <2> QED
    BY <1>3, <1>4, <2>1, <2>2
<1>7. applied' = staged
  <2>1. CommitOk(staged) \/ CommitFails(staged)
    BY <1>6 DEF InitSimulatedWan
  <2>2. to_del = NoCopies /\ table = Copies(applied) /\ staged \in SUBSET Settings
    BY <1>2, <1>4 DEF TableInv
  <2> HIDE DEF staged
  <2> QED
    BY <1>1, <1>3, <1>4, <2>1, <2>2, CommitReplaces
<1>8. \A s \in Settings :
        /\ classes'[s] = IF s \in wan THEN Rate(kMaxBandwidthBps) ELSE NoClass
        /\ sys'[s].class_id = (s \in wan) /\ sys'[s].did_create = (s \in wan)
        /\ sys'[s].late = FALSE
        /\ sys'[s].cur = IF s \in wan THEN kMaxBandwidthBps ELSE 0
  <2>1. /\ classes' = RunTc(wan, max)
        /\ sys' = [s \in Settings |->
                     IF s \in wan
                     THEN [class_id |-> TRUE, cur |-> kMaxBandwidthBps, did_create |-> ok,
                           late |-> FALSE, matched |-> ok /\ s[2] = "hipri"]
                     ELSE sys[s]]
    BY <1>6 DEF InitSimulatedWan
  <2> TAKE s \in Settings
  <2> HIDE DEF wan
  <2>2. CASE s \in wan
    BY <1>6, <2>1, <2>2 DEF RunTc
  <2>3. CASE s \notin wan
    <3>1. sys'[s] = sys[s] /\ classes'[s] = classes[s]
      BY <2>1, <2>3 DEF RunTc
    <3>2. sys[s] \in SysInfo
      BY <1>1
    <3> QED
      BY <1>5, <2>3, <3>1, <3>2 DEF SysInfo
  <2> QED
    BY <2>2, <2>3
<1>9. Rate(kMaxBandwidthBps) \in Nat /\ kMaxBandwidthBps \in Nat
  BY RateType, EnforcerAssumption
<1>10. ASSUME NEW s \in Settings PROVE RateOf(s)'
  <2> HIDE DEF wan
  <2>1. CASE s \in wan
    <3>1. /\ classes'[s] = Rate(kMaxBandwidthBps) /\ sys'[s].cur = kMaxBandwidthBps
          /\ classes'[s] >= Rate(sys'[s].cur)
      BY <1>8, <1>9, <2>1
    <3>2. sys'[s].class_id = TRUE /\ sys'[s].did_create = TRUE /\ sys'[s].late = FALSE
      BY <1>8, <2>1
    <3> QED
      BY <1>1, <3>1, <3>2 DEF RateOf
  <2>2. CASE s \notin wan
    BY <1>1, <1>8, <1>9, <2>2 DEF RateOf
  <2> QED
    BY <2>1, <2>2
<1>11. CallInv'
  <2>1. \A s \in staged : s \in wan /\ s \in Settings /\ s[1] \in Flows
    BY <1>2 DEF Settings
  <2>2. granted' = granted
    BY DEF InitSimulatedWan
  <2>3. \A f \in Flows : granted[f] = kMaxBandwidthBps
    BY <1>5
  <2> HIDE DEF wan, staged
  <2> QED
    BY <1>1, <1>7, <1>8, <2>1, <2>2, <2>3 DEF CallInv, InCall
<1> QED
  BY <1>10, <1>11

\* Stage 1 creates the classes of new settings and raises the limits that
\* grow; the class of an applied setting keeps the rate its flow was granted.
LEMMA EnforceStage1Rate ==
    ASSUME IInv, RateInv, NEW b \in Bundles, NEW done, NEW ok \in BOOLEAN, NEW shown \in BOOLEAN,
           EnforceStage1(b, done, ok, shown)
    PROVE  RateInv'
<1> SUFFICES ASSUME NoFault' PROVE CallInv' /\ \A s \in Settings : RateOf(s)'
  BY DEF RateInv
<1> DEFINE in    == SettingsOf(b)
           early == {s \in in : When(s, b) = "early"}
           new   == [s \in Settings |-> IF s \in in THEN NewLimit(s[1], s[2], b) ELSE 0]
           info  == [s \in Settings |->
                       IF s \in in
                       THEN [class_id |-> sys[s].class_id \/ s \in early, cur |-> new[s],
                             did_create |-> sys[s].did_create,
                             late |-> \/ When(s, b) = "late"
                                      \/ When(s, b) = "same" /\ sys[s].late,
                             matched |-> Matched(s[1], s[2], b)]
                       ELSE sys[s]]
           adds  == ToCreate(early, info)
           changes == ToChange(early, info)
<1>1. /\ TypeOK /\ tcFailures \in Nat /\ pc = "idle" /\ pc' = "stage2" /\ bundle' = b
      /\ sys \in [Settings -> SysInfo] /\ classes \in [Settings -> Int]
      /\ applied \subseteq Settings /\ granted \in [Flows -> Nat]
      /\ tcFailures' = 0 /\ iptFailures' = 0
      /\ UNCHANGED <<applied, granted, iptFailures>>
  BY DEF IInv, TypeOK, EnforceStage1, NoFault
<1>2. TcOutcome(adds, changes, done, ok, shown)
  BY DEF EnforceStage1
<1>3. NoFault
  <2> HIDE DEF adds, changes
  <2> QED
    BY <1>1, <1>2 DEF NoFault, TcOutcome
<1>4. CallInv /\ \A s \in Settings : RateOf(s)
  BY <1>3 DEF RateInv
<1>5. \A s \in in : s \in Settings /\ s[2] \in Priorities
  BY BundleFacts
<1>6. \A s \in in : /\ info[s].did_create = sys[s].did_create
                    /\ info[s].matched = Matched(s[1], s[2], b)
  BY <1>5
<1>7. /\ adds = {s \in early : ~sys[s].did_create}
      /\ changes = {s \in early : sys[s].did_create /\ Matched(s[1], s[2], b)}
  <2>1. early \subseteq in
    OBVIOUS
  <2> HIDE DEF info, early, in
  <2> QED
    BY <1>6, <2>1 DEF ToCreate, ToChange
<1>8. ok /\ done = adds \cup changes
  <2>1. /\ \A s \in adds : classes[s] = NoClass
        /\ \A s \in changes : classes[s] # NoClass
    <3>1. \A s \in early : s \in Settings
      BY <1>5
    <3> HIDE DEF early, adds, changes
    <3> QED
      BY <1>4, <1>7, <3>1 DEF RateOf, IInv, CreatedExist
  <2> HIDE DEF adds, changes
  <2> QED
    BY <1>1, <1>2, <2>1, TcRunsAll
<1>9. ASSUME NEW s \in Settings \ in PROVE sys'[s] = sys[s] /\ classes'[s] = classes[s]
  <2>1. s \notin adds /\ s \notin done /\ info[s] = sys[s]
    BY <1>7, <1>8, <1>9
  <2>2. /\ sys'[s] = [info[s] EXCEPT
                        !.did_create = @ \/ (s \in adds /\ (ok \/ (shown /\ classes'[s] # NoClass)))]
        /\ classes' = RunTc(done, new)
    BY DEF EnforceStage1
  <2>3. sys[s] \in SysInfo
    BY <1>1
  <2> HIDE DEF in, adds, info, new
  <2> QED
    BY <2>1, <2>2, <2>3 DEF RunTc, SysInfo
<1>10. ASSUME NEW s \in in
       PROVE  /\ sys'[s].class_id = (sys[s].class_id \/ s \in early)
              /\ sys'[s].did_create = (sys[s].did_create \/ s \in adds)
              /\ sys'[s].late = (When(s, b) = "late" \/ (When(s, b) = "same" /\ sys[s].late))
              /\ sys'[s].matched = Matched(s[1], s[2], b)
              /\ sys'[s].cur = NewLimit(s[1], s[2], b)
              /\ classes'[s] = IF s \in adds \cup changes THEN Rate(NewLimit(s[1], s[2], b))
                               ELSE classes[s]
  <2>1. s \in Settings /\ new[s] = NewLimit(s[1], s[2], b)
    BY <1>5, <1>10
  <2>2. /\ sys'[s] = [info[s] EXCEPT
                        !.did_create = @ \/ (s \in adds /\ (ok \/ (shown /\ classes'[s] # NoClass)))]
        /\ classes' = RunTc(done, new)
    BY <2>1 DEF EnforceStage1
  <2> DEFINE class_id == sys[s].class_id \/ s \in early
             late == When(s, b) = "late" \/ (When(s, b) = "same" /\ sys[s].late)
             matched == Matched(s[1], s[2], b)
  <2>3. info[s] = [class_id |-> class_id, cur |-> new[s], did_create |-> sys[s].did_create,
                   late |-> late, matched |-> matched]
    BY <1>10, <2>1
  <2> HIDE DEF in, adds, changes, early, info, new, class_id, late, matched
  <2>4. /\ sys'[s].class_id = class_id /\ sys'[s].late = late /\ sys'[s].matched = matched
        /\ sys'[s].did_create = (sys[s].did_create \/ s \in adds)
        /\ sys'[s].cur = NewLimit(s[1], s[2], b)
    BY <1>8, <2>1, <2>2, <2>3
  <2>5. classes'[s] = IF s \in adds \cup changes THEN Rate(NewLimit(s[1], s[2], b))
                      ELSE classes[s]
    BY <1>8, <2>1, <2>2 DEF RunTc
  <2> QED
    BY <2>4, <2>5 DEF class_id, late, matched
<1>11. ASSUME NEW s \in in
       PROVE  /\ RateOf(s)'
              /\ sys[s].did_create => sys'[s].did_create /\ classes'[s] >= Rate(sys[s].cur)
  <2> DEFINE nl == NewLimit(s[1], s[2], b)
  <2>1. /\ s \in Settings /\ sys[s] \in SysInfo /\ classes[s] \in Int /\ RateOf(s)
        /\ nl \in Nat /\ Rate(nl) \in Nat /\ s \in SettingsOf(bundle')
    BY <1>1, <1>4, <1>5, <1>11, NewLimitType, RateType
  <2>2. /\ sys[s].cur \in Nat /\ Rate(sys[s].cur) \in Nat
        /\ sys[s].did_create \in BOOLEAN /\ sys[s].late = FALSE
        /\ sys[s].class_id = sys[s].did_create
        /\ ~sys[s].did_create => sys[s].cur = 0 /\ classes[s] = NoClass
    <3>1. sys[s].cur \in Nat /\ sys[s].did_create \in BOOLEAN /\ sys[s].late \in BOOLEAN
      BY <2>1 DEF SysInfo
    <3> QED
      BY <1>1, <2>1, <3>1, RateType DEF RateOf, InCall
  <2>3. /\ ~Matched(s[1], s[2], b) /\ Limited(s[2]) => nl = 0
        /\ ~Limited(s[2]) => nl = kMaxBandwidthBps
    BY BundleFacts
  <2>4. /\ When(s, b) = "early" <=> (MustCreate(s, b) \/ nl > sys[s].cur)
        /\ When(s, b) = "late" <=> (~MustCreate(s, b) /\ nl < sys[s].cur)
        /\ When(s, b) = "same" <=> (~MustCreate(s, b) /\ nl = sys[s].cur)
        /\ When(s, b) \in {"early", "late", "same"}
    <3> DEFINE cur == sys[s].cur
               must == MustCreate(s, b)
    <3>1. When(s, b) = CASE must \/ nl > cur -> "early"
                         [] ~must /\ nl < cur -> "late"
                         [] OTHER -> "same"
      BY DEF When
    <3>2. nl \in Nat /\ cur \in Nat
      BY <2>1, <2>2
    <3> HIDE DEF nl, cur, must
    <3>3. /\ When(s, b) = "early" <=> (must \/ nl > cur)
          /\ When(s, b) = "late" <=> (~must /\ nl < cur)
          /\ When(s, b) = "same" <=> (~must /\ nl = cur)
          /\ When(s, b) \in {"early", "late", "same"}
      <4>1. CASE must \/ nl > cur
        BY <3>1, <3>2, <4>1
      <4>2. CASE ~must /\ nl < cur
        BY <3>1, <3>2, <4>2
      <4>3. CASE ~must /\ nl = cur
        BY <3>1, <3>2, <4>3
      <4> QED
        BY <3>2, <4>1, <4>2, <4>3
    <3> QED
      BY <3>3 DEF cur, must
  <2>5. /\ sys'[s].class_id = (sys[s].class_id \/ s \in early)
        /\ sys'[s].did_create = (sys[s].did_create \/ s \in adds)
        /\ sys'[s].late = (When(s, b) = "late" \/ (When(s, b) = "same" /\ sys[s].late))
        /\ sys'[s].cur = nl
        /\ classes'[s] = IF s \in adds \cup changes THEN Rate(nl) ELSE classes[s]
        /\ pc' # "init" /\ InCall'
    BY <1>1, <1>10, <1>11 DEF InCall
  <2>6. /\ s \in early <=> When(s, b) = "early"
        /\ s \in adds <=> When(s, b) = "early" /\ ~sys[s].did_create
        /\ s \in changes <=> When(s, b) = "early" /\ sys[s].did_create /\ Matched(s[1], s[2], b)
    BY <1>7, <1>11
  <2> HIDE DEF nl, early, adds, changes, in
  <2>7. CASE When(s, b) = "early"
    <3>1. ~(sys[s].did_create /\ ~Matched(s[1], s[2], b))
      <4> SUFFICES ASSUME sys[s].did_create, ~Matched(s[1], s[2], b) PROVE FALSE
        OBVIOUS
      <4>1. nl > sys[s].cur
        BY <2>4, <2>7 DEF MustCreate
      <4>2. ~Limited(s[2]) => nl = sys[s].cur
        BY <2>1, <2>3 DEF RateOf
      <4>3. Limited(s[2]) => nl = 0
        BY <2>3
      <4>4. nl \in Nat /\ sys[s].cur \in Nat
        BY <2>1, <2>2
      <4> QED
        BY <4>1, <4>2, <4>3, <4>4
    <3>2. /\ sys'[s].class_id = TRUE /\ sys'[s].did_create = TRUE /\ sys'[s].late = FALSE
          /\ classes'[s] = Rate(nl)
      BY <2>2, <2>5, <2>6, <2>7, <3>1
    <3>3. RateOf(s)'
      <4>1. classes'[s] >= Rate(sys'[s].cur) /\ classes'[s] = Rate(sys'[s].cur)
        <5>1. Rate(sys'[s].cur) = Rate(nl)
          BY <2>5, Zenon
        <5>2. Rate(nl) \in Nat /\ classes'[s] = Rate(nl)
          BY <2>1, <3>2
        <5>3. classes'[s] = Rate(sys'[s].cur) /\ Rate(sys'[s].cur) \in Nat
          BY <5>1, <5>2, Zenon
        <5>4. \A x \in Nat : x >= x
          OBVIOUS
        <5> QED
          BY <5>3, <5>4, Zenon
      <4> QED
        BY <2>3, <2>5, <3>2, <4>1 DEF RateOf
    <3>4. sys[s].did_create => classes'[s] >= Rate(sys[s].cur)
      <4>1. sys[s].did_create => nl > sys[s].cur
        BY <2>2, <2>4, <2>7 DEF MustCreate
      <4>2. nl \in Nat /\ sys[s].cur \in Nat /\ Rate(nl) \in Nat /\ Rate(sys[s].cur) \in Nat
        BY <2>1, <2>2
      <4>3. nl > sys[s].cur => Rate(nl) >= Rate(sys[s].cur)
        BY <4>2, RateGrows
      <4> QED
        BY <3>2, <4>1, <4>3
    <3> QED
      BY <3>2, <3>3, <3>4
  <2>8. CASE When(s, b) = "late"
    <3>1. nl < sys[s].cur /\ sys[s].did_create = TRUE
      <4>1. nl < sys[s].cur
        BY <2>4, <2>8
      <4>2. sys[s].cur # 0
        <5>1. nl \in Nat /\ sys[s].cur \in Nat
          BY <2>1, <2>2
        <5> QED
          BY <4>1, <5>1
      <4> QED
        BY <2>2, <4>1, <4>2
    <3>5. Limited(s[2])
      <4>1. nl # sys[s].cur
        <5>1. nl \in Nat /\ sys[s].cur \in Nat
          BY <2>1, <2>2
        <5> QED
          BY <3>1, <5>1
      <4>2. ~Limited(s[2]) => sys[s].cur = kMaxBandwidthBps
        BY <2>1, <3>1 DEF RateOf
      <4> QED
        BY <2>3, <4>1, <4>2
    <3>2. /\ sys'[s].class_id = TRUE /\ sys'[s].did_create = TRUE /\ sys'[s].late = TRUE
          /\ classes'[s] = classes[s]
      BY <2>2, <2>5, <2>6, <2>8, <3>1
    <3>3. classes[s] >= Rate(sys[s].cur) /\ Rate(sys[s].cur) >= Rate(nl)
      <4>1. classes[s] >= Rate(sys[s].cur)
        BY <2>1, <3>1 DEF RateOf
      <4>2. nl \in Nat /\ sys[s].cur \in Nat /\ Rate(nl) \in Nat /\ Rate(sys[s].cur) \in Nat
        BY <2>1, <2>2
      <4>3. Rate(nl) <= Rate(sys[s].cur)
        BY <3>1, <4>2, RateGrows
      <4> QED
        BY <4>1, <4>2, <4>3
    <3>4. classes'[s] >= Rate(sys'[s].cur) /\ classes'[s] >= Rate(sys[s].cur)
      <4>1. Rate(sys'[s].cur) = Rate(nl)
        BY <2>5, Zenon
      <4> QED
        BY <2>1, <2>2, <3>2, <3>3, <4>1
    <3> QED
      BY <2>1, <2>3, <2>5, <3>2, <3>4, <3>5 DEF RateOf
  <2>9. CASE When(s, b) = "same"
    <3>1. /\ sys'[s].class_id = sys[s].did_create /\ sys'[s].did_create = sys[s].did_create
          /\ sys'[s].late = FALSE /\ classes'[s] = classes[s]
      BY <2>2, <2>5, <2>6, <2>9
    <3>2. sys'[s].cur = sys[s].cur
      BY <2>4, <2>5, <2>9
    <3> QED
      BY <2>1, <2>2, <2>5, <3>1, <3>2 DEF RateOf
  <2> QED
    BY <2>4, <2>7, <2>8, <2>9
<1>12. ASSUME NEW s \in Settings PROVE RateOf(s)'
  <2>1. CASE s \in in
    BY <1>11, <2>1
  <2>2. CASE s \notin in
    <3>1. sys'[s] = sys[s] /\ classes'[s] = classes[s] /\ RateOf(s) /\ pc' # "init"
      BY <1>1, <1>4, <1>9, <2>2
    <3>2. ~sys[s].late
      BY <1>1, <3>1 DEF RateOf, InCall
    <3> QED
      BY <3>1, <3>2 DEF RateOf
  <2> QED
    BY <2>1, <2>2
<1>13. CallInv'
  <2>1. ASSUME NEW s \in applied
        PROVE  sys'[s].did_create /\ classes'[s] >= Rate(granted[s[1]])
    <3>1. sys[s].did_create /\ sys[s].cur = granted[s[1]] /\ s \in Settings
      BY <1>1, <1>4, <2>1 DEF CallInv
    <3>2. CASE s \in in
      BY <1>11, <3>1, <3>2
    <3>3. CASE s \notin in
      BY <1>4, <1>9, <3>1, <3>3 DEF RateOf
    <3> QED
      BY <3>2, <3>3
  <2>2. \A s \in SettingsOf(bundle') : /\ sys'[s].matched = Matched(s[1], s[2], b)
                                       /\ sys'[s].cur = NewLimit(s[1], s[2], b)
    BY <1>1, <1>10
  <2> HIDE DEF in, early, adds, changes, info, new
  <2> QED
    BY <1>1, <2>1, <2>2 DEF CallInv
<1> QED
  BY <1>12, <1>13

\* The commit changes no rate, and succeeds when nothing fails.
LEMMA EnforceStage2Rate == ASSUME IInv, TableInv, RateInv, EnforceStage2 PROVE RateInv'
<1> SUFFICES ASSUME NoFault' PROVE CallInv' /\ \A s \in Settings : RateOf(s)'
  BY DEF RateInv
<1>1. /\ TypeOK /\ iptFailures \in Nat /\ pc = "stage2" /\ Staged \in SUBSET Settings
      /\ UNCHANGED <<sys, classes, tcFailures>>
  BY NewLimitType DEF IInv, TypeOK, EnforceStage2, Staged
<1>2. /\ tcFailures = 0 /\ iptFailures' = 0
      /\ \/ CommitOk(Staged) /\ pc' = "snapshot" /\ UNCHANGED bundle
         \/ CommitFails(Staged)
  BY DEF NoFault, EnforceStage2
<1>3. iptFailures = 0
  <2>1. iptFailures' = iptFailures \/ iptFailures' = iptFailures + 1
    BY <1>2 DEF CommitOk, CommitFails, RestoreFails
  <2> QED
    BY <1>1, <1>2, <2>1
<1>4. to_del = NoCopies /\ table = Copies(applied)
  BY <1>3 DEF TableInv
<1>5. ~CommitFails(Staged)
  BY <1>1, <1>2, <1>3, <1>4, CommitReplaces
<1>6. pc' = "snapshot" /\ UNCHANGED bundle /\ applied' = Staged
  BY <1>2, <1>5 DEF CommitOk
<1>7. CallInv /\ \A s \in Settings : RateOf(s)
  BY <1>2, <1>3 DEF RateInv, NoFault
<1>8. ASSUME NEW s \in Settings PROVE RateOf(s)'
  BY <1>1, <1>6, <1>7 DEF RateOf, InCall
<1>9. CallInv'
  BY <1>1, <1>6, <1>7 DEF CallInv, InCall, Staged
<1> QED
  BY <1>8, <1>9

\* Neither does the copy of the snapshot.
LEMMA EnforceSnapshotRate == ASSUME RateInv, EnforceSnapshot PROVE RateInv'
<1>1. /\ pc = "snapshot" /\ pc' = "stage3"
      /\ UNCHANGED <<sys, classes, applied, bundle, granted, tcFailures, iptFailures>>
  BY DEF EnforceSnapshot
<1>2. CallInv => CallInv'
  BY <1>1 DEF CallInv, InCall, Staged
<1>3. ASSUME NEW s \in Settings, RateOf(s) PROVE RateOf(s)'
  BY <1>1, <1>3 DEF RateOf, InCall
<1> QED
  BY <1>1, <1>2, <1>3 DEF RateInv, NoFault

\* Stage 3 gives every matched class the limit of the bundle.
LEMMA EnforceStage3Rate ==
    ASSUME IInv, RateInv, NEW done, NEW ok \in BOOLEAN, EnforceStage3(done, ok)
    PROVE  RateInv'
<1> SUFFICES ASSUME NoFault' PROVE CallInv' /\ \A s \in Settings : RateOf(s)'
  BY DEF RateInv
<1> DEFINE late == {s \in SettingsOf(bundle) : sys[s].late}
           adds == ToCreate(late, sys)
           changes == ToChange(late, sys)
           limit == [s \in Settings |-> sys[s].cur]
<1>1. /\ TypeOK /\ tcFailures \in Nat /\ pc = "stage3" /\ pc' = "idle" /\ bundle \in Bundles
      /\ sys \in [Settings -> SysInfo] /\ classes \in [Settings -> Int]
      /\ tcFailures' = 0 /\ iptFailures = 0 /\ UNCHANGED <<applied, iptFailures>>
      /\ granted' = Granted
  BY DEF IInv, TypeOK, EnforceStage3, NoFault
<1>2. TcOutcome(adds, changes, done, ok, TRUE)
  BY DEF EnforceStage3
<1>3. tcFailures = 0
  <2> HIDE DEF adds, changes
  <2> QED
    BY <1>1, <1>2 DEF TcOutcome
<1>4. CallInv /\ \A s \in Settings : RateOf(s)
  BY <1>1, <1>3 DEF RateInv, NoFault
<1>5. \A s \in SettingsOf(bundle) : s \in Settings
  BY <1>1, NewLimitType
<1>6. adds = {} /\ \A s \in changes : classes[s] # NoClass
  <2>1. \A s \in late : sys[s].did_create /\ s \in Settings
    BY <1>4, <1>5 DEF RateOf
  <2> HIDE DEF late
  <2> QED
    BY <2>1 DEF ToCreate, ToChange, IInv, CreatedExist
<1>7. done = changes
  <2> DEFINE possible == {s \in adds : classes[s] = NoClass} \cup {s \in changes : classes[s] # NoClass}
  <2>1. possible = adds \cup changes
    <3> HIDE DEF adds, changes
    <3> QED
      BY <1>6
  <2>2. /\ ok => done = adds \cup changes
        /\ tcFailures' = IF ~ok /\ ~(done = possible /\ possible # adds \cup changes /\ TRUE)
                         THEN tcFailures + 1 ELSE tcFailures
    BY <1>2 DEF TcOutcome
  <2> HIDE DEF possible, adds, changes
  <2>3. ok
    BY <1>1, <1>3, <2>1, <2>2
  <2> QED
    BY <1>6, <2>2, <2>3
<1>8. ASSUME NEW s \in Settings
      PROVE  /\ sys'[s].class_id = sys[s].class_id /\ sys'[s].did_create = sys[s].did_create
             /\ sys'[s].cur = sys[s].cur /\ sys'[s].late = FALSE
             /\ classes'[s] = IF sys[s].late /\ sys[s].matched THEN Rate(sys[s].cur) ELSE classes[s]
  <2>1. /\ sys'[s] = IF s \in late THEN [sys[s] EXCEPT !.late = FALSE, !.class_id = TRUE]
                                    ELSE sys[s]
        /\ classes' = RunTc(done, limit)
    BY DEF EnforceStage3
  <2>2. sys[s] \in SysInfo /\ RateOf(s)
    BY <1>1, <1>4
  <2>3. /\ sys[s].class_id \in BOOLEAN /\ sys[s].did_create \in BOOLEAN
        /\ sys[s].late \in BOOLEAN /\ sys[s].matched \in BOOLEAN
    BY <2>2 DEF SysInfo
  <2>4. /\ s \in late <=> sys[s].late
        /\ s \in late => sys[s].class_id = TRUE
    BY <2>2, <2>3 DEF RateOf
  <2>5. s \in changes <=> sys[s].late /\ sys[s].matched
    BY <2>2, <2>4 DEF ToChange, RateOf
  <2> HIDE DEF late, changes, limit
  <2>6. /\ sys'[s].class_id = sys[s].class_id /\ sys'[s].did_create = sys[s].did_create
        /\ sys'[s].cur = sys[s].cur /\ sys'[s].late = FALSE
    BY <2>1, <2>2, <2>3, <2>4 DEF SysInfo
  <2>7. limit[s] = sys[s].cur
    BY DEF limit
  <2>8. classes'[s] = IF sys[s].late /\ sys[s].matched THEN Rate(sys[s].cur) ELSE classes[s]
    BY <1>7, <2>1, <2>5, <2>7 DEF RunTc
  <2> QED
    BY <2>6, <2>8
<1>9. ASSUME NEW s \in Settings PROVE RateOf(s)'
  <2>1. /\ RateOf(s) /\ sys[s] \in SysInfo /\ classes[s] \in Int
        /\ Rate(sys[s].cur) \in Nat /\ Rate(sys'[s].cur) = Rate(sys[s].cur)
    <3>1. sys[s] \in SysInfo /\ sys[s].cur \in Nat
      BY <1>1 DEF SysInfo
    <3> QED
      BY <1>1, <1>4, <1>8, <3>1, RateType
  <2>2. sys[s].late /\ ~sys[s].matched => sys[s].cur = 0
    <3> SUFFICES ASSUME sys[s].late, ~sys[s].matched PROVE sys[s].cur = 0
      OBVIOUS
    <3>1. s \in SettingsOf(bundle) /\ Limited(s[2])
      BY <2>1 DEF RateOf
    <3>2. ~Matched(s[1], s[2], bundle) /\ sys[s].cur = NewLimit(s[1], s[2], bundle)
      BY <1>1, <1>4, <3>1 DEF CallInv, InCall
    <3> QED
      BY <1>1, <3>1, <3>2, BundleFacts
  <2>3. sys[s].did_create =>
          /\ classes'[s] >= Rate(sys[s].cur)
          /\ sys[s].cur > 0 => classes'[s] = Rate(sys[s].cur)
    <3>1. CASE sys[s].late /\ sys[s].matched
      <4>1. classes'[s] = Rate(sys[s].cur)
        BY <1>8, <3>1
      <4> QED
        BY <2>1, <4>1
    <3>2. CASE ~(sys[s].late /\ sys[s].matched)
      <4>1. classes'[s] = classes[s]
        BY <1>8, <3>2
      <4>2. sys[s].did_create =>
              /\ classes[s] >= Rate(sys[s].cur)
              /\ sys[s].cur > 0 /\ ~sys[s].late => classes[s] = Rate(sys[s].cur)
        BY <2>1 DEF RateOf
      <4>3. sys[s].late => sys[s].cur = 0
        BY <2>2, <3>2
      <4> QED
        BY <4>1, <4>2, <4>3
    <3> QED
      BY <3>1, <3>2
  <2>4. ~sys[s].did_create => classes'[s] = NoClass /\ sys[s].cur = 0
    BY <1>8, <2>1 DEF RateOf
  <2> QED
    BY <1>1, <1>8, <2>1, <2>3, <2>4 DEF RateOf
<1>10. CallInv'
  <2>1. ASSUME NEW s \in applied PROVE sys'[s].did_create /\ sys'[s].cur = Granted[s[1]]
    <3>1. s \in SettingsOf(bundle) /\ s \in Settings /\ sys[s].matched /\ sys[s].did_create
      BY <1>1, <1>4, <1>5, <2>1 DEF CallInv, Staged
    <3>2. Matched(s[1], s[2], bundle) /\ sys[s].cur = NewLimit(s[1], s[2], bundle)
      BY <1>1, <1>4, <3>1 DEF CallInv, InCall
    <3>3. s[1] \in DOMAIN bundle /\ s[1] \in Flows
      BY <3>1 DEF SettingsOf, Settings
    <3>4. sys[s].cur = Effective(s[1], bundle)
      BY <1>1, <3>1, <3>2, BundleFacts
    <3> QED
      BY <1>8, <3>1, <3>3, <3>4 DEF Granted
  <2> QED
    BY <1>1, <2>1 DEF CallInv, InCall
<1> QED
  BY <1>9, <1>10

\* The device has no class and no rule at first.
LEMMA RateInit == ASSUME Init PROVE TableInv /\ RateInv
<1>1. TableInv
  BY DEF Init, TableInv, NoCopies, Copies
<1>2. CallInv
  BY DEF Init, CallInv, InCall
<1>3. ASSUME NEW s \in Settings PROVE RateOf(s)
  BY DEF Init, RateOf, NewSys
<1> QED
  BY <1>1, <1>2, <1>3 DEF RateInv

\* Every step keeps the rates.
LEMMA RateStep == ASSUME IInv, TableInv, RateInv, [Next]_vars PROVE RateInv'
<1>1. ASSUME NEW done \in SUBSET (WanFlows \X Priorities), NEW ok \in BOOLEAN,
             InitSimulatedWan(done, ok)
      PROVE  RateInv'
  BY <1>1, InitSimulatedWanRate
<1>2. ASSUME NEW b \in Bundles, NEW done \in SUBSET SettingsOf(b),
             NEW ok \in BOOLEAN, NEW shown \in BOOLEAN, EnforceStage1(b, done, ok, shown)
      PROVE  RateInv'
  BY <1>2, EnforceStage1Rate
<1>3. CASE EnforceStage2
  BY <1>3, EnforceStage2Rate
<1>4. CASE EnforceSnapshot
  BY <1>4, EnforceSnapshotRate
<1>5. ASSUME NEW done \in SUBSET SettingsOf(bundle), NEW ok \in BOOLEAN,
             EnforceStage3(done, ok)
      PROVE  RateInv'
  BY <1>5, EnforceStage3Rate
<1>6. CASE UNCHANGED vars
  <2>1. CallInv => CallInv'
    BY <1>6 DEF vars, CallInv, InCall, Staged
  <2>2. ASSUME NEW s \in Settings, RateOf(s) PROVE RateOf(s)'
    BY <1>6, <2>2 DEF vars, RateOf, InCall
  <2>3. NoFault' = NoFault
    BY <1>6 DEF vars, NoFault
  <2> QED
    BY <2>1, <2>2, <2>3 DEF RateInv
<1> QED
  BY <1>1, <1>2, <1>3, <1>4, <1>5, <1>6 DEF Next

AllInv == IInv /\ TableInv /\ RateInv

\* The strengthened invariant is inductive.
LEMMA AllInvHolds == Spec => []AllInv
<1>1. Init => AllInv
  BY InitIInv, RateInit DEF AllInv
<1>2. AllInv /\ [Next]_vars => AllInv'
  BY NextIInv, TableStep, RateStep DEF AllInv, IInv
<1> QED
  BY <1>1, <1>2, PTL DEF Spec

\* Reports are labelled from a snapshot that equals the kernel's table except
\* between a commit and the copy, unless an iptables-restore failed.
THEOREM SnapshotIsCurrent == Spec => []SnapshotCurrent
<1>1. AllInv => SnapshotCurrent
  BY DEF AllInv, TableInv, SnapshotCurrent, SnapshotIsTable
<1> QED
  BY <1>1, AllInvHolds, PTL

\* The three stages of EnforceAllocs never hold a flow below both its old and
\* its new limit, for any bundles, while no command fails.
THEOREM NeverHeldBelowBoth == Spec => []NeverBelowBoth
<1>1. ASSUME AllInv PROVE NeverBelowBoth
  <2> SUFFICES ASSUME NoFault, NEW s \in Settings, table[s] > 0
               PROVE  \/ classes[s] >= Rate(granted[s[1]])
                      \/ classes[s] >= Rate(Granted[s[1]])
    BY DEF NeverBelowBoth, NoFault
  <2>1. /\ s \in applied /\ CallInv /\ RateOf(s) /\ bundle \in Bundles
        /\ pc \in {"init", "idle", "stage2", "snapshot", "stage3"}
    <3>1. table = Copies(applied)
      BY <1>1 DEF NoFault, AllInv, TableInv
    <3>2. s \in applied
      BY <3>1 DEF Copies
    <3> QED
      BY <1>1, <3>2 DEF AllInv, RateInv, IInv, TypeOK
  <2>2. CASE pc = "idle"
    <3>1. sys[s].did_create /\ sys[s].cur = granted[s[1]]
      BY <2>1, <2>2 DEF CallInv
    <3> QED
      BY <2>1, <3>1 DEF RateOf
  <2>3. CASE pc = "stage2"
    BY <2>1, <2>3 DEF CallInv
  <2>4. CASE pc \in {"snapshot", "stage3"}
    <3>1. s \in SettingsOf(bundle) /\ sys[s].matched /\ sys[s].did_create
      BY <2>1, <2>4 DEF CallInv, Staged
    <3>2. Matched(s[1], s[2], bundle) /\ sys[s].cur = NewLimit(s[1], s[2], bundle)
      BY <2>1, <2>4, <3>1 DEF CallInv, InCall
    <3>3. s[1] \in DOMAIN bundle /\ s[1] \in Flows
      BY <3>1 DEF SettingsOf, Settings
    <3>4. sys[s].cur = Granted[s[1]]
      BY <2>1, <3>1, <3>2, <3>3, BundleFacts DEF Granted
    <3> QED
      BY <2>1, <3>1, <3>4 DEF RateOf
  <2> QED
    BY <2>1, <2>2, <2>3, <2>4 DEF CallInv
<1> QED
  BY <1>1, AllInvHolds, PTL

\* Between calls the class a flow is sent to has the rate of the flow's last
\* positive allocation, while no command fails.
THEOREM RatesAreEnforced == Spec => []RatesEnforced
<1>1. ASSUME AllInv PROVE RatesEnforced
  <2> SUFFICES ASSUME NoFault, pc = "idle", NEW s \in Settings, table[s] > 0, granted[s[1]] > 0
               PROVE  classes[s] = Rate(granted[s[1]])
    BY DEF RatesEnforced, NoFault
  <2>1. table = Copies(applied) /\ CallInv /\ RateOf(s)
    BY <1>1 DEF NoFault, AllInv, TableInv, RateInv
  <2>2. s \in applied
    BY <2>1 DEF Copies
  <2>3. sys[s].did_create /\ sys[s].cur = granted[s[1]] /\ ~sys[s].late
    BY <2>1, <2>2 DEF CallInv, RateOf, InCall
  <2> QED
    BY <2>1, <2>3 DEF RateOf
<1> QED
  BY <1>1, AllInvHolds, PTL
=============================================================================
