------------------------ MODULE IptablesController ------------------------
(***************************************************************************)
(* heyp/host-agent/linux-enforcer/iptables-controller.cc: how a batch of   *)
(* settings becomes rules of a chain of the mangle table, and how          *)
(* SettingsFindDscp answers from the batch what the chain does to a flow.  *)
(*                                                                         *)
(* A setting gives the packets of a match (ports, 0 for any, and address)  *)
(* a class and a DSCP; the DSCP follows from the class here.  OUTPUT and   *)
(* FORWARD get the same lines, so one chain is modelled.  iptables-restore *)
(* applies all its lines or none (LinuxEnforcer has its other failures).   *)
(***************************************************************************)
EXTENDS Integers, Sequences, SequencesExt

CONSTANTS
    Ports,         \* <<src_port, dst_port>> of settings
    Packets,       \* <<src_port, dst_port>> of flows
    Addrs, Classes,
    MaxSettings,   \* bound: settings of one batch
    MaxCommits     \* bound: calls of CommitChanges

VARIABLES
    applied, to_del,     \* Controller: sorted sequences of settings
    snapshot,            \* LinuxHostEnforcer: ipt_snapshot_
    chain,               \* kernel: rules, first to last
    commits,
    mended               \* history: a commit succeeded after one that failed

vars == <<applied, to_del, snapshot, chain, commits, mended>>

NoDscp == 0

\* Setting: <<src_port, dst_port, dst_addr, class>>, compared field by field.
Setting == {<<p[1], p[2], a, c>> : p \in Ports, a \in Addrs, c \in Classes}
Match(s) == <<s[1], s[2], s[3]>>

Less(s, t) ==
    \E i \in 1..4 : s[i] < t[i] /\ \A j \in 1..(i - 1) : s[j] = t[j]

Init ==
    /\ applied = <<>> /\ to_del = <<>> /\ snapshot = <<>>
    /\ chain = <<>>
    /\ commits = 0 /\ mended = FALSE
-----------------------------------------------------------------------------
(* ComputeDiff *)

ComputeDiff_Sort(batch) == SortSeq(batch, Less)

Count(x, s) == Len(SelectSeq(s, LAMBDA y : y = x))

\* std::set_difference: an element that is k times in s and m times in t is
\* copied max(k - m, 0) times.
SetDifference(s, t) ==
    LET keep(i) == Count(s[i], SubSeq(s, 1, i)) > Count(s[i], t)
        Step(acc, i) == IF keep(i) THEN Append(acc, s[i]) ELSE acc
    IN  FoldLeft(Step, <<>>, [i \in 1..Len(s) |-> i])
-----------------------------------------------------------------------------
(* AddRuleLinesToDelete, AddRuleLinesToAdd.  dscps_to_ignore_class_id is   *)
(* empty in the enforcer.                                                  *)

Rules(s) == <<<<"CLASSIFY", Match(s), s[4]>>, <<"DSCP", Match(s), s[4]>>,
              <<"RETURN", Match(s), NoDscp>>>>

\* -D removes the first rule equal to the given one, and fails if none is.
DeleteRule(c, r) ==
    LET i == SelectInSeq(c, LAMBDA x : x = r) IN IF i = 0 THEN c ELSE RemoveAt(c, i)

AddRuleLinesToDelete(c, batch) ==
    FoldLeft(DeleteRule, c, FlattenSeq([i \in 1..Len(batch) |-> Rules(batch[i])]))

Deletable(c, batch) ==
    \A i \in 1..Len(batch) : \A r \in ToSet(Rules(batch[i])) :
        Count(r, c) >= Count(batch[i], batch)

FineGrained(s) == s[1] # 0 \/ s[2] # 0

\* Mutant: new rules go to the end of the chain.
AddRules_Append(c, s) == c \o Rules(s)

\* The lines of a fine-grained setting are inserted at the head, last line
\* first; those of the others are appended.
AddRules(c, s) == IF FineGrained(s) THEN Rules(s) \o c ELSE c \o Rules(s)

AddRuleLinesToAdd(c, batch) == FoldLeft(AddRules, c, batch)
-----------------------------------------------------------------------------
(* SettingsFindDscp *)

RECURSIVE LowerBound(_, _, _, _)
LowerBound(s, x, first, len) ==
    IF len = 0 THEN first
    ELSE LET half == len \div 2
             mid  == first + half
         IN  IF Less(s[mid], x) THEN LowerBound(s, x, mid + 1, len - half - 1)
                                ELSE LowerBound(s, x, first, half)

\* The index of the entry of the match m, or 0.
Entry(batch, m) ==
    LET i == LowerBound(batch, Append(m, NoDscp), 1, Len(batch))
    IN  IF i <= Len(batch) /\ Match(batch[i]) = m THEN i ELSE 0

\* Exact entry, then without source port, without destination port, without
\* either.
Tries(sport, dport, addr) ==
    <<<<sport, dport, addr>>, <<0, dport, addr>>, <<sport, 0, addr>>, <<0, 0, addr>>>>

SettingsFindDscp(batch, sport, dport, addr) ==
    LET tries == Tries(sport, dport, addr)
        hit   == SelectInSeq(tries, LAMBDA m : Entry(batch, m) # 0)
    IN  IF hit = 0 THEN NoDscp ELSE batch[Entry(batch, tries[hit])][4]
-----------------------------------------------------------------------------
\* Stage, in the order of staged, and CommitChanges; the enforcer copies
\* AppliedSettings after a commit that succeeded.
CommitChanges(staged, fails) ==
    LET new == ComputeDiff_Sort(staged)
        del == to_del \o SetDifference(applied, new)
        add == SetDifference(new, applied)
        ok  == ~fails /\ Deletable(chain, del)
    IN  /\ commits < MaxCommits
        /\ commits' = commits + 1
        /\ fails => del # <<>> \/ add # <<>>
        /\ IF ok
           THEN /\ chain' = AddRuleLinesToAdd(AddRuleLinesToDelete(chain, del), add)
                /\ applied' = new /\ to_del' = <<>> /\ snapshot' = new
                /\ mended' = (mended \/ to_del # <<>>)
           ELSE /\ applied' = <<>> /\ to_del' = del \o add
                /\ UNCHANGED <<chain, snapshot, mended>>

\* At most one setting for a match, staged in any order.
Batches ==
    {b \in BoundedSeq(Setting, MaxSettings) :
        \A i, j \in 1..Len(b) : Match(b[i]) = Match(b[j]) => i = j}

Next == \E staged \in Batches, fails \in BOOLEAN : CommitChanges(staged, fails)

Spec == Init /\ [][Next]_vars
-----------------------------------------------------------------------------
Covers(m, p, a) == m[1] \in {0, p[1]} /\ m[2] \in {0, p[2]} /\ m[3] = a

\* The DSCP a packet leaves the chain with: rules are tried in order, RETURN
\* ends the walk.
ChainDscp(p, a) ==
    LET Walk(acc, r) ==
          IF acc[1] \/ ~Covers(r[2], p, a) THEN acc
          ELSE IF r[1] = "RETURN" THEN <<TRUE, acc[2]>>
          ELSE IF r[1] = "DSCP" THEN <<FALSE, r[3]>> ELSE acc
    IN  FoldLeft(Walk, <<FALSE, NoDscp>>, chain)[2]

\* "SettingsFindDscp returns the dscp iptables will use for the requested
\* flow" (iptables-controller.h): whatever was committed before, the snapshot
\* answers for every flow what the chain does, also after an iptables-restore
\* failed, until the commit that is to roll it back.  No two settings with
\* ports match the same packet: in this program settings have no ports, and
\* overlapping ones would not be answered in the chain's order.
LookupIsChain ==
    ~mended => \A p \in Packets, a \in Addrs :
        SettingsFindDscp(snapshot, p[1], p[2], a) = ChainDscp(p, a)

\* The chain holds the rules of the settings of the snapshot and no others,
\* so a setting that is dropped takes its three rules with it.
ChainIsSnapshot == ~mended =>
    /\ Len(chain) = 3 * Len(snapshot)
    /\ \A i \in 1..Len(snapshot) : \A r \in ToSet(Rules(snapshot[i])) : Count(r, chain) = 1

\* The controller's snapshot, its DSCP lookup and the kernel's chain speak of
\* the same settings.
ChainInv == LookupIsChain /\ ChainIsSnapshot
=============================================================================
