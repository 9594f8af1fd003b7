--------------------------- MODULE IptablesRunner ---------------------------
(***************************************************************************)
(* heyp/host-agent/linux-enforcer/iptables.{h,cc}: Runner, the calls of    *)
(* iptables, iptables-save and iptables-restore for one table.  Every      *)
(* operation holds mu_ from its first command to its last; a command is a  *)
(* child process that may fail to start, be refused by the kernel (exit    *)
(* status 1), or be killed after kIptablesTimeout, before or after it has  *)
(* changed the table.  Run turns every exit status but 0 into an error.    *)
(*                                                                         *)
(* The table maps each chain to its rules; a rule may be there twice.      *)
(* Arguments are abstracted to the chain and the rule they name.  The      *)
(* kernel's answer to a command is modelled from how the code uses it.     *)
(***************************************************************************)
EXTENDS Integers, Sequences, SequencesExt

CONSTANTS
    Callers,      \* threads that use the Runner
    Chains, Rules

VARIABLES
    table,        \* the kernel's table: its chains and their rules
    mu,           \* mu_: its holder, or "free"
    call,         \* a caller's operation and how far it is
    buffer        \* what SaveInto stored last

vars == <<table, mu, call, buffer>>

NoCall == [op |-> "none", chain |-> "none", rule |-> "none", pc |-> "idle",
           data |-> << >>]
RuleOps == {"ensure_rule", "delete_rule"}
ChainOps == {"ensure_chain", "flush", "delete_chain"}

\* Create: a Runner of either family starts with no call and mu_ free.
Init ==
    /\ table \in [Chains -> {<<>>} \cup {<<r>> : r \in Rules} \cup {<<r, r>> : r \in Rules}]
    /\ mu = "free"
    /\ call = [c \in Callers |-> NoCall]
    /\ buffer = table

Exists(chain) == chain \in DOMAIN table
Has(chain, rule) == Exists(chain) /\ Contains(table[chain], rule)

\* What a command needs of the table to exit with status 0.
Accepted(op, chain, rule) ==
    CASE op = "create" -> ~Exists(chain)
      [] op = "flush" -> Exists(chain)
      [] op = "delete_chain" -> Exists(chain) /\ table[chain] = <<>>
      [] op \in {"check", "delete_rule"} -> Has(chain, rule)

\* The table after a command the kernel accepts.
Effect(op, chain, rule) ==
    CASE op = "create" -> [x \in DOMAIN table \cup {chain} |->
                             IF x = chain THEN <<>> ELSE table[x]]
      [] op = "flush" -> [table EXCEPT ![chain] = <<>>]
      [] op = "delete_chain" -> [x \in DOMAIN table \ {chain} |-> table[x]]
      [] op = "check" -> table
      [] op = "delete_rule" -> [table EXCEPT ![chain] = RemoveFirst(@, rule)]

\* Run: one command.  Its answer is OK only if the child exited with 0.
Run(op, chain, rule, ok) ==
    \/ ok /\ Accepted(op, chain, rule) /\ table' = Effect(op, chain, rule)
    \/ ~ok /\ UNCHANGED table
    \/ ~ok /\ Accepted(op, chain, rule) /\ table' = Effect(op, chain, rule)

\* An operation ends: its result is kept as the caller's pc.
Return(c, result) ==
    /\ call' = [call EXCEPT ![c] = [NoCall EXCEPT !.pc = result]]
    /\ mu' = "free"

Call(c, op, chain, rule) ==
    /\ call[c].pc \in {"idle", "ok", "true", "false", "error"}
    /\ call' = [call EXCEPT ![c] = [op |-> op, chain |-> chain, rule |-> rule,
                                    pc |-> "lock",
                                    data |-> IF op = "restore" THEN buffer ELSE << >>]]
    /\ UNCHANGED <<table, mu, buffer>>

\* Mutant: an operation runs its commands without mu_.
Lock_Not(c) ==
    /\ call[c].pc = "lock"
    /\ call' = [call EXCEPT ![c].pc = IF call[c].op \in RuleOps THEN "check" ELSE "run"]
    /\ UNCHANGED <<table, mu, buffer>>

\* absl::MutexLock lock(&mu_).
Lock(c) ==
    /\ call[c].pc = "lock" /\ mu = "free"
    /\ mu' = c
    /\ call' = [call EXCEPT ![c].pc = IF call[c].op \in RuleOps THEN "check" ELSE "run"]
    /\ UNCHANGED <<table, buffer>>

-----------------------------------------------------------------------------
(* EnsureChain, FlushChain, DeleteChain: one command.                      *)

\* An existing chain makes "-N" fail: exit_status is 1, but st is not ok().
EnsureChain(c) ==
    /\ call[c].pc = "run" /\ call[c].op = "ensure_chain"
    /\ \E ok \in BOOLEAN :
        /\ Run("create", call[c].chain, call[c].rule, ok)
        /\ Return(c, IF ok THEN "false" ELSE "error")
    /\ UNCHANGED buffer

FlushOrDeleteChain(c) ==
    /\ call[c].pc = "run" /\ call[c].op \in {"flush", "delete_chain"}
    /\ \E ok \in BOOLEAN :
        /\ Run(call[c].op, call[c].chain, call[c].rule, ok)
        /\ Return(c, IF ok THEN "ok" ELSE "error")
    /\ UNCHANGED buffer
-----------------------------------------------------------------------------
(* EnsureRule, DeleteRule: CheckRule, then a command that depends on it.   *)

\* CheckRuleUsingCheck does not pass its exit_status to Run: the answer is
\* true or an error, never false, and EnsureRule's own command never runs.
CheckRule(c) ==
    /\ call[c].pc = "check"
    /\ \E ok \in BOOLEAN :
        /\ Run("check", call[c].chain, call[c].rule, ok)
        /\ CASE ~ok -> Return(c, "error")
             [] ok /\ call[c].op = "ensure_rule" -> Return(c, "true")
             [] ok /\ call[c].op = "delete_rule" ->
                  call' = [call EXCEPT ![c].pc = "act"] /\ UNCHANGED mu
    /\ UNCHANGED buffer

DeleteRule(c) ==
    /\ call[c].pc = "act"
    /\ \E ok \in BOOLEAN :
        /\ Run("delete_rule", call[c].chain, call[c].rule, ok)
        /\ Return(c, IF ok THEN "ok" ELSE "error")
    /\ UNCHANGED buffer
-----------------------------------------------------------------------------
(* SaveInto and Restore.                                                   *)

SaveInto(c) ==
    /\ call[c].pc = "run" /\ call[c].op = "save"
    /\ \/ buffer' = table /\ Return(c, "ok")
       \/ UNCHANGED buffer /\ Return(c, "error")
    /\ UNCHANGED table

\* RestoreInternal with flush_tables: all of the data or, on an error, all or
\* none of it (iptables-restore commits a table at once).
Restore(c) ==
    /\ call[c].pc = "run" /\ call[c].op = "restore"
    /\ \/ table' = call[c].data /\ \E result \in {"ok", "error"} : Return(c, result)
       \/ UNCHANGED table /\ Return(c, "error")
    /\ UNCHANGED buffer

Next ==
    \E c \in Callers :
        \/ \E op \in ChainOps, chain \in Chains : Call(c, op, chain, "none")
        \/ \E op \in RuleOps, chain \in Chains, rule \in Rules : Call(c, op, chain, rule)
        \/ \E op \in {"save", "restore"} : Call(c, op, "none", "none")
        \/ Lock(c)
        \/ EnsureChain(c)
        \/ FlushOrDeleteChain(c)
        \/ CheckRule(c)
        \/ DeleteRule(c)
        \/ SaveInto(c)
        \/ Restore(c)

Spec == Init /\ [][Next]_vars
-----------------------------------------------------------------------------
(* A rule DeleteRule has found is still there when its "-D" command runs,  *)
(* whatever other threads ask of the Runner: check and act are one         *)
(* critical section of mu_ (iptables.cc:314-322).                          *)
CheckStillTrue ==
    \A c \in Callers : call[c].pc = "act" => Has(call[c].chain, call[c].rule)

Copies(t, chain, rule) ==
    IF chain \in DOMAIN t THEN Len(SelectSeq(t[chain], LAMBDA r : r = rule)) ELSE 0

(* A call answers OK only in the step that made its promise true: a chain  *)
(* that is created or flushed is there and empty, a deleted one is gone, a *)
(* deleted rule has one copy less, and EnsureRule's true means the rule is *)
(* in the chain.  A child that was killed or refused is never taken for a  *)
(* success (iptables.cc:217, :303, :322).                                  *)
OkIsTrue ==
    [][/\ CheckStillTrue
       /\ \A c \in Callers :
            LET k == call[c]
                done == /\ k.pc \in {"check", "act", "run"}
                        /\ call'[c].pc \in {"ok", "true", "false"}
            IN done =>
                CASE k.op = "ensure_chain" -> ~Exists(k.chain) /\ k.chain \in DOMAIN table'
                  [] k.op = "flush" -> k.chain \in DOMAIN table' /\ table'[k.chain] = <<>>
                  [] k.op = "delete_chain" -> Exists(k.chain) /\ k.chain \notin DOMAIN table'
                  [] k.op = "delete_rule" ->
                       Copies(table', k.chain, k.rule) = Copies(table, k.chain, k.rule) - 1
                  [] k.op = "ensure_rule" -> Copies(table', k.chain, k.rule) > 0
                  [] k.op = "restore" -> table' = k.data
                  [] k.op = "save" -> buffer' = table]_vars
=============================================================================
