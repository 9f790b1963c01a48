------------------------------ MODULE UciFirewall ------------------------------
(***************************************************************************)
(* The state UCI keeps for the firewall, and one action per script that    *)
(* osMUD runs against it.  `uci add`, `uci set` and `uci delete` change    *)
(* only the staged configuration (a delta under /tmp); `uci commit` makes  *)
(* it permanent and `uci revert` drops it.  The two scripts that do so     *)
(* also restart the firewall, which then enforces what is committed.       *)
(***************************************************************************)
EXTENDS FirewallConfig

VARIABLES
    staged,     \* the configuration `uci show firewall` prints
    committed,  \* /etc/config/firewall: survives a reboot, and is enforced
    lines       \* what remove_ip_fw_rule.sh still has to delete

uciVars == <<staged, committed, lines>>

UciTypeOK ==
    /\ staged \in Config
    /\ committed \in Config
    /\ lines \subseteq Line

UciInit ==
    /\ staged = SystemRules
    /\ committed = SystemRules
    /\ lines = {}

(* remove_ip_fw_rule.sh: the pipeline is evaluated once, before any delete. *)
ShowMatching(d) ==
    /\ lines' = MatchingLines(staged, d)
    /\ UNCHANGED <<staged, committed>>

(* One iteration of the script's loop, on a line `sort -r` printed first. *)
DeleteLine(line) ==
    /\ IsFirst(line, lines)
    /\ staged' = DeleteRule(staged, line.num)
    /\ lines' = lines \ {line}
    /\ UNCHANGED committed

(* create_ip_fw_rule.sh: `uci add` appends, and @rule[-1] is the new section. *)
AddRule(r) ==
    /\ Len(staged) < MaxRules
    /\ staged' = Append(staged, r)
    /\ UNCHANGED <<committed, lines>>

(* The same script when `uci add` fails: it goes on, @rule[-1] is the last  *)
(* section there is, whoever it belongs to, and an address that is "any"   *)
(* leaves the option there as it was.                                      *)
OverwriteLast(r) ==
    /\ staged' =
          IF staged = <<>> THEN staged
          ELSE [staged EXCEPT ![Len(staged)] =
                   [r EXCEPT !.dst = IF @ = AnyIp THEN Last(staged).dst ELSE @]]
    /\ UNCHANGED <<committed, lines>>

CommitRules == committed' = staged /\ UNCHANGED <<staged, lines>>

RollbackRules == staged' = committed /\ UNCHANGED <<committed, lines>>

(* The delta lives in tmpfs: after a power cycle only committed rules are left. *)
LoseStaged == staged' = committed /\ lines' = {} /\ UNCHANGED committed
===============================================================================
