---------------------------- MODULE RemoveIpFwRule ----------------------------
(***************************************************************************)
(* One run of remove_ip_fw_rule.sh on its own, from any configuration in   *)
(* InitialConfigs.  "origin" is a history variable: it remembers, for each *)
(* rule still staged, its position before the script started.              *)
(***************************************************************************)
EXTENDS UciFirewall

CONSTANT InitialConfigs   \* the configurations the script may find

ASSUME InitialAssumption ==
    /\ InitialConfigs \subseteq Config
    /\ \A cfg \in InitialConfigs : Len(cfg) <= MaxRules

VARIABLES
    pc,         \* "start", "deleting" or "done"
    device,     \* the -i argument
    original,   \* history: the configuration before the script ran
    origin      \* history: where each staged rule was in original

vars == <<staged, committed, lines, pc, device, original, origin>>

TypeOK ==
    /\ UciTypeOK
    /\ pc \in {"start", "deleting", "done"}
    /\ device \in DeviceIp
    /\ original \in Config
    /\ origin \in Seq(Nat)

Init ==
    /\ original \in InitialConfigs
    /\ device \in DeviceIp
    /\ staged = original
    /\ committed = original
    /\ lines = {}
    /\ pc = "start"
    /\ origin = [i \in 1..Len(original) |-> i]

Start ==
    /\ pc = "start"
    /\ ShowMatching(device)
    /\ pc' = "deleting"
    /\ UNCHANGED <<device, original, origin>>

(* The history variable loses the position of the rule that is deleted. *)
Forget(n) == IF n < Len(origin) THEN RemoveAt(origin, n + 1) ELSE origin

Delete ==
    /\ pc = "deleting"
    /\ \E line \in lines : DeleteLine(line) /\ origin' = Forget(line.num)
    /\ UNCHANGED <<pc, device, original>>

Finish ==
    /\ pc = "deleting"
    /\ lines = {}
    /\ pc' = "done"
    /\ UNCHANGED <<staged, committed, lines, device, original, origin>>

Next == Start \/ Delete \/ Finish

Spec == Init /\ [][Next]_vars

-----------------------------------------------------------------------------
(* In the middle of the loop, the numbers computed at the start are still  *)
(* the numbers of exactly the rules that are still to go: deletions have   *)
(* not shifted any of them (the reason remove_ip_fw_rule.sh sorts at all). *)
RemainingLines == pc = "deleting" => lines = MatchingLines(staged, device)

(* "Removes all firewall rules involving the IP address"                   *)
(* (remove_ip_fw_rule.sh:20): when it ends none is left.                   *)
RemovesAll ==
    pc = "done" => \A i \in DOMAIN staged : ~Involves(staged[i], device)

(* ... and no other: every rule that does not involve the address is still *)
(* there when the script ends, the rules keeping their order.              *)
KeepsOthers ==
    pc = "done" =>
        /\ \A j \in DOMAIN original :
              ~Involves(original[j], device) => j \in ToSet(origin)
        /\ \A i \in DOMAIN staged : staged[i] = original[origin[i]]
        /\ \A i, k \in DOMAIN staged : i < k => origin[i] < origin[k]
===============================================================================
