---------------------------- MODULE FirewallConfig ----------------------------
(***************************************************************************)
(* The OpenWrt firewall configuration as osMUD's scripts see it: a         *)
(* sequence of rule sections that UCI numbers from 0, the rules osMUD      *)
(* writes into it, and the numbers remove_ip_fw_rule.sh reads out of it.   *)
(*                                                                         *)
(* A rule keeps the fields osMUD's own logic depends on: the two addresses *)
(* and the target.  Zones, ports, protocol, family and the section's name  *)
(* are abstracted away; no step of osMUD reads them back.                  *)
(***************************************************************************)
EXTENDS Naturals, Sequences, SequencesExt

CONSTANTS
    DeviceIp,     \* addresses the DHCP server leases to devices
    RemoteIp,     \* the other addresses a rule can name
    AnyIp,        \* "any": the address option is not written to the section
    Pattern,      \* the addresses the awk program /d/ matches, per device d
    SystemRules,  \* the rule sections of the router's own configuration
    Redirects,    \* dest_ip of each redirect section (port forwards)
    MaxRules      \* bound: rule sections the configuration can hold

Address == DeviceIp \cup RemoteIp

Target == {"ACCEPT", "REJECT", "DENY"}

Rule == [src : Address \cup {AnyIp}, dst : Address \cup {AnyIp}, target : Target]

Config == Seq(Rule)

ASSUME AddressAssumption ==
    /\ AnyIp \notin Address
    /\ DeviceIp \cap RemoteIp = {}

(* An unanchored regular expression matches at least the text it spells. *)
ASSUME PatternAssumption ==
    /\ Pattern \in [DeviceIp -> SUBSET Address]
    /\ \A d \in DeviceIp : d \in Pattern[d]

(* The router's own sections name no leased address. *)
ASSUME SystemAssumption ==
    /\ SystemRules \in Config
    /\ \A i \in DOMAIN SystemRules :
          /\ SystemRules[i].src \notin DeviceIp
          /\ SystemRules[i].dst \notin DeviceIp
    /\ Redirects \in Seq(Address)

(* LeadingDigit below is that of a number of at most two digits. *)
ASSUME BoundAssumption == MaxRules \in 0..99 /\ Len(SystemRules) <= MaxRules

-----------------------------------------------------------------------------

(* The rule installed after all others: mud_manager.c passes it "any" and "DENY". *)
RejectAll(d) == [src |-> d, dst |-> AnyIp, target |-> "DENY"]

Involves(r, d) == r.src = d \/ r.dst = d

(* The rules of one device, in the order of the configuration. *)
RulesOf(cfg, d) ==
    FlattenSeq([i \in DOMAIN cfg |-> IF Involves(cfg[i], d) THEN <<cfg[i]>> ELSE <<>>])

-----------------------------------------------------------------------------
(* remove_ip_fw_rule.sh, line by line of its pipeline. *)

(* Mutant: only the src_ip lines are looked at. *)
MatchingLinesSrcOnly(cfg, d) ==
    { [num |-> i - 1, option |-> "src_ip"] :
        i \in {j \in DOMAIN cfg : cfg[j].src \in Pattern[d]} }

(* The lines of `uci show firewall | awk '/d/'`, cut down to the section   *)
(* number: one line per option that matches, so a rule can be printed      *)
(* twice, and the number of a redirect section looks like a rule's.        *)
MatchingLines(cfg, d) ==
    { [num |-> i - 1, option |-> "src_ip"] :
        i \in {j \in DOMAIN cfg : cfg[j].src \in Pattern[d]} }
    \cup
    { [num |-> i - 1, option |-> "dest_ip"] :
        i \in {j \in DOMAIN cfg : cfg[j].dst \in Pattern[d]} }
    \cup
    { [num |-> i - 1, option |-> "redirect"] :
        i \in {j \in DOMAIN Redirects : Redirects[j] \in Pattern[d]} }

Line == [num : Nat, option : {"src_ip", "dest_ip", "redirect"}]

LeadingDigit(n) == IF n < 10 THEN n ELSE n \div 10

(* Mutant: `sort` without -r. *)
SortsBeforeAscending(m, n) ==
    \/ LeadingDigit(m) < LeadingDigit(n)
    \/ LeadingDigit(m) = LeadingDigit(n) /\ m < n

(* `sort -r` compares the numbers as text: 9 comes before 10. *)
SortsBefore(m, n) ==
    \/ LeadingDigit(m) > LeadingDigit(n)
    \/ LeadingDigit(m) = LeadingDigit(n) /\ m > n

IsFirst(line, lines) == \A l \in lines : ~SortsBefore(l.num, line.num)

(* Mutant: `uci delete firewall.@rule[n].src_ip`, the option and not the section. *)
DeleteOption(cfg, n) == IF n < Len(cfg) THEN [cfg EXCEPT ![n + 1].src = "unset"] ELSE cfg

(* `uci delete firewall.@rule[n]`: later sections move up; no such section, no effect. *)
DeleteRule(cfg, n) == IF n < Len(cfg) THEN RemoveAt(cfg, n + 1) ELSE cfg
===============================================================================
