----------------------------- MODULE DevicePolicy -----------------------------
(***************************************************************************)
(* What the MUD manager promises of the enforced firewall, one device at a *)
(* time: either a device has no rules, or it has exactly the rules of one  *)
(* complete MUD file, in the order of the file, with the rule that rejects *)
(* everything else last.  A device's policy changes in one step, and no    *)
(* other device's policy changes with it.                                  *)
(***************************************************************************)
EXTENDS MudFile

VARIABLE policy   \* [DeviceIp -> Config]: the rules enforced for each device

(* A file all of whose entries can be put into force. *)
Enforceable(f) ==
    \A i \in DOMAIN AccessLists(f) :
        LET name == AccessLists(f)[i].acl
        IN  /\ HasAcl(f, name)
            /\ \A j \in DOMAIN GetMudFileAcl(f, name) :
                  LET ace == GetMudFileAcl(f, name)[j] IN ace.dns => Installable(ace)

(* The DNS entries among some ACEs, in their order, with the direction they have. *)
EntriesOfAces(dir, aces) ==
    FlattenSeq([j \in DOMAIN aces |->
        IF aces[j].dns THEN <<[dir |-> dir, ace |-> aces[j]]>> ELSE <<>>])

EntriesOfLists(f, lists) ==
    FlattenSeq([i \in DOMAIN lists |->
        EntriesOfAces(lists[i].dir, GetMudFileAcl(f, lists[i].acl))])

(* The DNS entries of a file in the order they are applied. *)
DnsEntries(f) == EntriesOfLists(f, AccessLists(f))

(* Each lookup may be answered with any of the domain's address lists. *)
Resolutions(entries) ==
    { a \in [1..Len(entries) -> UNION {Answers[n] : n \in Domain}] :
        \A i \in 1..Len(entries) : a[i] \in Answers[entries[i].ace.domain] }

RulesFor(d, entry, addresses) ==
    [j \in DOMAIN addresses |-> RuleFor(entry.dir, entry.ace, d, addresses[j])]

RulesWith(d, entries, a) ==
    FlattenSeq([i \in DOMAIN entries |-> RulesFor(d, entries[i], a[i])])

PoliciesOf(f, d) ==
    { Append(RulesWith(d, DnsEntries(f), a), RejectAll(d)) :
        a \in Resolutions(DnsEntries(f)) }

Init == policy = [d \in DeviceIp |-> <<>>]

Enforce(d) ==
    \E f \in MudFiles :
        /\ Enforceable(f)
        /\ \E p \in PoliciesOf(f, d) : policy' = [policy EXCEPT ![d] = p]

Release(d) == policy' = [policy EXCEPT ![d] = <<>>]

Next == \E d \in DeviceIp : Enforce(d) \/ Release(d)

Spec == Init /\ [][Next]_policy
===============================================================================
