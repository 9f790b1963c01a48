----------------------------- MODULE MCMudManager -----------------------------
(* Small instances of MudManager for TLC: two devices, three remote addresses. *)
EXTENDS MudManager

CONSTANTS
    d1, d2,           \* addresses of devices
    r1, r2, r3,       \* other addresses
    m1, m2,           \* hardware addresses
    u,                \* a MUD URL
    n1, n2,           \* domain names
    in, out, none     \* ACL names; no file defines the last

ExactPattern == [d \in DeviceIp |-> {d}]

OneSystemRule == << [src |-> AnyIp, dst |-> AnyIp, target |-> "ACCEPT"] >>

NoRules == <<>>

DnsAce(n) ==
    [dns |-> TRUE, domain |-> n, named |-> TRUE, ports |-> TRUE, target |-> "ACCEPT"]

PortlessAce(n) == [DnsAce(n) EXCEPT !.ports = FALSE]

NamelessAce(n) == [DnsAce(n) EXCEPT !.named = FALSE]

OtherAce == [PortlessAce(n1) EXCEPT !.dns = FALSE]

(* A file with both directions, one with an ACE that is skipped. *)
TwoWay ==
    [from |-> <<out>>, to |-> <<in>>,
     acls |-> out :> <<DnsAce(n1)>> @@ in :> <<DnsAce(n2)>>]

OneWay == [from |-> <<out>>, to |-> <<>>, acls |-> out :> <<OtherAce, DnsAce(n1)>>]

(* One domain in both directions. *)
BothWays ==
    [from |-> <<out>>, to |-> <<in>>,
     acls |-> out :> <<DnsAce(n1)>> @@ in :> <<DnsAce(n1)>>]

(* Three that cannot be enforced: an undefined ACL, an ACE without ports, one *)
(* without a name.                                                         *)
Undefined ==
    [from |-> <<none, out>>, to |-> <<>>, acls |-> out :> <<DnsAce(n2)>>]

Portless ==
    [from |-> <<>>, to |-> <<in>>, acls |-> in :> <<DnsAce(n2), PortlessAce(n1)>>]

Nameless ==
    [from |-> <<out>>, to |-> <<>>, acls |-> out :> <<DnsAce(n2), NamelessAce(n2)>>]

AllFiles == {TwoWay, OneWay, Undefined, Portless, Nameless}

GoodFiles == {TwoWay, OneWay}

OneFile == {BothWays}

(* The second lookup of n1 may have one answer more than the first. *)
TwoAnswers == n1 :> {<<r1>>, <<r1, r2>>} @@ n2 :> {<<r3>>}

(* Every lookup has one answer, not always the same. *)
OneAnswer == n1 :> {<<r1>>, <<r2>>} @@ n2 :> {<<r2>>}

SameAnswer == n1 :> {<<r1>>} @@ n2 :> {<<r2>>}

Ev(a, d, m, x, b) == [action |-> a, ip |-> d, mac |-> m, url |-> x, named |-> b]

(* Each device comes with a MUD URL and leaves; the first one also comes    *)
(* without a URL, without a host name, and renews its lease.                *)
TwoDevices ==
    { Ev("NEW", d1, m1, u, TRUE), Ev("NEW", d2, m2, u, TRUE),
      Ev("DEL", d1, m1, u, TRUE), Ev("DEL", d2, m2, u, TRUE),
      Ev("NEW", d1, m1, u, FALSE), Ev("NEW", d1, m1, NoUrl, TRUE),
      Ev("OLD", d1, m1, u, TRUE), Ev("NONE", d1, m1, NoUrl, TRUE) }

ComeAndGo == { e \in TwoDevices : e.action \in {"NEW", "DEL"} /\ e.named /\ e.url # NoUrl }
===============================================================================
