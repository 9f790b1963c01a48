------------------------------- MODULE MCOsmud -------------------------------
(* Small instances of Osmud for TLC, on the definitions of MCMudManager. *)
EXTENDS Osmud, MCMudManager

Cl(m, x, b, set) == [mac |-> m, url |-> x, named |-> b, options |-> set, vendor |-> set]

(* A MUD device; the same hardware without a name and with no variable set;  *)
(* a device without a MUD URL.                                              *)
ThreeClients == {Cl(m1, u, TRUE, TRUE), Cl(m1, u, FALSE, FALSE), Cl(m2, NoUrl, TRUE, FALSE)}

TwoClients == {Cl(m1, u, TRUE, TRUE), Cl(m2, NoUrl, TRUE, TRUE)}

AllEvents == [action : {"NEW", "OLD", "DEL"}, ip : DeviceIp, mac : Mac,
              url : Url \cup {NoUrl}, named : BOOLEAN]

(* One rule and the one that ends the file. *)
ShortFile == [from |-> <<out>>, to |-> <<>>, acls |-> out :> <<DnsAce(n1)>>]

ShortFiles == {ShortFile}
==============================================================================
