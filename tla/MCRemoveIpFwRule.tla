--------------------------- MODULE MCRemoveIpFwRule ---------------------------
(* Small instances of RemoveIpFwRule for TLC. *)
EXTENDS RemoveIpFwRule

CONSTANTS d1, d2, r1, r2   \* two devices, two other addresses

ExactPattern == [d \in DeviceIp |-> {d}]

System == [src |-> AnyIp, dst |-> AnyIp, target |-> "ACCEPT"]

From(d, r) == [src |-> d, dst |-> r, target |-> "ACCEPT"]

To(d, r) == [src |-> r, dst |-> d, target |-> "ACCEPT"]

NoRules == <<>>

Pool == {System, From(d1, r1), To(d1, r2), RejectAll(d1), From(d2, r1)}

(* Ten sections, the most whose numbers have one digit. *)
TenRules ==
    { [i \in 1..10 |-> IF i \in D THEN From(d1, r1) ELSE From(d2, r2)] :
        D \in { {1, 10}, {2, 9, 10}, 1..10, {} } }

ShortConfigs == BoundedSeq(Pool, 4) \cup TenRules

(* Eleven sections: those numbered 2 and 10 are the device's. *)
ElevenRules ==
    { [i \in 1..11 |-> IF i \in {3, 11} THEN From(d1, r1) ELSE System] }
===============================================================================
