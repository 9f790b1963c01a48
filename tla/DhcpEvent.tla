------------------------------- MODULE DhcpEvent -------------------------------
(***************************************************************************)
(* The line detect_new_device.sh writes for a call by dnsmasq, and the     *)
(* DhcpEvent osMUD reads out of such a line.  A line is a sequence of the  *)
(* eleven fields between the bars; a field is the text it holds.           *)
(***************************************************************************)
EXTENDS FirewallConfig

CONSTANTS
    Mac,    \* hardware addresses
    Url,    \* MUD URLs
    NoUrl   \* the event carries no MUD URL: mudFileURL is NULL

(* The fields of a DhcpEvent that osMUD acts on; "named": it has a host name. *)
Event == [action : {"NEW", "OLD", "DEL", "NONE"}, ip : DeviceIp, mac : Mac,
          url : Url \cup {NoUrl}, named : BOOLEAN]

(* What is between two bars next to each other. *)
EmptyField == ""

(* A URL has more than one character, an address at least one. *)
ASSUME FieldAssumption ==
    /\ NoUrl \notin Url
    /\ {EmptyField, "-"} \cap (Url \cup Mac \cup DeviceIp) = {}

(* A call of detect_new_device.sh: its arguments, and which of dnsmasq's    *)
(* variables are set in its environment.                                   *)
Call == [arg : {"add", "old", "del"}, ip : DeviceIp, mac : Mac,
         url : Url \cup {NoUrl}, named : BOOLEAN, options : BOOLEAN,
         vendor : BOOLEAN]

-----------------------------------------------------------------------------

Action(arg) == CASE arg = "add" -> "NEW" [] arg = "old" -> "OLD" [] arg = "del" -> "DEL"

(* A variable that is not set becomes "-". *)
OrDash(set, text) == IF set THEN text ELSE "-"

(* The host name has no such default: dnsmasq passes none for many devices. *)
LogLine(c) ==
    << "date", Action(c.arg), "lan", "DHCP", OrDash(c.options, "options"), "MUD",
       OrDash(c.url # NoUrl, c.url), OrDash(c.vendor, "vendor"), c.mac, c.ip,
       IF c.named THEN "host" ELSE EmptyField >>

(* Mutant: strsep, to which an empty field is one. *)
TokensStrsep(line) == line

(* strtok takes consecutive bars as one: an empty field is no field. *)
Tokens(line) ==
    FlattenSeq([i \in DOMAIN line |-> IF line[i] = EmptyField THEN <<>> ELSE <<line[i]>>])

GetDhcpEventActionClass(text) ==
    IF text \in {"NEW", "OLD", "DEL"} THEN text ELSE "NONE"

(* By position, from array[0] (here 1), the tokens of the line; after the   *)
(* last there is one NULL.  A URL of one character is no URL.              *)
ProcessDhcpEventFromLog(array) ==
    [action |-> GetDhcpEventActionClass(array[2]),
     ip     |-> array[10],
     mac    |-> array[9],
     url    |-> IF array[7] = "-" THEN NoUrl ELSE array[7],
     named  |-> Len(array) > 10]
===============================================================================
