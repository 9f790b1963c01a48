--------------------------------- MODULE Osmud ---------------------------------
(***************************************************************************)
(* The whole loop: dnsmasq leases addresses and has detect_new_device.sh   *)
(* write each change to the event log; osmud reads the log one line per    *)
(* round and lets MudManager handle the event.  Where osmud is in the log  *)
(* is the offset of an open file: a new process reads it from the start.   *)
(*                                                                         *)
(* dnsmasq is modelled from how its script is called.                      *)
(***************************************************************************)
EXTENDS MudManager

CONSTANTS
    Client,    \* what may ask for a lease
    NoClient,  \* the address is free
    MaxLog     \* bound: lines in the log

ASSUME ClientAssumption ==
    /\ Client \subseteq [mac : Mac, url : Url \cup {NoUrl}, named : BOOLEAN,
                         options : BOOLEAN, vendor : BOOLEAN]
    /\ NoClient \notin Client
    /\ MaxLog \in Nat

VARIABLES
    lease,   \* dnsmasq: who has each address
    log,     \* /var/log/dhcpmasq.txt, each line as the call that wrote it
    offset,  \* osmud: lines of the log read so far
    kept     \* history: the rules a reboot left enforced

logVars == <<lease, log, offset, kept>>

osmudVars == <<vars, logVars>>

OsmudTypeOK ==
    /\ TypeOK
    /\ lease \in [DeviceIp -> Client \cup {NoClient}]
    /\ log \in Seq(Call) /\ Len(log) <= MaxLog
    /\ offset \in 0..Len(log)
    /\ kept \in Config

OsmudInit ==
    /\ Init
    /\ lease = [d \in DeviceIp |-> NoClient]
    /\ log = <<>>
    /\ offset = 0
    /\ kept = SystemRules

-----------------------------------------------------------------------------

CallFor(arg, d, c) ==
    [arg |-> arg, ip |-> d, mac |-> c.mac, url |-> c.url, named |-> c.named,
     options |-> c.options, vendor |-> c.vendor]

(* detect_new_device.sh appends one line. *)
DetectNewDevice(call) ==
    /\ Len(log) < MaxLog
    /\ log' = Append(log, call)
    /\ UNCHANGED <<vars, offset, kept>>

Lease(d, c) ==
    /\ lease[d] = NoClient
    /\ lease' = [lease EXCEPT ![d] = c]
    /\ DetectNewDevice(CallFor("add", d, c))

Renew(d) ==
    /\ lease[d] # NoClient
    /\ DetectNewDevice(CallFor("old", d, lease[d]))
    /\ UNCHANGED lease

Release(d) ==
    /\ lease[d] # NoClient
    /\ lease' = [lease EXCEPT ![d] = NoClient]
    /\ DetectNewDevice(CallFor("del", d, lease[d]))

Dnsmasq == \E d \in DeviceIp : Renew(d) \/ Release(d) \/ \E c \in Client : Lease(d, c)

(* A round of doProcessLoop that finds a line. *)
ReadEvent ==
    /\ offset < Len(log)
    /\ \E line \in {LogLine(log[offset + 1])} :
          \E array \in {Tokens(line)} : Dispatch(ProcessDhcpEventFromLog(array))
    /\ offset' = offset + 1
    /\ UNCHANGED <<lease, log, kept>>

(* Mutant: a new process goes on where the old one stopped. *)
StartAtEnd == Restart /\ UNCHANGED logVars

(* main opens the event file again. *)
Start ==
    /\ Restart
    /\ offset' = 0
    /\ UNCHANGED <<lease, log, kept>>

HandleEvent == (Retrieve \/ Handle) /\ UNCHANGED logVars

Die == (CrashOnJson \/ CrashOnDns \/ Kill) /\ UNCHANGED logVars

(* Mutant: osmud's place in the log outlives the log. *)
PowerCycleKeepingOffset ==
    /\ Reboot
    /\ lease' = [d \in DeviceIp |-> NoClient]
    /\ log' = <<>>
    /\ kept' = committed
    /\ UNCHANGED offset

(* dnsmasq's leases and its log are in tmpfs as well. *)
PowerCycle ==
    /\ Reboot
    /\ lease' = [d \in DeviceIp |-> NoClient]
    /\ log' = <<>>
    /\ kept' = committed
    /\ offset' = 0

OsmudNext == Dnsmasq \/ ReadEvent \/ HandleEvent \/ Die \/ PowerCycle \/ Start

OsmudSpec == OsmudInit /\ [][OsmudNext]_osmudVars

(* The loop polls forever; a download is not sure to return. *)
OsmudFairSpec ==
    /\ OsmudSpec
    /\ WF_osmudVars(ReadEvent)
    /\ WF_osmudVars(Handle /\ UNCHANGED logVars)

-----------------------------------------------------------------------------

(* The event in hand says what dnsmasq reported, though the log is text in  *)
(* which an unset field must not shift the ones after it.                  *)
EventIsReported ==
    pc \notin {"idle", "down"} =>
        /\ offset > 0
        /\ LET call == log[offset]
           IN  event = [action |-> Action(call.arg), ip |-> call.ip, mac |-> call.mac,
                        url |-> call.url, named |-> call.named]

(* A MUD device that has a name: what one of the files says is enforced for it. *)
MudNamed(c) == c # NoClient /\ c.url # NoUrl /\ c.named

Wanted(d) ==
    IF MudNamed(lease[d]) THEN UNION {Policy!PoliciesOf(f, d) : f \in MudFiles} ELSE {<<>>}

(* The lines that settle what is enforced for an address: a release, and a  *)
(* lease of a MUD device with a name.  The lines of other devices leave     *)
(* alone what is enforced for the address, or take it away at most, if a    *)
(* kill leaves their removal staged for the next commit.                    *)
Settles(call, d) ==
    /\ call.ip = d
    /\ call.arg = "del" \/ (call.arg = "add" /\ call.url # NoUrl /\ call.named)

(* When the log is read to its end, every address has the rules of who has  *)
(* it now, however often the process was killed before, in the middle of a *)
(* transaction or not, and read the log from its first line again.  Only   *)
(* what was enforced before a reboot, whose leases and log are gone with   *)
(* it, stays in force until the log settles it.  This is so if every file  *)
(* can be enforced: what a kill leaves staged of one that cannot (see       *)
(* mud_manager.c:92) may be committed with the next transaction, and the    *)
(* replay of its own event is then rolled back.                            *)
CaughtUpIsEnforced ==
    /\ pc = "idle" /\ offset = Len(log)
    /\ \A f \in MudFiles : Policy!Enforceable(f)
    => \A d \in DeviceIp :
          IF \E i \in DOMAIN log : Settles(log[i], d)
          THEN RulesOf(committed, d) \in Wanted(d)
          ELSE RulesOf(committed, d) \in {RulesOf(kept, d), <<>>}

(* Every line comes to be read, however many follow it, unless the process  *)
(* is gone or a download never returns.                                    *)
EveryLineIsRead ==
    []<>(pc # "retrieve") =>
        \A n \in 1..MaxLog : Len(log) >= n ~> offset >= n \/ pc = "down"
===============================================================================
