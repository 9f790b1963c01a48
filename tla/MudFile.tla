-------------------------------- MODULE MudFile --------------------------------
(***************************************************************************)
(* A parsed MUD file as mud_manager.c reads it (struct MudFileInfo), and   *)
(* the firewall rules its entries stand for.                               *)
(*                                                                         *)
(* A file lists the names of the ACLs that apply to traffic from and to    *)
(* the device, and defines ACLs, each a sequence of ACEs.  Of an ACE only  *)
(* what steers mud_manager.c is kept: whether it is a DNS entry, the       *)
(* domain name, whether it has a name, whether both ports are given, and   *)
(* the action.  A name is one word.                                        *)
(***************************************************************************)
EXTENDS FirewallConfig

CONSTANTS
    Domain,     \* the domain names MUD files mention
    AclName,    \* the names of ACLs
    MudFiles,   \* the files the MUD file server may hand out
    Answers     \* Answers[n]: the address lists getaddrinfo may return for n

Ace == [dns : BOOLEAN, domain : Domain, named : BOOLEAN, ports : BOOLEAN, target : Target]

(* A value of type MudFileInfo: a partial function gives the ACLs defined. *)
IsMudFileInfo(f) ==
    \E N \in SUBSET AclName :
        f \in [from : Seq(AclName), to : Seq(AclName), acls : [N -> Seq(Ace)]]

(* An access-list entry: the direction of the list it is in, and its ACL's name. *)
AccessList == [dir : {"from", "to"}, acl : AclName]

ASSUME MudFileAssumption ==
    /\ \A f \in MudFiles : IsMudFileInfo(f)
    /\ Answers \in [Domain -> SUBSET Seq(RemoteIp)]

-----------------------------------------------------------------------------

(* The loops of executeMudWithDhcpContext: all "from" entries, then all "to". *)
AccessLists(f) ==
    [i \in 1..Len(f.from) |-> [dir |-> "from", acl |-> f.from[i]]]
    \o [i \in 1..Len(f.to) |-> [dir |-> "to", acl |-> f.to[i]]]

(* getMudFileAcl returns NULL for a name the file does not define. *)
HasAcl(f, name) == name \in DOMAIN f.acls

GetMudFileAcl(f, name) == f.acls[name]

(* installFirewallIPRule prints ruleName and the port range into a command   *)
(* of the shell, to which the "(null)" of a missing one is a syntax error.  *)
Installable(ace) == ace.named /\ ace.ports

(* The rule processFromAccess or processToAccess installs for one address. *)
RuleFor(dir, ace, device, remote) ==
    IF dir = "from"
    THEN [src |-> device, dst |-> remote, target |-> ace.target]
    ELSE [src |-> remote, dst |-> device, target |-> ace.target]
===============================================================================
