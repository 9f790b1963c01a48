------------------------------ MODULE MudManager ------------------------------
(***************************************************************************)
(* osMUD's event handler (mud_manager.c with the OpenWrt glue of           *)
(* openwrt.c): one DHCP event at a time, to completion, through the stages *)
(* of executeOpenMudDhcpAction.  Every call that changes state outside the *)
(* process is a step of its own, so the process can be killed, or the      *)
(* router lose power, between any two of them.                             *)
(***************************************************************************)
EXTENDS UciFirewall, MudFile, DhcpEvent

CONSTANTS
    NoEvent,                \* between events: clearDhcpEventRecord has run
    NoMudFile,              \* no file is parsed
    Events,                 \* the events dnsmasq may report
    NoFailOnMudValidation,  \* the -i option
    Faults,                 \* which failures of the environment may happen
    FailRoom                \* bound: rule sections above which removal does not fail

(***************************************************************************)
(* "create", "remove", "finish": that script cannot be run or fails.       *)
(* "add": `uci add` fails within the script that creates a rule.           *)
(* "append": a line is not appended to the database or the white list.     *)
(* "fetch": a download or the signature check fails.                       *)
(* "dns": a domain name does not resolve.  "json": the file is not JSON.   *)
(* "kill": the process is killed.  "reboot": the router loses power.       *)
(***************************************************************************)
Fault == {"create", "add", "remove", "finish", "append", "fetch", "dns", "json",
          "kill", "reboot"}

ASSUME EventAssumption ==
    /\ Events \subseteq Event
    /\ NoEvent \notin Event
    /\ NoMudFile \notin MudFiles
    /\ NoFailOnMudValidation \in BOOLEAN
    /\ Faults \subseteq Fault
    /\ FailRoom \in Nat

VARIABLES
    pc,          \* the stage of the handler, "idle" or "down"
    event,       \* dhcpEvent
    mudFile,     \* mudFile of executeMudWithDhcpContext
    accessLists, \* access-list entries still to process, the current one first
    aces,        \* ACEs of the current ACL still to process, the current one first
    answers,     \* addresses of the current domain name still to install
    retval,      \* retval of executeMudWithDhcpContext
    mudDb,       \* lines of mudStateFile.txt, in tmpfs
    whitelist    \* lines of the DNS white list, in tmpfs

localVars == <<event, mudFile, accessLists, aces, answers, retval>>

fileVars == <<mudDb, whitelist>>

vars == <<uciVars, pc, localVars, fileVars>>

Stage == {"down", "idle", "legacy", "retrieve", "record", "parse", "remove",
          "removing", "accessList", "ace", "install", "finish", "rerecord",
          "forget", "clear"}

DbEntry == [ip : DeviceIp, mac : Mac, url : Url \cup {NoUrl}]

WhitelistEntry == [domain : Domain, ip : DeviceIp]

(* No variable holds a value the program cannot store there.  Within a     *)
(* handler there is an event; while rules are made there is a parsed file. *)
TypeOK ==
    /\ UciTypeOK
    /\ pc \in Stage
    /\ event \in Event \cup {NoEvent}
    /\ (pc \in {"down", "idle"}) <=> (event = NoEvent)
    /\ mudFile \in MudFiles \cup {NoMudFile}
    /\ pc \in {"accessList", "ace", "install"} => mudFile # NoMudFile
    /\ accessLists \in Seq(AccessList)
    /\ aces \in Seq(Ace)
    /\ answers \in Seq(RemoteIp)
    /\ pc \in {"ace", "install"} => accessLists # <<>>
    /\ pc = "install" => aces # <<>>
    /\ retval \in {0, 1}
    /\ mudDb \subseteq DbEntry
    /\ whitelist \subseteq WhitelistEntry

-----------------------------------------------------------------------------

(* The locals of a handler that is not inside executeMudWithDhcpContext. *)
ClearLocals ==
    /\ mudFile' = NoMudFile
    /\ accessLists' = <<>>
    /\ aces' = <<>>
    /\ answers' = <<>>
    /\ retval' = 0

Init ==
    /\ UciInit
    /\ pc = "idle"
    /\ event = NoEvent
    /\ mudFile = NoMudFile
    /\ accessLists = <<>>
    /\ aces = <<>>
    /\ answers = <<>>
    /\ retval = 0
    /\ mudDb = {}
    /\ whitelist = {}

(* executeOpenMudDhcpAction on the next event of the log.  An OLD event and *)
(* an unknown action only count and log.                                   *)
Dispatch(e) ==
    /\ pc = "idle"
    /\ event' = e
    /\ pc' = CASE e.action = "NEW" /\ e.url # NoUrl -> "retrieve"
               [] e.action = "NEW" /\ e.url = NoUrl -> "legacy"
               [] e.action = "DEL"                  -> "remove"
               [] OTHER                             -> "clear"
    /\ UNCHANGED <<uciVars, mudFile, accessLists, aces, answers, retval, fileVars>>

(* clearDhcpEventRecord, and the next round of doProcessLoop. *)
ClearEvent ==
    /\ pc = "clear"
    /\ event' = NoEvent
    /\ pc' = "idle"
    /\ UNCHANGED <<uciVars, mudFile, accessLists, aces, answers, retval, fileVars>>

(* installMudDbDeviceEntry: create_mud_db_entry.sh appends a line; its      *)
(* result is ignored by every caller.                                      *)
InstallMudDbDeviceEntry(url) ==
    \/ mudDb' = mudDb \cup {[ip |-> event.ip, mac |-> event.mac, url |-> url]}
    \/ "append" \in Faults /\ mudDb' = mudDb

(* Mutant: the entry of a legacy device replaces what is recorded for its address. *)
RecordLegacyDeviceAfresh ==
    /\ pc = "legacy"
    /\ mudDb' = {x \in mudDb : x.ip # event.ip}
                   \cup {[ip |-> event.ip, mac |-> event.mac, url |-> NoUrl]}
    /\ pc' = "clear"
    /\ UNCHANGED <<uciVars, localVars, whitelist>>

RecordLegacyDevice ==
    /\ pc = "legacy"
    /\ InstallMudDbDeviceEntry(NoUrl)
    /\ pc' = "clear"
    /\ UNCHANGED <<uciVars, localVars, whitelist>>

(* Whether a download, and the signature check, may succeed or fail. *)
GetOpenMudFile == IF "fetch" \in Faults THEN BOOLEAN ELSE {TRUE}

VerifyCmsSignature == IF "fetch" \in Faults THEN BOOLEAN ELSE {TRUE}

(* executeNewDhcpAction downloads the file and its signature and verifies it. *)
Retrieve ==
    /\ pc = "retrieve"
    /\ \E gotMud, gotSig \in GetOpenMudFile, valid \in VerifyCmsSignature :
          pc' = IF /\ gotMud
                   /\ gotSig \/ NoFailOnMudValidation
                   /\ valid \/ NoFailOnMudValidation
                THEN "record" ELSE "clear"
    /\ UNCHANGED <<uciVars, localVars, fileVars>>

(* executeMudWithDhcpContext: the device is recorded before its file is read. *)
RecordMudDevice ==
    /\ pc = "record"
    /\ InstallMudDbDeviceEntry(event.url)
    /\ pc' = "parse"
    /\ UNCHANGED <<uciVars, localVars, whitelist>>

ParseMudFile ==
    /\ pc = "parse"
    /\ \E f \in MudFiles : mudFile' = f /\ accessLists' = AccessLists(f)
    /\ pc' = "remove"
    /\ UNCHANGED <<uciVars, event, aces, answers, retval, fileVars>>

-----------------------------------------------------------------------------
(* removeFirewallIPRule, for a NEW event (any earlier rules of the device   *)
(* go first) and for a DEL event.  Its result is ignored.                  *)

(* Mutant: a DEL event ends without a commit. *)
AfterRemoveNoCommit == IF event.action = "DEL" THEN "clear" ELSE "accessList"

(* Mutant: a NEW event goes on as a DEL event does. *)
AfterRemoveOnly == "forget"

AfterRemove == IF event.action = "DEL" THEN "forget" ELSE "accessList"

(* Mutant: earlier rules are removed on DEL only. *)
StartRemoveOnDelOnly ==
    /\ pc = "remove"
    /\ IF event.action = "DEL" THEN ShowMatching(event.ip) ELSE UNCHANGED uciVars
    /\ pc' = "removing"
    /\ UNCHANGED <<localVars, fileVars>>

StartRemove ==
    /\ pc = "remove"
    /\ ShowMatching(event.ip)
    /\ pc' = "removing"
    /\ UNCHANGED <<localVars, fileVars>>

FailRemove ==
    /\ pc = "remove"
    /\ "remove" \in Faults
    /\ Len(staged) <= FailRoom
    /\ pc' = AfterRemove
    /\ UNCHANGED <<uciVars, localVars, fileVars>>

RemoveRule ==
    /\ pc = "removing"
    /\ \E line \in lines : DeleteLine(line)
    /\ UNCHANGED <<pc, localVars, fileVars>>

EndRemove ==
    /\ pc = "removing"
    /\ lines = {}
    /\ pc' = AfterRemove
    /\ UNCHANGED <<uciVars, localVars, fileVars>>

-----------------------------------------------------------------------------
(* The nested loops: access-list entries, their ACEs, a domain's addresses. *)

(* processFromAccess and processToAccess on an ACL that is not there: an    *)
(* error, and on to the next entry.                                        *)
SkipMissingAcl ==
    /\ pc = "accessList"
    /\ accessLists # <<>>
    /\ ~HasAcl(mudFile, Head(accessLists).acl)
    /\ retval' = 1
    /\ accessLists' = Tail(accessLists)
    /\ UNCHANGED <<uciVars, pc, event, mudFile, aces, answers, fileVars>>

EnterAcl ==
    /\ pc = "accessList"
    /\ accessLists # <<>>
    /\ HasAcl(mudFile, Head(accessLists).acl)
    /\ aces' = GetMudFileAcl(mudFile, Head(accessLists).acl)
    /\ pc' = "ace"
    /\ UNCHANGED <<uciVars, event, mudFile, accessLists, answers, retval, fileVars>>

(* Mutant: the next access-list entry is not entered through its ACL. *)
LeaveAclStay ==
    /\ pc = "ace"
    /\ aces = <<>>
    /\ accessLists' = Tail(accessLists)
    /\ UNCHANGED <<uciVars, pc, event, mudFile, aces, answers, retval, fileVars>>

LeaveAcl ==
    /\ pc = "ace"
    /\ aces = <<>>
    /\ accessLists' = Tail(accessLists)
    /\ pc' = "accessList"
    /\ UNCHANGED <<uciVars, event, mudFile, aces, answers, retval, fileVars>>

(* Mutant: the assignment commented out at mud_manager.c:116 is made. *)
SkipAceAsError ==
    /\ pc = "ace"
    /\ aces # <<>>
    /\ ~Head(aces).dns
    /\ retval' = 1
    /\ aces' = Tail(aces)
    /\ UNCHANGED <<uciVars, pc, event, mudFile, accessLists, answers, fileVars>>

(* An ACE that is not a DNS entry is skipped without an error. *)
SkipAce ==
    /\ pc = "ace"
    /\ aces # <<>>
    /\ ~Head(aces).dns
    /\ aces' = Tail(aces)
    /\ UNCHANGED <<uciVars, pc, event, mudFile, accessLists, answers, retval, fileVars>>

(* Mutant: processToAccess does not call installDnsRule. *)
InstallDnsRuleFromOnly(domain) ==
    whitelist' = IF Head(accessLists).dir = "from"
                 THEN whitelist \cup {[domain |-> domain, ip |-> event.ip]}
                 ELSE whitelist

(* installDnsRule appends a line to the white list. *)
InstallDnsRule(domain) ==
    \/ whitelist' = whitelist \cup {[domain |-> domain, ip |-> event.ip]}
    \/ "append" \in Faults /\ whitelist' = whitelist

(* resolveDnsEntryToIp, then installDnsRule, whose result is ignored. *)
ResolveAce ==
    /\ pc = "ace"
    /\ aces # <<>>
    /\ Head(aces).dns
    /\ answers' \in Answers[Head(aces).domain]
    /\ InstallDnsRule(Head(aces).domain)
    /\ pc' = "install"
    /\ UNCHANGED <<uciVars, event, mudFile, accessLists, aces, retval, mudDb>>

(* Mutant: the loop over the ACEs does not advance. *)
LeaveAceAgain ==
    /\ pc = "install"
    /\ answers = <<>>
    /\ pc' = "ace"
    /\ UNCHANGED <<uciVars, event, mudFile, accessLists, aces, answers, retval, fileVars>>

LeaveAce ==
    /\ pc = "install"
    /\ answers = <<>>
    /\ aces' = Tail(aces)
    /\ pc' = "ace"
    /\ UNCHANGED <<uciVars, event, mudFile, accessLists, answers, retval, fileVars>>

-----------------------------------------------------------------------------
(* installFirewallIPRule.  A host name, name of the ACE or port that is     *)
(* missing is printed into the command as "(null)", a syntax error to the  *)
(* shell: the command fails.  REJECT-ALL has a name and a port of its own. *)

InstallSucceeds(r, complete) == complete /\ AddRule(r) /\ retval' = retval

(* Mutant: a failed installation is logged and forgotten. *)
InstallFailsUnnoticed(complete) ==
    /\ ~complete \/ "create" \in Faults
    /\ retval' = retval
    /\ UNCHANGED uciVars

InstallFails(complete) ==
    /\ ~complete \/ "create" \in Faults
    /\ retval' = 1
    /\ UNCHANGED uciVars

(* The script exits with 0 though it has overwritten a rule. *)
InstallOverwrites(r, complete) ==
    "add" \in Faults /\ complete /\ OverwriteLast(r) /\ retval' = retval

InstallFirewallIPRule(r, complete) ==
    \/ InstallSucceeds(r, complete)
    \/ InstallOverwrites(r, complete)
    \/ InstallFails(complete)

InstallAnswer ==
    /\ pc = "install"
    /\ answers # <<>>
    /\ InstallFirewallIPRule(
          RuleFor(Head(accessLists).dir, Head(aces), event.ip, Head(answers)),
          event.named /\ Installable(Head(aces)))
    /\ answers' = Tail(answers)
    /\ UNCHANGED <<pc, event, mudFile, accessLists, aces, fileVars>>

InstallRejectAll ==
    /\ pc = "accessList"
    /\ accessLists = <<>>
    /\ InstallFirewallIPRule(RejectAll(event.ip), event.named)
    /\ pc' = "finish"
    /\ UNCHANGED <<event, mudFile, accessLists, aces, answers, fileVars>>

-----------------------------------------------------------------------------

(* removeMudDbDeviceEntry: MUD_DB_REMOVE_SCRIPT names create_mud_db_entry.sh, *)
(* which wants a host name, is given none and exits before touching a file.   *)
RemoveMudDbDeviceEntry ==
    /\ pc = "forget"
    /\ pc' = "finish"
    /\ UNCHANGED <<uciVars, localVars, fileVars>>

AfterFinish == IF event.action = "DEL" THEN "clear" ELSE "rerecord"

(* Mutant: committed whatever retval is. *)
CommitAlways == CommitRules

CommitAndApplyFirewallRules == retval = 0 /\ CommitRules

(* Mutant: a failed transaction is left as it is. *)
RollbackNothing == retval # 0 /\ UNCHANGED uciVars

RollbackFirewallConfiguration == retval # 0 /\ RollbackRules

(* The last call of executeMudWithDhcpContext, and of executeDelDhcpAction,  *)
(* where retval is 0.  Neither looks at what the script returned.            *)
FinishTransaction ==
    /\ pc = "finish"
    /\ \/ CommitAndApplyFirewallRules
       \/ RollbackFirewallConfiguration
       \/ "finish" \in Faults /\ UNCHANGED uciVars
    /\ pc' = AfterFinish
    /\ ClearLocals
    /\ UNCHANGED <<event, fileVars>>

(* executeNewDhcpAction records the device once more, rolled back or not. *)
RecordMudDeviceAgain ==
    /\ pc = "rerecord"
    /\ InstallMudDbDeviceEntry(event.url)
    /\ pc' = "clear"
    /\ UNCHANGED <<uciVars, localVars, whitelist>>

-----------------------------------------------------------------------------

(* The process is gone; UCI's staged delta and the files are not. *)
Stop ==
    /\ pc' = "down"
    /\ event' = NoEvent
    /\ ClearLocals
    /\ UNCHANGED <<uciVars, fileVars>>

(* processJson follows the NULL that json_tokener_parse returned. *)
CrashOnJson == "json" \in Faults /\ pc = "parse" /\ Stop

(* resolveDnsEntryToIp returned NULL, and its caller follows it. *)
CrashOnDns ==
    /\ "dns" \in Faults
    /\ pc = "ace"
    /\ aces # <<>>
    /\ Head(aces).dns
    /\ Stop

(* A script the process started runs to its end, so nothing is lost by      *)
(* letting the kill take effect after it.                                  *)
Kill == "kill" \in Faults /\ pc \notin {"down", "removing"} /\ Stop

(* /var and /tmp are tmpfs: the white list, the database and UCI's delta go. *)
Reboot ==
    /\ "reboot" \in Faults
    /\ pc' = "down"
    /\ event' = NoEvent
    /\ LoseStaged
    /\ ClearLocals
    /\ mudDb' = {}
    /\ whitelist' = {}

(* The init script or an administrator starts osmud again. *)
Restart ==
    /\ pc = "down"
    /\ pc' = "idle"
    /\ UNCHANGED <<uciVars, localVars, fileVars>>

-----------------------------------------------------------------------------

(* The steps of the process itself, once it has an event. *)
Handle ==
    \/ RecordLegacyDevice \/ RecordMudDevice \/ ParseMudFile
    \/ StartRemove \/ FailRemove \/ RemoveRule \/ EndRemove
    \/ SkipMissingAcl \/ EnterAcl \/ LeaveAcl
    \/ SkipAce \/ ResolveAce \/ LeaveAce
    \/ InstallAnswer \/ InstallRejectAll
    \/ RemoveMudDbDeviceEntry \/ FinishTransaction \/ RecordMudDeviceAgain
    \/ ClearEvent

Fail == CrashOnJson \/ CrashOnDns \/ Kill \/ Reboot

Next ==
    \/ \E e \in Events : Dispatch(e)
    \/ Retrieve
    \/ Handle
    \/ Fail
    \/ Restart

Spec == Init /\ [][Next]_vars

(* A running process takes its next step.  Retrieve is left out: the        *)
(* download has no time limit (comms.c), so it may never return.           *)
FairSpec == Spec /\ WF_vars(Handle)

-----------------------------------------------------------------------------
(* Safety *)

(* "ORDER MATTERS - this rule needs to be installed after all of the        *)
(* individual allow/deny rules" (mud_manager.c:221): in the enforced and in *)
(* the staged configuration, no rule of a device follows its REJECT-ALL.    *)
(* The firewall takes the first rule that matches.                          *)
LastIn(cfg) ==
    \A d \in DeviceIp : \A i, j \in DOMAIN cfg :
        i < j /\ cfg[i] = RejectAll(d) => ~Involves(cfg[j], d)

RejectAllIsLast == LastIn(committed) /\ LastIn(staged)

(* "Batch firewall changes and only commit changes when full mud file is    *)
(* applied or rollback changes" (CHANGELOG.md:10): whenever a rule of a     *)
(* device is enforced, so is the rule that ends its MUD file's rules.       *)
ClosedIn(cfg) ==
    \A d \in DeviceIp : \A i \in DOMAIN cfg :
        Involves(cfg[i], d) => \E j \in DOMAIN cfg : i <= j /\ cfg[j] = RejectAll(d)

AllOrNothing == ClosedIn(committed)

(* The stages between the first change UCI stages and commit or rollback. *)
InTransaction ==
    {"removing", "accessList", "ace", "install", "forget", "finish"}

(* Outside a transaction nothing is staged: the next commit, of whichever   *)
(* device, cannot make changes permanent that another event left behind.    *)
TransactionClosed == pc \notin InTransaction => staged = committed

(* A device whose MUD file is enforced is in the MUD database, with a URL:  *)
(* executeMudWithDhcpContext writes the entry before it touches a rule, and *)
(* a failure to download, parse, install or remove leaves the entry there.  *)
(* A reboot empties the database and leaves the rules.                      *)
EnforcedIsRecorded ==
    \A d \in DeviceIp, i \in DOMAIN committed :
        Involves(committed[i], d) =>
            \E x \in mudDb : x.ip = d /\ x.url # NoUrl

(* Every address a device may reach or be reached from is an answer for a   *)
(* domain that the DNS white list allows the device to look up.             *)
AllowedIsWhitelisted ==
    \A d \in DeviceIp, i \in DOMAIN committed :
        LET r == committed[i]
        IN  Involves(r, d) /\ r # RejectAll(d) =>
              \E w \in whitelist :
                  /\ w.ip = d
                  /\ \E a \in Answers[w.domain] : ToSet(a) \cap {r.src, r.dst} # {}

(* The enforced rules, device by device, follow DevicePolicy. *)
Policy == INSTANCE DevicePolicy
              WITH policy <- [d \in DeviceIp |-> RulesOf(committed, d)]

PolicySpec == Policy!Spec

(* A device that can be served is: if its host name is known and its MUD    *)
(* file can be put into force (each access list has its ACL, and each DNS   *)
(* entry of it a name and both ports), the transaction is not rolled back.  *)
ServableIsServed ==
    pc = "finish" /\ event.action = "NEW" /\ event.named
        /\ Policy!Enforceable(mudFile) => retval = 0

-----------------------------------------------------------------------------
(* Liveness *)

(* The handler does not get stuck: past the download, every event is done   *)
(* with, or the process is gone.                                            *)
EventCompletes ==
    pc \notin {"idle", "down", "retrieve"} ~> pc \in {"idle", "down"}

(* A servable file, once parsed, comes to be enforced for the device. *)
FileIsEnforced ==
    \A d \in DeviceIp, f \in {g \in MudFiles : Policy!Enforceable(g)} :
        (pc = "remove" /\ event.action = "NEW" /\ event.ip = d /\ event.named
            /\ mudFile = f)
        ~> (RulesOf(committed, d) \in Policy!PoliciesOf(f, d))

(* A device that leaves comes to have no rules enforced. *)
LeaverIsReleased ==
    \A d \in DeviceIp :
        (pc = "remove" /\ event.action = "DEL" /\ event.ip = d)
        ~> (RulesOf(committed, d) = <<>>)
===============================================================================
