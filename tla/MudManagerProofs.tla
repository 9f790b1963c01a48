--------------------------- MODULE MudManagerProofs ---------------------------
(***************************************************************************)
(* What holds of MudManager in every step, from the assumptions its        *)
(* modules make about their constants.                                     *)
(*                                                                         *)
(* First its type invariant: whatever fails, whenever.  Then, that a       *)
(* device that can be served is served: no transaction of a file that can  *)
(* be put into force, for a device with a name, ends in a rollback.        *)
(*                                                                         *)
(* Then the transaction: outside of it nothing is staged, a device's rules *)
(* are enforced all or not at all, and its REJECT-ALL rule is the last of  *)
(* them.  Each theorem names the failures it excludes; the run mm_crash    *)
(* shows what an unresolved name does to all or nothing.                   *)
(*                                                                         *)
(* Last, that what is enforced for a device stands in the files beside the *)
(* firewall: the device in the MUD database, and the domain its rules come *)
(* from in the DNS white list.  Both files only grow, and each is written  *)
(* before the rule it belongs to; so it is enough to follow where a rule   *)
(* comes from.                                                             *)
(***************************************************************************)
EXTENDS MudManager, FirewallProofs

-----------------------------------------------------------------------------
(* Types of the operators of MudFile. *)

LEMMA AccessListsType ==
    ASSUME NEW f \in MudFiles
    PROVE  AccessLists(f) \in Seq(AccessList)
  <1>1. f.from \in Seq(AclName) /\ f.to \in Seq(AclName)
    BY MudFileAssumption DEF IsMudFileInfo
  <1>2. [i \in 1..Len(f.from) |-> [dir |-> "from", acl |-> f.from[i]]]
          \in Seq(AccessList)
    BY <1>1 DEF AccessList
  <1>3. [i \in 1..Len(f.to) |-> [dir |-> "to", acl |-> f.to[i]]]
          \in Seq(AccessList)
    BY <1>1 DEF AccessList
  <1> QED
    BY <1>2, <1>3, ConcatProperties DEF AccessLists

LEMMA AclType ==
    ASSUME NEW f \in MudFiles, NEW name, HasAcl(f, name)
    PROVE  GetMudFileAcl(f, name) \in Seq(Ace)
  <1>1. PICK N \in SUBSET AclName : f.acls \in [N -> Seq(Ace)]
    BY MudFileAssumption DEF IsMudFileInfo
  <1> QED
    BY <1>1 DEF HasAcl, GetMudFileAcl

LEMMA RuleForType ==
    ASSUME NEW dir, NEW ace \in Ace, NEW d \in DeviceIp, NEW r \in RemoteIp
    PROVE  RuleFor(dir, ace, d, r) \in Rule
  BY DEF RuleFor, Rule, Ace, Address

LEMMA RejectAllType ==
    ASSUME NEW d \in DeviceIp
    PROVE  RejectAll(d) \in Rule
  BY DEF RejectAll, Rule, Address, Target

LEMMA HeadTailType ==
    ASSUME NEW S, NEW s \in Seq(S), s # <<>>
    PROVE  Head(s) \in S /\ Tail(s) \in Seq(S)
  BY HeadTailProperties

-----------------------------------------------------------------------------
(* Type correctness, for all constants and all failures.  TypeOK is not    *)
(* inductive: that there is a file once rules are made holds because there *)
(* is one while the earlier rules are removed, unless the device leaves.   *)

StageInv == pc \in {"remove", "removing"} => event.action = "DEL" \/ mudFile # NoMudFile

TypeInv == TypeOK /\ StageInv

LEMMA InitType == Init => TypeInv
  <1>1. SystemRules \in Config
    BY SystemAssumption
  <1> QED
    BY <1>1 DEF Init, UciInit, TypeInv, StageInv, TypeOK, UciTypeOK, Stage

LEMMA StopType == TypeOK /\ Stop => TypeInv'
  BY DEF TypeInv, StageInv, TypeOK, UciTypeOK, Stop, ClearLocals, uciVars, fileVars, Stage

(* The one place where entries of the MUD database are made. *)
LEMMA DbType ==
    ASSUME TypeOK, event \in Event, NEW url \in Url \cup {NoUrl},
           InstallMudDbDeviceEntry(url)
    PROVE  mudDb' \subseteq DbEntry
  BY DEF TypeOK, Event, DbEntry, InstallMudDbDeviceEntry

(* ... and of the firewall configuration. *)
LEMMA InstallType ==
    ASSUME TypeOK, NEW r \in Rule, NEW b, InstallFirewallIPRule(r, b)
    PROVE  UciTypeOK' /\ retval' \in {0, 1}
  <1>1. CASE InstallSucceeds(r, b)
    BY <1>1 DEF TypeOK, UciTypeOK, InstallSucceeds, AddRule, Config
  <1>2. CASE InstallFails(b)
    BY <1>2 DEF TypeOK, UciTypeOK, InstallFails, uciVars
  <1>3. CASE InstallOverwrites(r, b)
    <2>1. staged \in Seq(Rule) /\ retval' = retval /\ UNCHANGED <<committed, lines>>
      BY <1>3 DEF TypeOK, UciTypeOK, Config, InstallOverwrites, OverwriteLast
    <2>2. CASE staged = <<>>
      BY <1>3, <2>1, <2>2 DEF TypeOK, UciTypeOK, InstallOverwrites, OverwriteLast
    <2>3. CASE staged # <<>>
      <3> DEFINE d == IF r.dst = AnyIp THEN Last(staged).dst ELSE r.dst
                 new == [r EXCEPT !.dst = d]
      <3>1. Last(staged) \in Rule
        BY <2>1, <2>3, LenProperties DEF Last
      <3>2. new \in Rule
        BY <3>1 DEF Rule
      <3>3. staged' = [staged EXCEPT ![Len(staged)] = new]
        BY <1>3, <2>3 DEF InstallOverwrites, OverwriteLast
      <3>4. Len(staged) \in 1..Len(staged)
        BY <2>1, <2>3, EmptySeq, LenProperties
      <3> HIDE DEF new
      <3>5. staged' \in Seq(Rule)
        <4>1. [staged EXCEPT ![Len(staged)] = new] \in Seq(Rule)
          BY <2>1, <3>2, <3>4, ExceptSeq
        <4> QED
          BY <3>3, <4>1
      <3> QED
        BY <2>1, <3>5 DEF TypeOK, UciTypeOK, Config
    <2> QED
      BY <2>2, <2>3
  <1> QED
    BY <1>1, <1>2, <1>3 DEF InstallFirewallIPRule

LEMMA DispatchType ==
    ASSUME TypeInv, NEW e \in Event, Dispatch(e)
    PROVE  TypeInv'
  BY EventAssumption DEF Dispatch, TypeInv, StageInv, TypeOK, UciTypeOK, Stage, uciVars, fileVars

LEMMA NextType == TypeInv /\ [Next]_vars => TypeInv'
  <1> SUFFICES ASSUME TypeInv, [Next]_vars
               PROVE  TypeInv'
    OBVIOUS
  <1> USE DEF TypeInv, StageInv, TypeOK, UciTypeOK, Stage, uciVars, localVars, fileVars
  <1>1. ASSUME NEW e \in Events, Dispatch(e)
        PROVE  TypeInv'
    BY <1>1, DispatchType, EventAssumption
  <1>2. CASE Retrieve
    BY <1>2 DEF Retrieve
  <1>3. CASE RecordLegacyDevice
    <2>1. event \in Event
      BY <1>3 DEF RecordLegacyDevice
    <2>2. mudDb' \subseteq DbEntry
      BY <1>3, <2>1, DbType DEF RecordLegacyDevice
    <2> QED
      BY <1>3, <2>2 DEF RecordLegacyDevice
  <1>4. CASE RecordMudDevice \/ RecordMudDeviceAgain
    <2>1. event \in Event /\ event.url \in Url \cup {NoUrl}
      BY <1>4 DEF RecordMudDevice, RecordMudDeviceAgain, Event
    <2>2. mudDb' \subseteq DbEntry
      BY <1>4, <2>1, DbType DEF RecordMudDevice, RecordMudDeviceAgain
    <2> QED
      BY <1>4, <2>2 DEF RecordMudDevice, RecordMudDeviceAgain
  <1>5. CASE ParseMudFile
    BY <1>5, AccessListsType, EventAssumption DEF ParseMudFile
  <1>6. CASE StartRemove
    <2>1. event.ip \in DeviceIp
      BY <1>6 DEF StartRemove, Event
    <2> QED
      BY <1>6, <2>1, MatchingLinesType DEF StartRemove, ShowMatching
  <1>7. CASE FailRemove
    BY <1>7 DEF FailRemove, AfterRemove
  <1>8. CASE RemoveRule
    <2>1. PICK line \in lines : DeleteLine(line)
      BY <1>8 DEF RemoveRule
    <2>2. line.num \in Nat
      BY DEF Line
    <2>3. staged' \in Config
      BY <2>1, <2>2, DeleteRuleType DEF DeleteLine
    <2> QED
      BY <1>8, <2>1, <2>3 DEF RemoveRule, DeleteLine
  <1>9. CASE EndRemove
    BY <1>9 DEF EndRemove, AfterRemove
  <1>10. CASE SkipMissingAcl
    BY <1>10, HeadTailType DEF SkipMissingAcl
  <1>11. CASE EnterAcl
    <2>1. mudFile \in MudFiles
      BY <1>11 DEF EnterAcl
    <2> QED
      BY <1>11, <2>1, AclType DEF EnterAcl
  <1>12. CASE LeaveAcl
    BY <1>12, HeadTailType DEF LeaveAcl
  <1>13. CASE SkipAce
    BY <1>13, HeadTailType DEF SkipAce
  <1>14. CASE ResolveAce
    <2>1. event \in Event /\ Head(aces).domain \in Domain
      <3>1. event \in Event
        BY <1>14 DEF ResolveAce
      <3>2. Head(aces) \in Ace
        BY <1>14, HeadTailType DEF ResolveAce
      <3> QED
        BY <3>1, <3>2 DEF Ace
    <2>2. answers' \in Seq(RemoteIp)
      BY <1>14, <2>1, MudFileAssumption DEF ResolveAce
    <2>3. whitelist' \subseteq WhitelistEntry
      BY <1>14, <2>1 DEF ResolveAce, InstallDnsRule, WhitelistEntry, Event
    <2> QED
      BY <1>14, <2>2, <2>3 DEF ResolveAce
  <1>15. CASE LeaveAce
    BY <1>15, HeadTailType DEF LeaveAce
  <1>16. CASE InstallAnswer
    <2> DEFINE r == RuleFor(Head(accessLists).dir, Head(aces), event.ip, Head(answers))
    <2>1. event.ip \in DeviceIp /\ Head(aces) \in Ace /\ Head(answers) \in RemoteIp
      BY <1>16, HeadTailType DEF InstallAnswer, Event
    <2>2. r \in Rule
      BY <2>1, RuleForType
    <2>3. UciTypeOK' /\ retval' \in {0, 1}
      BY <1>16, <2>2, InstallType DEF InstallAnswer
    <2> QED
      BY <1>16, <2>3, HeadTailType DEF InstallAnswer
  <1>17. CASE InstallRejectAll
    <2>1. event.ip \in DeviceIp
      BY <1>17 DEF InstallRejectAll, Event
    <2>2. RejectAll(event.ip) \in Rule
      BY <2>1, RejectAllType
    <2>3. UciTypeOK' /\ retval' \in {0, 1}
      BY <1>17, <2>2, InstallType DEF InstallRejectAll
    <2> QED
      BY <1>17, <2>3 DEF InstallRejectAll
  <1>18. CASE RemoveMudDbDeviceEntry
    BY <1>18 DEF RemoveMudDbDeviceEntry
  <1>19. CASE FinishTransaction
    BY <1>19 DEF FinishTransaction, CommitAndApplyFirewallRules, CommitRules,
                 RollbackFirewallConfiguration, RollbackRules, AfterFinish, ClearLocals
  <1>20. CASE ClearEvent
    BY <1>20 DEF ClearEvent
  <1>21. CASE CrashOnJson \/ CrashOnDns \/ Kill
    BY <1>21, StopType DEF CrashOnJson, CrashOnDns, Kill
  <1>22. CASE Reboot
    BY <1>22 DEF Reboot, LoseStaged, ClearLocals
  <1>23. CASE Restart
    BY <1>23 DEF Restart
  <1>24. CASE UNCHANGED vars
    BY <1>24 DEF vars
  <1> QED
    BY <1>1, <1>2, <1>3, <1>4, <1>5, <1>6, <1>7, <1>8, <1>9, <1>10, <1>11, <1>12,
       <1>13, <1>14, <1>15, <1>16, <1>17, <1>18, <1>19, <1>20, <1>21, <1>22, <1>23,
       <1>24 DEF Next, Handle, Fail

(* MudManager's variables keep their types, whatever fails. *)
THEOREM TypeCorrect == Spec => []TypeOK
  <1>1. Spec => []TypeInv
    BY InitType, NextType, PTL DEF Spec
  <1>2. TypeInv => TypeOK
    BY DEF TypeInv
  <1> QED
    BY <1>1, <1>2, PTL

-----------------------------------------------------------------------------
(* The script that creates a rule can be run, and succeeds. *)
CreateSucceeds == "create" \notin Faults

(* An ACE whose rules the shell accepts, and an access-list entry of such.  *)
Complete(ace) == ace.dns => Installable(ace)

CompleteAcl(f, name) ==
    /\ HasAcl(f, name)
    /\ \A j \in DOMAIN GetMudFileAcl(f, name) : Complete(GetMudFileAcl(f, name)[j])

AllComplete(f, lists) == \A i \in DOMAIN lists : CompleteAcl(f, lists[i].acl)

Servable(e, f) == e.action = "NEW" /\ e.named /\ Policy!Enforceable(f)

Loops == {"accessList", "ace", "install"}

(* ServableIsServed, strengthened by what the loops have still to do: all    *)
(* of it can be installed, and nothing has failed yet.                     *)
ServeInv ==
    /\ TypeInv
    /\ pc \notin Loops \cup {"finish"} => retval = 0
    /\ pc \in Loops \cup {"remove", "removing", "finish"} /\ Servable(event, mudFile) =>
          retval = 0 /\ AllComplete(mudFile, accessLists)
    /\ pc \in {"ace", "install"} /\ Servable(event, mudFile) =>
          \A j \in DOMAIN aces : Complete(aces[j])
    /\ pc = "install" => Head(aces).dns
    /\ pc = "forget" => event.action = "DEL"

LEMMA InitServe == Init => ServeInv
  BY InitType DEF Init, ServeInv, Loops

LEMMA EnforceableFile ==
    ASSUME NEW f
    PROVE  Policy!Enforceable(f) <=> AllComplete(f, AccessLists(f))
  BY DEF AllComplete, Policy!Enforceable, Policy!AccessLists, AccessLists, Policy!HasAcl, HasAcl,
         Policy!GetMudFileAcl, GetMudFileAcl, CompleteAcl, Complete, Policy!Installable,
         Installable

(* What holds of all elements holds of the first and of those after it. *)
LEMMA HeadTailElements ==
    ASSUME NEW S, NEW s \in Seq(S), s # <<>>
    PROVE  /\ 1 \in DOMAIN s /\ Head(s) = s[1]
           /\ \A i \in DOMAIN Tail(s) : i + 1 \in DOMAIN s /\ Tail(s)[i] = s[i + 1]
  BY HeadTailProperties, EmptySeq, LenProperties

(* A complete rule of a device with a name is installed. *)
LEMMA InstallComplete ==
    ASSUME CreateSucceeds, NEW r, NEW b, InstallFirewallIPRule(r, b), b
    PROVE  retval' = retval
  BY DEF CreateSucceeds, InstallFirewallIPRule, InstallSucceeds, InstallOverwrites, InstallFails

(* Where the handler is before its loops, or done with them. *)
LEMMA OutsideLoops ==
    ASSUME TypeInv', retval' = 0, pc' \notin Loops \cup {"remove", "removing", "forget", "finish"}
    PROVE  ServeInv'
  BY DEF ServeInv, Loops

LEMMA NotServable ==
    ASSUME TypeInv', retval' = 0, pc' \notin Loops, event'.action = "DEL"
    PROVE  ServeInv'
  BY DEF ServeInv, Loops, Servable

(* A step of the loops for a file that can be served. *)
LEMMA InsideLoops ==
    ASSUME TypeInv', pc \in Loops, pc' \in Loops \cup {"finish"},
           event' = event, mudFile' = mudFile,
           Servable(event, mudFile) =>
              /\ retval' = 0
              /\ AllComplete(mudFile, accessLists')
              /\ pc' \in {"ace", "install"} => \A j \in DOMAIN aces' : Complete(aces'[j]),
           pc' = "install" => Head(aces').dns
    PROVE  ServeInv'
  BY DEF ServeInv, Loops

LEMMA TailComplete ==
    ASSUME NEW f, NEW S, NEW s \in Seq(S), s # <<>>
    PROVE  /\ AllComplete(f, s) => AllComplete(f, Tail(s)) /\ CompleteAcl(f, Head(s).acl)
           /\ (\A j \in DOMAIN s : Complete(s[j])) =>
                 (\A j \in DOMAIN Tail(s) : Complete(Tail(s)[j])) /\ Complete(Head(s))
  BY HeadTailElements DEF AllComplete

LEMMA NextServe ==
    ASSUME CreateSucceeds, ServeInv, [Next]_vars
    PROVE  ServeInv'
  <1>1. TypeInv' /\ TypeOK
    BY NextType DEF ServeInv, TypeInv
  <1>2. ASSUME NEW e \in Events, Dispatch(e)
        PROVE  ServeInv'
    <2>1. retval = 0 /\ retval' = 0 /\ event' = e
      BY <1>2 DEF Dispatch, ServeInv, Loops
    <2>2. CASE e.action = "DEL"
      <3>1. pc' = "remove"
        BY <1>2, <2>2 DEF Dispatch
      <3> QED
        BY <1>1, <2>1, <2>2, <3>1, NotServable DEF Loops
    <2>3. CASE e.action # "DEL"
      <3>1. pc' \in {"retrieve", "legacy", "clear"}
        BY <1>2, <2>3 DEF Dispatch
      <3> QED
        BY <1>1, <2>1, <3>1, OutsideLoops DEF Loops
    <2> QED
      BY <2>2, <2>3
  <1>3. CASE \/ Retrieve \/ RecordLegacyDevice \/ RecordMudDevice \/ RecordMudDeviceAgain
             \/ ClearEvent \/ Restart
    <2>1. retval' = 0 /\ pc' \in {"record", "clear", "parse", "idle"}
      BY <1>3 DEF Retrieve, RecordLegacyDevice, RecordMudDevice, RecordMudDeviceAgain,
                  ClearEvent, Restart, localVars, ServeInv, Loops
    <2> QED
      BY <1>1, <2>1, OutsideLoops DEF Loops
  <1>4. CASE FinishTransaction
    BY <1>1, <1>4, OutsideLoops DEF FinishTransaction, AfterFinish, ClearLocals, Loops
  <1>5. CASE CrashOnJson \/ CrashOnDns \/ Kill \/ Reboot
    BY <1>1, <1>5, OutsideLoops
       DEF CrashOnJson, CrashOnDns, Kill, Stop, Reboot, ClearLocals, Loops
  <1>6. CASE ParseMudFile
    <2>1. retval' = 0 /\ pc' = "remove" /\ accessLists' = AccessLists(mudFile')
      BY <1>6 DEF ParseMudFile, ServeInv, Loops
    <2>2. Servable(event', mudFile') => AllComplete(mudFile', accessLists')
      BY <2>1, EnforceableFile DEF Servable
    <2> QED
      BY <1>1, <2>1, <2>2 DEF ServeInv, Loops
  <1>7. CASE StartRemove \/ FailRemove \/ RemoveRule \/ EndRemove
    <2>1. /\ pc \in {"remove", "removing"}
          /\ event' = event /\ mudFile' = mudFile /\ accessLists' = accessLists
          /\ retval' = retval
          /\ pc' \in {"removing", "accessList"} \/ (pc' = "forget" /\ event.action = "DEL")
      BY <1>7 DEF StartRemove, FailRemove, RemoveRule, EndRemove, AfterRemove, localVars
    <2>2. retval' = 0
      BY <2>1 DEF ServeInv, Loops
    <2>3. Servable(event', mudFile') => AllComplete(mudFile', accessLists')
      BY <2>1 DEF ServeInv, Loops
    <2> QED
      BY <1>1, <2>1, <2>2, <2>3 DEF ServeInv, Loops
  <1>8. CASE RemoveMudDbDeviceEntry
    <2>1. retval' = 0 /\ pc' = "finish" /\ event' = event
      BY <1>8 DEF RemoveMudDbDeviceEntry, localVars, ServeInv, Loops
    <2>2. event.action = "DEL"
      BY <1>8 DEF RemoveMudDbDeviceEntry, ServeInv
    <2> QED
      BY <1>1, <2>1, <2>2, NotServable DEF Loops
  <1>9. CASE SkipMissingAcl
    <2>1. ~Servable(event, mudFile)
      <3>1. /\ pc = "accessList" /\ accessLists # <<>> /\ accessLists \in Seq(AccessList)
            /\ ~HasAcl(mudFile, Head(accessLists).acl)
        BY <1>1, <1>9 DEF SkipMissingAcl, TypeOK
      <3> QED
        BY <3>1, TailComplete DEF ServeInv, Loops, CompleteAcl
    <2> QED
      BY <1>1, <1>9, <2>1, InsideLoops DEF SkipMissingAcl, Loops
  <1>10. CASE EnterAcl
    <2>1. /\ pc = "accessList" /\ accessLists # <<>> /\ accessLists \in Seq(AccessList)
          /\ aces' = GetMudFileAcl(mudFile, Head(accessLists).acl)
          /\ pc' = "ace" /\ UNCHANGED <<event, mudFile, accessLists, retval>>
      BY <1>1, <1>10 DEF EnterAcl, TypeOK
    <2>2. Servable(event, mudFile) => \A j \in DOMAIN aces' : Complete(aces'[j])
      BY <2>1, TailComplete DEF ServeInv, Loops, CompleteAcl
    <2>3. Servable(event, mudFile) => retval' = 0 /\ AllComplete(mudFile, accessLists')
      BY <2>1 DEF ServeInv, Loops
    <2> QED
      BY <1>1, <2>1, <2>2, <2>3, InsideLoops DEF Loops
  <1>11. CASE LeaveAcl
    <2>1. /\ pc = "ace" /\ accessLists # <<>> /\ accessLists \in Seq(AccessList)
          /\ accessLists' = Tail(accessLists)
          /\ pc' = "accessList" /\ UNCHANGED <<event, mudFile, retval>>
      BY <1>1, <1>11 DEF LeaveAcl, TypeOK
    <2>2. Servable(event, mudFile) => retval' = 0 /\ AllComplete(mudFile, accessLists')
      BY <2>1, TailComplete DEF ServeInv, Loops
    <2> QED
      BY <1>1, <2>1, <2>2, InsideLoops DEF Loops
  <1>12. CASE SkipAce \/ LeaveAce
    <2>1. /\ pc \in {"ace", "install"} /\ aces # <<>> /\ aces \in Seq(Ace)
          /\ aces' = Tail(aces) /\ pc' = "ace"
          /\ UNCHANGED <<event, mudFile, accessLists, retval>>
      BY <1>1, <1>12 DEF SkipAce, LeaveAce, TypeOK
    <2>2. Servable(event, mudFile) => \A j \in DOMAIN aces' : Complete(aces'[j])
      BY <2>1, TailComplete DEF ServeInv
    <2>3. Servable(event, mudFile) => retval' = 0 /\ AllComplete(mudFile, accessLists')
      BY <2>1 DEF ServeInv, Loops
    <2> QED
      BY <1>1, <2>1, <2>2, <2>3, InsideLoops DEF Loops
  <1>13. CASE ResolveAce
    <2>1. /\ pc = "ace" /\ pc' = "install" /\ Head(aces').dns
          /\ UNCHANGED <<event, mudFile, accessLists, aces, retval>>
      BY <1>13 DEF ResolveAce
    <2>2. Servable(event, mudFile) =>
             /\ retval' = 0 /\ AllComplete(mudFile, accessLists')
             /\ \A j \in DOMAIN aces' : Complete(aces'[j])
      BY <2>1 DEF ServeInv, Loops
    <2> QED
      BY <1>1, <2>1, <2>2, InsideLoops DEF Loops
  <1>14. CASE InstallAnswer
    <2>1. /\ pc = "install" /\ pc' = "install" /\ Head(aces).dns
          /\ aces # <<>> /\ aces \in Seq(Ace)
          /\ UNCHANGED <<event, mudFile, accessLists, aces>>
      BY <1>1, <1>14 DEF InstallAnswer, ServeInv, TypeOK
    <2>2. Servable(event, mudFile) =>
             AllComplete(mudFile, accessLists') /\ \A j \in DOMAIN aces' : Complete(aces'[j])
      BY <2>1 DEF ServeInv, Loops
    <2>3. ASSUME Servable(event, mudFile)
          PROVE  retval' = 0
      <3>1. Installable(Head(aces))
        BY <2>1, <2>2, <2>3, TailComplete DEF Complete
      <3>2. event.named
        BY <2>3 DEF Servable
      <3>3. \E r : InstallFirewallIPRule(r, event.named /\ Installable(Head(aces)))
        BY <1>14 DEF InstallAnswer
      <3>4. retval' = retval
        BY <3>1, <3>2, <3>3, InstallComplete
      <3> QED
        BY <2>1, <2>3, <3>4 DEF ServeInv, Loops
    <2> QED
      BY <1>1, <2>1, <2>2, <2>3, InsideLoops DEF Loops
  <1>15. CASE InstallRejectAll
    <2>1. /\ pc = "accessList" /\ pc' = "finish"
          /\ UNCHANGED <<event, mudFile, accessLists, aces>>
          /\ InstallFirewallIPRule(RejectAll(event.ip), event.named)
      BY <1>15 DEF InstallRejectAll
    <2>2. Servable(event, mudFile) => retval' = 0 /\ AllComplete(mudFile, accessLists')
      BY <2>1, InstallComplete DEF ServeInv, Loops, Servable
    <2> QED
      BY <1>1, <2>1, <2>2, InsideLoops DEF Loops
  <1>16. CASE UNCHANGED vars
    <2>1. UNCHANGED <<pc, event, mudFile, accessLists, aces, answers, retval>>
      BY <1>16 DEF vars, localVars
    <2> QED
      BY <1>1, <2>1 DEF ServeInv
  <1> QED
    BY <1>2, <1>3, <1>4, <1>5, <1>6, <1>7, <1>8, <1>9, <1>10, <1>11, <1>12, <1>13,
       <1>14, <1>15, <1>16 DEF Next, Handle, Fail

(* If the script that creates a rule does its work, a transaction for a     *)
(* device with a name and a file that can be put into force is committed   *)
(* and not rolled back, whatever its access lists, ACEs and answers are.   *)
THEOREM ServableIsServedCorrect ==
    ASSUME CreateSucceeds
    PROVE  Spec => []ServableIsServed
  <1>1. CreateSucceeds => (ServeInv /\ [Next]_vars => ServeInv')
    BY NextServe
  <1>2. ServeInv => ServableIsServed
    BY DEF ServeInv, Loops, Servable, ServableIsServed
  <1> QED
    BY <1>1, <1>2, InitServe, PTL DEF Spec

-----------------------------------------------------------------------------
(* The transaction, and the failures its theorems exclude. *)

(* The process reaches the end of every transaction, and the script that   *)
(* ends it does its work.                                                  *)
TransactionsEnd == Faults \cap {"finish", "dns", "kill"} = {}

(* Earlier rules of a device are removed before new ones are installed. *)
RemovalSucceeds == "remove" \notin Faults

(* A rule that is reported as created is a new one. *)
AddSucceeds == "add" \notin Faults

-----------------------------------------------------------------------------

LEMMA InitClosed == Init => TransactionClosed
  BY DEF Init, UciInit, TransactionClosed

LEMMA NextClosed ==
    ASSUME TransactionsEnd, TypeOK, TransactionClosed, [Next]_vars
    PROVE  TransactionClosed'
  <1> USE DEF TransactionClosed, InTransaction, uciVars, localVars, fileVars
  <1>1. ASSUME NEW e \in Events, Dispatch(e)
        PROVE  TransactionClosed'
    BY <1>1 DEF Dispatch
  <1>2. CASE Retrieve \/ RecordLegacyDevice \/ RecordMudDevice \/ ParseMudFile
             \/ RecordMudDeviceAgain \/ ClearEvent \/ Restart
    BY <1>2 DEF Retrieve, RecordLegacyDevice, RecordMudDevice, ParseMudFile,
                RecordMudDeviceAgain, ClearEvent, Restart
  <1>3. CASE StartRemove \/ FailRemove \/ RemoveRule \/ EndRemove
    BY <1>3 DEF StartRemove, ShowMatching, FailRemove, RemoveRule, EndRemove, AfterRemove
  <1>4. CASE SkipMissingAcl \/ EnterAcl \/ LeaveAcl \/ SkipAce \/ ResolveAce \/ LeaveAce
    BY <1>4 DEF SkipMissingAcl, EnterAcl, LeaveAcl, SkipAce, ResolveAce, LeaveAce
  <1>5. CASE InstallAnswer \/ InstallRejectAll \/ RemoveMudDbDeviceEntry
    BY <1>5 DEF InstallAnswer, InstallRejectAll, RemoveMudDbDeviceEntry
  <1>6. CASE FinishTransaction
    BY <1>6 DEF FinishTransaction, CommitAndApplyFirewallRules, CommitRules,
                RollbackFirewallConfiguration, RollbackRules, TransactionsEnd
  <1>7. CASE CrashOnJson
    BY <1>7 DEF CrashOnJson, Stop
  <1>8. CASE CrashOnDns \/ Kill
    BY <1>8 DEF CrashOnDns, Kill, TransactionsEnd
  <1>9. CASE Reboot
    BY <1>9 DEF Reboot, LoseStaged
  <1>10. CASE UNCHANGED vars
    BY <1>10 DEF vars
  <1> QED
    BY <1>1, <1>2, <1>3, <1>4, <1>5, <1>6, <1>7, <1>8, <1>9, <1>10
       DEF Next, Handle, Fail

(* Outside a transaction nothing is staged, however many rules, files,      *)
(* devices and domains there are, if every transaction ends.  Creating or   *)
(* removing a rule may fail, and the power may go.                          *)
THEOREM TransactionClosedCorrect ==
    ASSUME TransactionsEnd
    PROVE  Spec => []TransactionClosed
  <1>1. TransactionsEnd => (TypeOK /\ TransactionClosed /\ [Next]_vars => TransactionClosed')
    BY NextClosed
  <1> QED
    BY <1>1, InitClosed, TypeCorrect, PTL DEF Spec

-----------------------------------------------------------------------------
(* What one change of the configuration does to the two properties of it. *)

ClosedFor(cfg, d) ==
    \A i \in DOMAIN cfg :
        Involves(cfg[i], d) => \E j \in DOMAIN cfg : i <= j /\ cfg[j] = RejectAll(d)

(* A rule osMUD writes for a device involves no other device. *)
LEMMA RuleOfOneDevice ==
    ASSUME NEW dir, NEW ace, NEW d \in DeviceIp, NEW e \in DeviceIp, d # e,
           NEW remote \in RemoteIp
    PROVE  /\ ~Involves(RuleFor(dir, ace, d, remote), e)
           /\ ~Involves(RejectAll(d), e)
  BY AddressAssumption DEF Involves, RuleFor, RejectAll, Address

(* ... and does not name its address twice. *)
LEMMA RuleOfTwoEnds ==
    ASSUME NEW dir, NEW ace, NEW d \in DeviceIp, NEW remote \in RemoteIp
    PROVE  /\ RuleFor(dir, ace, d, remote).src # RuleFor(dir, ace, d, remote).dst
           /\ RejectAll(d).src # RejectAll(d).dst
           /\ RuleFor(dir, ace, d, remote).dst # AnyIp
           /\ \A e \in DeviceIp : RuleFor(dir, ace, d, remote) # RejectAll(e)
  <1>1. d # remote /\ remote # AnyIp /\ d # AnyIp
    BY AddressAssumption DEF Address
  <1>2. RuleFor(dir, ace, d, remote).dst \in {d, remote}
    BY DEF RuleFor
  <1>3. \A e \in DeviceIp : RejectAll(e).dst = AnyIp
    BY DEF RejectAll
  <1> QED
    BY <1>1, <1>2, <1>3 DEF RuleFor, RejectAll

LEMMA AppendElements ==
    ASSUME NEW cfg \in Config, NEW r \in Rule
    PROVE  /\ Len(Append(cfg, r)) = Len(cfg) + 1
           /\ DOMAIN cfg = 1..Len(cfg) /\ Len(cfg) \in Nat
           /\ DOMAIN Append(cfg, r) = 1..Len(cfg) + 1
           /\ \A i \in 1..Len(cfg) : Append(cfg, r)[i] = cfg[i]
           /\ Append(cfg, r)[Len(cfg) + 1] = r
  BY AppendProperties, LenProperties DEF Config

LEMMA DeleteKeepsLast ==
    ASSUME NEW cfg \in Config, NEW n \in Nat, LastIn(cfg)
    PROVE  LastIn(DeleteRule(cfg, n))
  <1>1. CASE n < Len(cfg)
    BY <1>1, DeleteRuleOrder DEF LastIn
  <1>2. CASE ~(n < Len(cfg))
    BY <1>2 DEF DeleteRule
  <1> QED
    BY <1>1, <1>2

(* A rule may be appended if it involves no device whose REJECT-ALL is there. *)
LEMMA AppendKeepsLast ==
    ASSUME NEW cfg \in Config, NEW r \in Rule, LastIn(cfg),
           \A d \in DeviceIp : Involves(r, d) =>
               \A i \in DOMAIN cfg : cfg[i] # RejectAll(d)
    PROVE  LastIn(Append(cfg, r))
  <1> DEFINE new == Append(cfg, r)
  <1> SUFFICES ASSUME NEW d \in DeviceIp, NEW i \in DOMAIN new, NEW j \in DOMAIN new,
                      i < j, new[i] = RejectAll(d)
               PROVE  ~Involves(new[j], d)
    BY DEF LastIn
  <1>1. i \in DOMAIN cfg /\ cfg[i] = RejectAll(d)
    BY AppendElements
  <1>2. CASE j \in DOMAIN cfg
    BY <1>1, <1>2, AppendElements DEF LastIn
  <1>3. CASE j \notin DOMAIN cfg
    <2>1. new[j] = r
      BY <1>3, AppendElements
    <2> QED
      BY <1>1, <2>1
  <1> QED
    BY <1>2, <1>3

(* Nor does it matter that a rule is written over the last one and takes    *)
(* over its destination: what the last one involves has no REJECT-ALL       *)
(* before it.                                                              *)
Overwritten(cfg, r) ==
    [cfg EXCEPT ![Len(cfg)] = [r EXCEPT !.dst = IF @ = AnyIp THEN Last(cfg).dst ELSE @]]

LEMMA OverwriteElements ==
    ASSUME NEW cfg \in Config, cfg # <<>>, NEW r \in Rule
    PROVE  /\ Len(cfg) \in DOMAIN cfg /\ Len(cfg) \in Nat
           /\ DOMAIN cfg = 1..Len(cfg)
           /\ Len(Overwritten(cfg, r)) = Len(cfg)
           /\ DOMAIN Overwritten(cfg, r) = DOMAIN cfg
           /\ \A i \in DOMAIN cfg : i # Len(cfg) => Overwritten(cfg, r)[i] = cfg[i]
           /\ Overwritten(cfg, r)[Len(cfg)].src = r.src
           /\ Overwritten(cfg, r)[Len(cfg)].dst =
                 IF r.dst = AnyIp THEN cfg[Len(cfg)].dst ELSE r.dst
           /\ r.dst # AnyIp => Overwritten(cfg, r)[Len(cfg)] = r
  <1> DEFINE q == [r EXCEPT !.dst = IF @ = AnyIp THEN Last(cfg).dst ELSE @]
  <1>1. Len(cfg) \in DOMAIN cfg /\ Len(cfg) \in Nat /\ DOMAIN cfg = 1..Len(cfg)
    BY EmptySeq, LenProperties DEF Config
  <1>2. Overwritten(cfg, r) = [cfg EXCEPT ![Len(cfg)] = q]
    BY DEF Overwritten
  <1>3. Last(cfg) = cfg[Len(cfg)]
    BY DEF Last
  <1>4. q.src = r.src /\ q.dst = IF r.dst = AnyIp THEN cfg[Len(cfg)].dst ELSE r.dst
    BY <1>3 DEF Rule
  <1>5. r.dst # AnyIp => q = r
    BY DEF Rule
  <1>6. Len(Overwritten(cfg, r)) = Len(cfg)
    BY <1>2 DEF Config
  <1> HIDE DEF q
  <1>7. DOMAIN Overwritten(cfg, r) = DOMAIN cfg
    BY <1>2
  <1>8. /\ \A i \in DOMAIN cfg : i # Len(cfg) => Overwritten(cfg, r)[i] = cfg[i]
        /\ Overwritten(cfg, r)[Len(cfg)] = q
    BY <1>1, <1>2
  <1> QED
    BY <1>1, <1>4, <1>5, <1>6, <1>7, <1>8

LEMMA OverwriteKeepsLast ==
    ASSUME NEW cfg \in Config, cfg # <<>>, NEW r \in Rule, LastIn(cfg),
           \A d \in DeviceIp : Involves(r, d) =>
               \A i \in DOMAIN cfg : cfg[i] # RejectAll(d)
    PROVE  LastIn(Overwritten(cfg, r))
  <1> DEFINE new == Overwritten(cfg, r)
  <1> SUFFICES ASSUME NEW d \in DeviceIp, NEW i \in DOMAIN new, NEW j \in DOMAIN new,
                      i < j, new[i] = RejectAll(d)
               PROVE  ~Involves(new[j], d)
    BY DEF LastIn
  <1>1. i \in DOMAIN cfg /\ j \in DOMAIN cfg /\ i # Len(cfg)
    BY OverwriteElements
  <1>2. cfg[i] = RejectAll(d)
    BY <1>1, OverwriteElements
  <1>3. ~Involves(cfg[j], d) /\ ~Involves(r, d)
    BY <1>1, <1>2 DEF LastIn
  <1>4. CASE j # Len(cfg)
    BY <1>1, <1>3, <1>4, OverwriteElements
  <1>5. CASE j = Len(cfg)
    BY <1>3, <1>5, OverwriteElements DEF Involves
  <1> QED
    BY <1>4, <1>5

LEMMA DeleteKeepsClosed ==
    ASSUME NEW cfg \in Config, NEW n \in Nat, n < Len(cfg), NEW d \in DeviceIp,
           ClosedFor(cfg, d), cfg[n + 1] # RejectAll(d)
    PROVE  ClosedFor(DeleteRule(cfg, n), d)
  <1> DEFINE new == DeleteRule(cfg, n)
  <1> SUFFICES ASSUME NEW i \in DOMAIN new, Involves(new[i], d)
               PROVE  \E k \in DOMAIN new : i <= k /\ new[k] = RejectAll(d)
    BY DEF ClosedFor
  <1>1. PICK a \in DOMAIN cfg :
           /\ new[i] = cfg[a]
           /\ \A b \in DOMAIN cfg : b >= a /\ b # n + 1 =>
                 \E k \in DOMAIN new : i <= k /\ new[k] = cfg[b]
    BY DeleteRuleOrder
  <1>2. PICK b \in DOMAIN cfg : a <= b /\ cfg[b] = RejectAll(d)
    BY <1>1 DEF ClosedFor
  <1>3. b >= a /\ b # n + 1
    BY <1>2
  <1> QED
    BY <1>1, <1>2, <1>3

LEMMA AppendKeepsClosed ==
    ASSUME NEW cfg \in Config, NEW r \in Rule, NEW d \in DeviceIp,
           ClosedFor(cfg, d), ~Involves(r, d)
    PROVE  ClosedFor(Append(cfg, r), d)
  <1> DEFINE new == Append(cfg, r)
  <1> SUFFICES ASSUME NEW i \in DOMAIN new, Involves(new[i], d)
               PROVE  \E k \in DOMAIN new : i <= k /\ new[k] = RejectAll(d)
    BY DEF ClosedFor
  <1>1. i \in DOMAIN cfg /\ new[i] = cfg[i]
    BY AppendElements
  <1>2. PICK j \in DOMAIN cfg : i <= j /\ cfg[j] = RejectAll(d)
    BY <1>1 DEF ClosedFor
  <1>3. j \in DOMAIN new /\ new[j] = RejectAll(d)
    BY <1>2, AppendElements
  <1> QED
    BY <1>2, <1>3

LEMMA RejectAllCloses ==
    ASSUME NEW cfg \in Config, NEW d \in DeviceIp
    PROVE  ClosedFor(Append(cfg, RejectAll(d)), d)
  <1> DEFINE new == Append(cfg, RejectAll(d))
  <1>1. Len(cfg) + 1 \in DOMAIN new /\ new[Len(cfg) + 1] = RejectAll(d)
    BY RejectAllType, AppendElements
  <1>2. \A i \in DOMAIN new : i <= Len(cfg) + 1
    BY RejectAllType, AppendElements
  <1> QED
    BY <1>1, <1>2 DEF ClosedFor

-----------------------------------------------------------------------------
(* While the script runs, what it has still to delete are the lines that   *)
(* the pipeline would print now: this is why deleting by number, one rule  *)
(* at a time, deletes the rules that were meant.                           *)

BaseInv ==
    /\ TypeInv
    /\ Len(staged) <= MaxRules
    /\ Len(committed) <= MaxRules
    /\ NoRuleToItself(staged)
    /\ NoRuleToItself(committed)
    /\ pc = "removing" => lines = MatchingLines(staged, event.ip)

(* Within a handler the event's address is one of a device. *)
LEMMA EventIp ==
    ASSUME TypeOK, pc \notin {"idle", "down"}
    PROVE  event \in Event /\ event.ip \in DeviceIp
  BY DEF TypeOK, Event

LEMMA InitBase == Init => BaseInv
  <1> SUFFICES ASSUME Init
               PROVE  BaseInv
    OBVIOUS
  <1>1. TypeInv
    BY InitType
  <1>2. staged = SystemRules /\ committed = SystemRules /\ pc = "idle"
    BY DEF Init, UciInit
  <1>3. NoRuleToItself(SystemRules)
    BY SystemAssumption DEF NoRuleToItself
  <1> QED
    BY <1>1, <1>2, <1>3, BoundAssumption DEF BaseInv

(* A step of the script's loop, as DeleteFirstLine has it. *)
LEMMA RemoveRuleStep ==
    ASSUME ScriptIsExact, BaseInv, RemoveRule
    PROVE  \E n \in Nat :
              /\ n < Len(staged)
              /\ Involves(staged[n + 1], event.ip)
              /\ staged' = DeleteRule(staged, n)
              /\ lines' = MatchingLines(staged', event.ip)
              /\ UNCHANGED <<committed, pc, event, mudFile>>
  <1>1. PICK line \in lines : DeleteLine(line)
    BY DEF RemoveRule
  <1>2. lines = MatchingLines(staged, event.ip) /\ event.ip \in DeviceIp
    BY EventIp DEF BaseInv, TypeInv, RemoveRule
  <1>3. staged \in Config /\ Len(staged) \in Nat /\ Len(staged) <= 10
    BY BoundAssumption, LenProperties DEF BaseInv, TypeInv, TypeOK, UciTypeOK, Config, ScriptIsExact
  <1>4. NoRuleToItself(staged)
    BY DEF BaseInv
  <1>5. line \in MatchingLines(staged, event.ip) /\ IsFirst(line, MatchingLines(staged, event.ip))
    BY <1>1, <1>2 DEF DeleteLine
  <1>6. /\ line.num \in Nat
        /\ line.num < Len(staged)
        /\ Involves(staged[line.num + 1], event.ip)
        /\ MatchingLines(DeleteRule(staged, line.num), event.ip)
             = MatchingLines(staged, event.ip) \ {line}
    BY <1>2, <1>3, <1>4, <1>5, DeleteFirstLine
  <1>7. staged' = DeleteRule(staged, line.num) /\ lines' = lines \ {line} /\ committed' = committed
    BY <1>1 DEF DeleteLine
  <1>8. UNCHANGED <<pc, event, mudFile>>
    BY DEF RemoveRule, localVars
  <1> QED
    BY <1>2, <1>6, <1>7, <1>8

LEMMA DeleteKeepsBase ==
    ASSUME NEW cfg \in Config, NEW n \in Nat, n < Len(cfg), NoRuleToItself(cfg)
    PROVE  NoRuleToItself(DeleteRule(cfg, n)) /\ Len(DeleteRule(cfg, n)) <= Len(cfg)
  <1>1. NoRuleToItself(DeleteRule(cfg, n))
    BY DeleteRuleOrder DEF NoRuleToItself
  <1>2. Len(DeleteRule(cfg, n)) = Len(cfg) - 1 /\ Len(cfg) \in Nat
    BY DeleteRuleElements, LenProperties DEF Config
  <1> QED
    BY <1>1, <1>2

LEMMA AppendKeepsBase ==
    ASSUME NEW cfg \in Config, NEW r \in Rule, r.src # r.dst,
           NoRuleToItself(cfg), Len(cfg) < MaxRules
    PROVE  NoRuleToItself(Append(cfg, r)) /\ Len(Append(cfg, r)) <= MaxRules
  <1>1. NoRuleToItself(Append(cfg, r))
    BY AppendElements DEF NoRuleToItself
  <1>2. Len(Append(cfg, r)) <= MaxRules
    BY AppendElements, BoundAssumption
  <1> QED
    BY <1>1, <1>2

(* The rule a step installs is one for the event's device. *)
LEMMA InstalledRule ==
    ASSUME TypeOK, InstallAnswer
    PROVE  LET r == RuleFor(Head(accessLists).dir, Head(aces), event.ip, Head(answers))
           IN  /\ r \in Rule
               /\ r.src # r.dst /\ r.dst # AnyIp
               /\ \A e \in DeviceIp : r # RejectAll(e)
               /\ \A e \in DeviceIp : e # event.ip => ~Involves(r, e)
               /\ InstallFirewallIPRule(r, event.named /\ Installable(Head(aces)))
  <1>1. event.ip \in DeviceIp
    BY EventIp DEF InstallAnswer
  <1>2. Head(aces) \in Ace /\ Head(answers) \in RemoteIp
    BY HeadTailType DEF InstallAnswer, TypeOK
  <1> QED
    BY <1>1, <1>2, RuleForType, RuleOfOneDevice, RuleOfTwoEnds DEF InstallAnswer

(* The steps that leave the firewall alone and do not start the script. *)
Quiet ==
    \/ \E e \in Events : Dispatch(e)
    \/ Retrieve \/ RecordLegacyDevice \/ RecordMudDevice \/ ParseMudFile
    \/ FailRemove \/ EndRemove
    \/ SkipMissingAcl \/ EnterAcl \/ LeaveAcl \/ SkipAce \/ ResolveAce \/ LeaveAce
    \/ RemoveMudDbDeviceEntry \/ RecordMudDeviceAgain \/ ClearEvent
    \/ CrashOnJson \/ CrashOnDns \/ Kill \/ Restart

LEMMA QuietSteps ==
    ASSUME Quiet
    PROVE  UNCHANGED uciVars /\ pc' # "removing"
  <1>1. ASSUME NEW e \in Events, Dispatch(e)
        PROVE  UNCHANGED uciVars /\ pc' # "removing"
    BY <1>1 DEF Dispatch, uciVars
  <1>2. CASE \/ Retrieve \/ RecordLegacyDevice \/ RecordMudDevice \/ ParseMudFile
             \/ FailRemove \/ EndRemove
             \/ RemoveMudDbDeviceEntry \/ RecordMudDeviceAgain \/ ClearEvent
    BY <1>2 DEF Retrieve, RecordLegacyDevice, RecordMudDevice, ParseMudFile,
                FailRemove, EndRemove, AfterRemove,
                RemoveMudDbDeviceEntry, RecordMudDeviceAgain, ClearEvent, uciVars
  <1>3. CASE SkipMissingAcl \/ EnterAcl \/ LeaveAcl \/ SkipAce \/ ResolveAce \/ LeaveAce
    BY <1>3 DEF SkipMissingAcl, EnterAcl, LeaveAcl, SkipAce, ResolveAce, LeaveAce, uciVars
  <1>4. CASE CrashOnJson \/ CrashOnDns \/ Kill \/ Restart
    BY <1>4 DEF CrashOnJson, CrashOnDns, Kill, Stop, Restart, uciVars
  <1> QED
    BY <1>1, <1>2, <1>3, <1>4 DEF Quiet

LEMMA StepKinds ==
    ASSUME [Next]_vars
    PROVE  \/ Quiet \/ StartRemove \/ RemoveRule \/ InstallAnswer \/ InstallRejectAll
           \/ FinishTransaction \/ Reboot \/ UNCHANGED vars
  BY DEF Next, Handle, Fail, Quiet

LEMMA NextBase ==
    ASSUME ScriptIsExact, AddSucceeds, BaseInv, [Next]_vars
    PROVE  BaseInv'
  <1>1. TypeInv' /\ TypeOK
    BY NextType DEF BaseInv, TypeInv
  <1>2. staged \in Config /\ committed \in Config
    BY <1>1 DEF TypeOK, UciTypeOK
  <1>3. CASE Quiet
    BY <1>1, <1>3, QuietSteps DEF BaseInv, uciVars
  <1>4. CASE StartRemove
    BY <1>1, <1>4 DEF BaseInv, StartRemove, ShowMatching, localVars
  <1>5. CASE RemoveRule
    <2>1. PICK n \in Nat :
             /\ n < Len(staged)
             /\ staged' = DeleteRule(staged, n)
             /\ lines' = MatchingLines(staged', event.ip)
             /\ UNCHANGED <<committed, pc, event, mudFile>>
      BY <1>5, RemoveRuleStep
    <2>2. NoRuleToItself(staged') /\ Len(staged') <= Len(staged)
      BY <1>2, <2>1, DeleteKeepsBase DEF BaseInv
    <2>3. Len(staged') <= MaxRules
      <3>1. staged' \in Config
        BY <1>1 DEF TypeInv, TypeOK, UciTypeOK
      <3>2. Len(staged') \in Int /\ Len(staged) \in Int /\ MaxRules \in Int
        BY <1>2, <3>1, LenProperties, BoundAssumption DEF Config
      <3> QED
        BY <2>2, <3>2 DEF BaseInv
    <2> QED
      BY <1>1, <2>1, <2>2, <2>3 DEF BaseInv
  <1>6. CASE InstallAnswer
    <2> DEFINE r == RuleFor(Head(accessLists).dir, Head(aces), event.ip, Head(answers))
    <2>1. /\ r \in Rule /\ r.src # r.dst
          /\ InstallFirewallIPRule(r, event.named /\ Installable(Head(aces)))
      BY <1>1, <1>6, InstalledRule
    <2> HIDE DEF r
    <2>2. CASE UNCHANGED uciVars
      BY <1>1, <1>6, <2>2 DEF BaseInv, InstallAnswer, uciVars
    <2>3. CASE AddRule(r)
      BY <1>1, <1>2, <1>6, <2>1, <2>3, AppendKeepsBase DEF BaseInv, AddRule, InstallAnswer
    <2> QED
      BY <2>1, <2>2, <2>3
         DEF InstallFirewallIPRule, InstallSucceeds, InstallOverwrites, InstallFails, AddSucceeds
  <1>7. CASE InstallRejectAll
    <2>1. event.ip \in DeviceIp
      BY <1>1, <1>7, EventIp DEF InstallRejectAll
    <2>2. RejectAll(event.ip) \in Rule /\ RejectAll(event.ip).src # RejectAll(event.ip).dst
      BY <2>1, RejectAllType, AddressAssumption DEF RejectAll, Address
    <2>3. CASE UNCHANGED uciVars
      BY <1>1, <1>7, <2>3 DEF BaseInv, InstallRejectAll, uciVars
    <2>4. CASE AddRule(RejectAll(event.ip))
      BY <1>1, <1>2, <1>7, <2>2, <2>4, AppendKeepsBase DEF BaseInv, AddRule, InstallRejectAll
    <2> QED
      BY <1>7, <2>3, <2>4
         DEF InstallRejectAll, InstallFirewallIPRule, InstallSucceeds, InstallOverwrites,
             InstallFails, AddSucceeds
  <1>8. CASE FinishTransaction
    BY <1>1, <1>8 DEF BaseInv, FinishTransaction, CommitAndApplyFirewallRules, CommitRules,
                      RollbackFirewallConfiguration, RollbackRules, AfterFinish, uciVars
  <1>9. CASE Reboot
    BY <1>1, <1>9 DEF BaseInv, Reboot, LoseStaged
  <1>10. CASE UNCHANGED vars
    BY <1>1, <1>10 DEF BaseInv, vars, uciVars, localVars
  <1> QED
    BY <1>3, <1>4, <1>5, <1>6, <1>7, <1>8, <1>9, <1>10, StepKinds

-----------------------------------------------------------------------------
(* REJECT-ALL is last.  The strengthening: while the device's rules are     *)
(* made, its REJECT-ALL is not there, because all earlier rules went.  A    *)
(* rule that was overwritten may name its address on both ends, so that    *)
(* the script deletes one rule too many: it has still to delete at least    *)
(* the lines that the pipeline would print now.                            *)

OrderInv ==
    /\ TypeInv
    /\ Len(staged) <= MaxRules
    /\ Len(committed) <= MaxRules
    /\ LastIn(staged)
    /\ LastIn(committed)
    /\ pc = "removing" => /\ MatchingLines(staged, event.ip) \subseteq lines
                         /\ \A l \in lines : l.num < MaxRules
    /\ pc \in {"accessList", "ace", "install"} =>
          \A i \in DOMAIN staged : staged[i] # RejectAll(event.ip)

LEMMA InitOrder == Init => OrderInv
  <1> SUFFICES ASSUME Init
               PROVE  OrderInv
    OBVIOUS
  <1>1. staged = SystemRules /\ committed = SystemRules /\ pc = "idle"
    BY DEF Init, UciInit
  <1>2. LastIn(SystemRules)
    BY SystemAssumption DEF LastIn, RejectAll
  <1> QED
    BY <1>1, <1>2, InitType, BoundAssumption DEF OrderInv

LEMMA NextOrder ==
    ASSUME ScriptIsExact, RemovalSucceeds, OrderInv, [Next]_vars
    PROVE  OrderInv'
  <1>1. TypeInv /\ TypeInv'
    BY NextType DEF OrderInv
  <1>2. /\ TypeOK /\ staged \in Config /\ committed \in Config
        /\ Len(staged) \in Nat /\ Len(staged) <= MaxRules
        /\ MaxRules \in 0..10
    BY <1>1, LenProperties, BoundAssumption
       DEF OrderInv, TypeInv, TypeOK, UciTypeOK, Config, ScriptIsExact
  <1>3. CASE EndRemove
    <2>1. event.ip \in DeviceIp /\ MatchingLines(staged, event.ip) = {}
      BY <1>2, <1>3, EventIp DEF OrderInv, EndRemove
    <2>2. \A i \in DOMAIN staged : ~Involves(staged[i], event.ip)
      BY <1>2, <2>1, NoLinesMeansNoRules
    <2>3. \A i \in DOMAIN staged : staged[i] # RejectAll(event.ip)
      BY <2>2 DEF Involves, RejectAll
    <2> QED
      BY <1>1, <1>3, <2>3 DEF OrderInv, EndRemove, uciVars, localVars
  <1>4. CASE Quiet /\ ~EndRemove
    <2>1. /\ UNCHANGED uciVars /\ pc' # "removing"
          /\ pc' \in {"accessList", "ace", "install"} =>
                pc \in {"accessList", "ace", "install"} /\ event' = event
      <3>1. UNCHANGED uciVars /\ pc' # "removing"
        BY <1>4, QuietSteps
      <3>2. CASE \E e \in Events : Dispatch(e)
        BY <3>1, <3>2 DEF Dispatch
      <3>3. CASE \/ Retrieve \/ RecordLegacyDevice \/ RecordMudDevice \/ ParseMudFile
                 \/ RemoveMudDbDeviceEntry \/ RecordMudDeviceAgain \/ ClearEvent
        BY <3>1, <3>3 DEF Retrieve, RecordLegacyDevice, RecordMudDevice, ParseMudFile,
                    RemoveMudDbDeviceEntry, RecordMudDeviceAgain, ClearEvent
      <3>4. CASE SkipMissingAcl \/ EnterAcl \/ LeaveAcl \/ SkipAce \/ ResolveAce \/ LeaveAce
        BY <3>1, <3>4 DEF SkipMissingAcl, EnterAcl, LeaveAcl, SkipAce, ResolveAce, LeaveAce
      <3>5. CASE FailRemove
        BY <3>5 DEF FailRemove, RemovalSucceeds
      <3>6. CASE CrashOnJson \/ CrashOnDns \/ Kill \/ Restart
        BY <3>1, <3>6 DEF CrashOnJson, CrashOnDns, Kill, Stop, Restart
      <3> QED
        BY <1>4, <3>2, <3>3, <3>4, <3>5, <3>6 DEF Quiet
    <2> QED
      BY <1>1, <2>1 DEF OrderInv, uciVars
  <1>5. CASE StartRemove
    <2>1. /\ UNCHANGED <<staged, committed, event>> /\ pc' = "removing"
          /\ lines' = MatchingLines(staged, event.ip)
          /\ event.ip \in DeviceIp
      BY <1>2, <1>5, EventIp DEF StartRemove, ShowMatching, localVars
    <2>2. \A l \in lines' : l.num < MaxRules
      <3> SUFFICES ASSUME NEW l \in MatchingLines(staged, event.ip)
                   PROVE  l.num < MaxRules
        BY <2>1
      <3>1. PICK i \in DOMAIN staged : l.num = i - 1
        BY <1>2, <2>1, MatchingLinesExact
      <3>2. i \in 1..Len(staged)
        BY <1>2, LenProperties DEF Config
      <3> QED
        BY <1>2, <3>1, <3>2
    <2> QED
      BY <1>1, <2>1, <2>2 DEF OrderInv
  <1>6. CASE RemoveRule
    <2>1. PICK line \in lines : DeleteLine(line)
      BY <1>6 DEF RemoveRule
    <2>2. /\ pc = "removing" /\ UNCHANGED <<committed, pc, event>>
          /\ staged' = DeleteRule(staged, line.num) /\ lines' = lines \ {line}
          /\ event.ip \in DeviceIp
      BY <1>2, <1>6, <2>1, EventIp DEF RemoveRule, DeleteLine, localVars
    <2>3. \A l \in lines : l.num \in 0..9 /\ l.num \in Nat
      <3>1. \A l \in lines : l.num \in Nat /\ l.num < MaxRules
        BY <1>2, <2>2 DEF OrderInv, TypeOK, UciTypeOK, Line
      <3> QED
        BY <1>2, <3>1
    <2>4. MatchingLines(staged', event.ip) \subseteq lines'
      <3>1. MatchingLines(staged, event.ip) \subseteq lines /\ IsFirst(line, lines)
        BY <2>1, <2>2 DEF OrderInv, DeleteLine
      <3>2. MatchingLines(DeleteRule(staged, line.num), event.ip) \subseteq lines \ {line}
        BY <1>2, <2>1, <2>2, <2>3, <3>1, DeleteFirstKeepsLines
      <3> QED
        BY <2>2, <3>2
    <2>5. LastIn(staged')
      BY <1>2, <2>2, <2>3, DeleteKeepsLast DEF OrderInv
    <2>6. Len(staged') <= MaxRules
      <3>1. CASE line.num < Len(staged)
        BY <1>2, <2>2, <2>3, <3>1, DeleteRuleElements
      <3>2. CASE ~(line.num < Len(staged))
        BY <1>2, <2>2, <3>2 DEF DeleteRule
      <3> QED
        BY <3>1, <3>2
    <2> QED
      BY <1>1, <2>2, <2>4, <2>5, <2>6 DEF OrderInv
  <1>7. CASE InstallAnswer
    <2> DEFINE r == RuleFor(Head(accessLists).dir, Head(aces), event.ip, Head(answers))
    <2>1. /\ r \in Rule /\ r.dst # AnyIp
          /\ \A e \in DeviceIp : r # RejectAll(e)
          /\ \A e \in DeviceIp : e # event.ip => ~Involves(r, e)
          /\ InstallFirewallIPRule(r, event.named /\ Installable(Head(aces)))
      BY <1>2, <1>7, InstalledRule
    <2> HIDE DEF r
    <2>2. /\ UNCHANGED <<pc, event>> /\ pc = "install"
          /\ \A e \in DeviceIp : Involves(r, e) => e = event.ip
          /\ \A i \in DOMAIN staged : staged[i] # RejectAll(event.ip)
          /\ event.ip \in DeviceIp
      BY <1>2, <1>7, <2>1, EventIp DEF OrderInv, InstallAnswer
    <2>3. CASE UNCHANGED uciVars
      BY <1>1, <2>2, <2>3 DEF OrderInv, uciVars
    <2>4. CASE AddRule(r)
      <3>1. LastIn(Append(staged, r))
        BY <1>2, <2>1, <2>2, AppendKeepsLast DEF OrderInv
      <3>2. \A i \in DOMAIN Append(staged, r) : Append(staged, r)[i] # RejectAll(event.ip)
        BY <1>2, <2>1, <2>2, AppendElements
      <3>3. Len(Append(staged, r)) <= MaxRules
        BY <1>2, <2>1, <2>4, AppendElements DEF AddRule
      <3> QED
        BY <1>1, <2>2, <2>4, <3>1, <3>2, <3>3 DEF OrderInv, AddRule
    <2>5. CASE OverwriteLast(r) /\ staged # <<>>
      <3>1. staged' = Overwritten(staged, r) /\ committed' = committed
        BY <2>5 DEF OverwriteLast, Overwritten
      <3>2. LastIn(Overwritten(staged, r))
        BY <1>2, <2>1, <2>2, <2>5, OverwriteKeepsLast DEF OrderInv
      <3>3. /\ \A i \in DOMAIN Overwritten(staged, r) :
                  Overwritten(staged, r)[i] # RejectAll(event.ip)
            /\ Len(Overwritten(staged, r)) <= MaxRules
        BY <1>2, <2>1, <2>2, <2>5, OverwriteElements
      <3> QED
        BY <1>1, <2>2, <3>1, <3>2, <3>3 DEF OrderInv
    <2>6. OverwriteLast(r) /\ staged = <<>> => UNCHANGED uciVars
      BY DEF OverwriteLast, uciVars
    <2> QED
      BY <2>1, <2>3, <2>4, <2>5, <2>6
         DEF InstallFirewallIPRule, InstallSucceeds, InstallOverwrites, InstallFails
  <1>8. CASE InstallRejectAll
    <2>1. /\ event.ip \in DeviceIp /\ pc' = "finish"
          /\ \A i \in DOMAIN staged : staged[i] # RejectAll(event.ip)
      BY <1>2, <1>8, EventIp DEF OrderInv, InstallRejectAll
    <2>2. CASE UNCHANGED uciVars
      BY <1>1, <2>1, <2>2 DEF OrderInv, uciVars
    <2>3. /\ \A d \in DeviceIp : Involves(RejectAll(event.ip), d) => d = event.ip
          /\ RejectAll(event.ip) \in Rule
      BY <2>1, RejectAllType, AddressAssumption DEF Involves, RejectAll, Address
    <2>4. CASE AddRule(RejectAll(event.ip))
      <3>1. LastIn(Append(staged, RejectAll(event.ip)))
        BY <1>2, <2>1, <2>3, AppendKeepsLast DEF OrderInv
      <3>2. Len(Append(staged, RejectAll(event.ip))) <= MaxRules
        BY <1>2, <2>3, <2>4, AppendElements DEF AddRule
      <3> QED
        BY <1>1, <2>1, <2>4, <3>1, <3>2 DEF OrderInv, AddRule
    <2>5. CASE OverwriteLast(RejectAll(event.ip)) /\ staged # <<>>
      <3>1. staged' = Overwritten(staged, RejectAll(event.ip)) /\ committed' = committed
        BY <2>5 DEF OverwriteLast, Overwritten
      <3>2. LastIn(Overwritten(staged, RejectAll(event.ip)))
        BY <1>2, <2>1, <2>3, <2>5, OverwriteKeepsLast DEF OrderInv
      <3>3. Len(Overwritten(staged, RejectAll(event.ip))) <= MaxRules
        BY <1>2, <2>3, <2>5, OverwriteElements
      <3> QED
        BY <1>1, <2>1, <3>1, <3>2, <3>3 DEF OrderInv
    <2>6. OverwriteLast(RejectAll(event.ip)) /\ staged = <<>> => UNCHANGED uciVars
      BY DEF OverwriteLast, uciVars
    <2> QED
      BY <1>8, <2>2, <2>4, <2>5, <2>6
         DEF InstallRejectAll, InstallFirewallIPRule, InstallSucceeds, InstallOverwrites,
             InstallFails
  <1>9. CASE FinishTransaction
    BY <1>1, <1>9 DEF OrderInv, FinishTransaction, CommitAndApplyFirewallRules, CommitRules,
                      RollbackFirewallConfiguration, RollbackRules, AfterFinish, uciVars
  <1>10. CASE Reboot
    BY <1>1, <1>10 DEF OrderInv, Reboot, LoseStaged
  <1>11. CASE UNCHANGED vars
    BY <1>1, <1>11 DEF OrderInv, vars, uciVars, localVars
  <1> QED
    BY <1>3, <1>4, <1>5, <1>6, <1>7, <1>8, <1>9, <1>10, <1>11, StepKinds

(* No rule of a device follows its REJECT-ALL, in what is enforced and in   *)
(* what is staged, if the script removes what it should and can be run.    *)
(* The process may be killed, and the power go, at any step, and rules may  *)
(* be written over others.                                                 *)
THEOREM RejectAllIsLastCorrect ==
    ASSUME ScriptIsExact, RemovalSucceeds
    PROVE  Spec => []RejectAllIsLast
  <1>1. ScriptIsExact /\ RemovalSucceeds => (OrderInv /\ [Next]_vars => OrderInv')
    BY NextOrder
  <1>2. OrderInv => RejectAllIsLast
    BY DEF OrderInv, RejectAllIsLast
  <1> QED
    BY <1>1, <1>2, InitOrder, PTL DEF Spec

-----------------------------------------------------------------------------
(* All or nothing.  The strengthening: during a transaction only the rules  *)
(* of the event's device may lack their REJECT-ALL, and at its end they     *)
(* have it, unless something failed.                                       *)

ClosedInv ==
    /\ BaseInv
    /\ TransactionClosed
    /\ \A d \in DeviceIp : ClosedFor(committed, d)
    /\ \A d \in DeviceIp :
          pc \notin InTransaction \/ event.ip # d => ClosedFor(staged, d)
    /\ pc \in {"forget", "finish"} /\ retval = 0 => ClosedFor(staged, event.ip)

LEMMA InitAllOrNothing == Init => ClosedInv
  <1> SUFFICES ASSUME Init
               PROVE  ClosedInv
    OBVIOUS
  <1>1. staged = SystemRules /\ committed = SystemRules /\ pc = "idle"
    BY DEF Init, UciInit
  <1>2. \A d \in DeviceIp : ClosedFor(SystemRules, d)
    BY SystemAssumption DEF ClosedFor, Involves
  <1> QED
    BY <1>1, <1>2, InitBase, InitClosed DEF ClosedInv

LEMMA NextAllOrNothing ==
    ASSUME ScriptIsExact, AddSucceeds, TransactionsEnd, ClosedInv, [Next]_vars
    PROVE  ClosedInv'
  <1>1. BaseInv' /\ BaseInv
    BY NextBase DEF ClosedInv
  <1>2. TypeOK /\ staged \in Config /\ committed \in Config
    BY <1>1 DEF BaseInv, TypeInv, TypeOK, UciTypeOK
  <1>3. TransactionClosed'
    BY <1>2, NextClosed DEF ClosedInv
  <1>a. \A d \in DeviceIp : pc' \notin InTransaction /\ ClosedFor(committed', d)
           => ClosedFor(staged', d)
    BY <1>3 DEF TransactionClosed
  <1>b. pc \notin {"idle", "down"} => event.ip \in DeviceIp
    BY <1>2, EventIp
  <1>4. CASE FailRemove
    <2>1. staged = committed /\ UNCHANGED <<uciVars, event>>
      BY <1>4 DEF ClosedInv, TransactionClosed, InTransaction, FailRemove, localVars
    <2>2. event.ip \in DeviceIp
      BY <1>4, <1>b DEF FailRemove
    <2> QED
      BY <1>1, <1>3, <2>1, <2>2 DEF ClosedInv, uciVars
  <1>5. CASE EndRemove
    <2>1. event.ip \in DeviceIp /\ MatchingLines(staged, event.ip) = {}
      BY <1>1, <1>5, <1>b DEF BaseInv, EndRemove
    <2>2. \A i \in DOMAIN staged : ~Involves(staged[i], event.ip)
      BY <1>2, <2>1, NoLinesMeansNoRules
    <2>3. ClosedFor(staged, event.ip)
      BY <2>2 DEF ClosedFor
    <2>4. UNCHANGED <<uciVars, event>> /\ pc \in InTransaction
      BY <1>5 DEF EndRemove, localVars, InTransaction
    <2> QED
      BY <1>1, <1>3, <2>3, <2>4 DEF ClosedInv, uciVars
  <1>6. CASE \/ SkipMissingAcl \/ EnterAcl \/ LeaveAcl \/ SkipAce \/ ResolveAce \/ LeaveAce
    <2>1. /\ UNCHANGED <<uciVars, event>>
          /\ pc \in InTransaction /\ pc' \notin {"forget", "finish"}
      BY <1>6 DEF SkipMissingAcl, EnterAcl, LeaveAcl, SkipAce, ResolveAce, LeaveAce,
                  InTransaction
    <2> QED
      BY <1>1, <1>3, <2>1, <1>a DEF ClosedInv, uciVars
  <1>7. CASE RemoveMudDbDeviceEntry
    BY <1>1, <1>3, <1>7 DEF ClosedInv, RemoveMudDbDeviceEntry, InTransaction,
                            uciVars, localVars
  <1>8. CASE \/ \E e \in Events : Dispatch(e)
             \/ Retrieve \/ RecordLegacyDevice \/ RecordMudDevice \/ ParseMudFile
             \/ RecordMudDeviceAgain \/ ClearEvent
             \/ CrashOnJson \/ CrashOnDns \/ Kill \/ Restart
    <2>1. UNCHANGED uciVars
      BY <1>8, QuietSteps DEF Quiet
    <2>2. pc \notin InTransaction /\ pc' \notin {"forget", "finish"}
      <3>1. CASE \E e \in Events : Dispatch(e)
        BY <3>1 DEF Dispatch, InTransaction
      <3>2. CASE \/ Retrieve \/ RecordLegacyDevice \/ RecordMudDevice \/ ParseMudFile
                 \/ RecordMudDeviceAgain \/ ClearEvent \/ Restart
        BY <3>2 DEF Retrieve, RecordLegacyDevice, RecordMudDevice, ParseMudFile,
                    RecordMudDeviceAgain, ClearEvent, Restart, InTransaction
      <3>3. CASE CrashOnJson
        BY <3>3 DEF CrashOnJson, Stop, InTransaction
      <3>4. CASE CrashOnDns \/ Kill
        BY <3>4 DEF CrashOnDns, Kill, TransactionsEnd
      <3> QED
        BY <1>8, <3>1, <3>2, <3>3, <3>4
    <2> QED
      BY <1>1, <1>3, <2>1, <2>2 DEF ClosedInv, uciVars
  <1>9. CASE StartRemove
    <2>1. /\ UNCHANGED <<staged, committed, event>>
          /\ pc \notin InTransaction /\ pc' = "removing"
      BY <1>9 DEF StartRemove, ShowMatching, localVars, InTransaction
    <2> QED
      BY <1>1, <1>3, <2>1 DEF ClosedInv
  <1>10. CASE RemoveRule
    <2>1. PICK n \in Nat :
             /\ n < Len(staged)
             /\ Involves(staged[n + 1], event.ip)
             /\ staged' = DeleteRule(staged, n)
             /\ UNCHANGED <<committed, pc, event>>
      BY <1>1, <1>10, RemoveRuleStep
    <2>2. pc = "removing" /\ pc \in InTransaction
      BY <1>10 DEF RemoveRule, InTransaction
    <2>3. ASSUME NEW d \in DeviceIp, event.ip # d
          PROVE  ClosedFor(staged', d)
      <3>1. staged[n + 1] # RejectAll(d)
        BY <1>b, <2>1, <2>2, <2>3, AddressAssumption DEF Involves, RejectAll, Address
      <3>2. ClosedFor(staged, d)
        BY <2>3 DEF ClosedInv
      <3> QED
        BY <1>2, <2>1, <3>1, <3>2, DeleteKeepsClosed
    <2> QED
      BY <1>1, <1>3, <2>1, <2>2, <2>3 DEF ClosedInv
  <1>11. CASE InstallAnswer
    <2> DEFINE r == RuleFor(Head(accessLists).dir, Head(aces), event.ip, Head(answers))
    <2>1. /\ r \in Rule
          /\ \A e \in DeviceIp : e # event.ip => ~Involves(r, e)
          /\ InstallFirewallIPRule(r, event.named /\ Installable(Head(aces)))
      BY <1>2, <1>11, InstalledRule
    <2> HIDE DEF r
    <2>2. UNCHANGED <<pc, event>> /\ pc = "install" /\ pc \in InTransaction
      BY <1>11 DEF InstallAnswer, InTransaction
    <2>3. CASE UNCHANGED uciVars
      BY <1>1, <1>3, <2>2, <2>3 DEF ClosedInv, uciVars
    <2>4. CASE AddRule(r)
      <3>1. ASSUME NEW d \in DeviceIp, event.ip # d
            PROVE  ClosedFor(staged', d)
        BY <1>2, <2>1, <2>4, <3>1, AppendKeepsClosed DEF ClosedInv, AddRule
      <3> QED
        BY <1>1, <1>3, <2>2, <2>4, <3>1 DEF ClosedInv, AddRule
    <2> QED
      BY <2>1, <2>3, <2>4
         DEF InstallFirewallIPRule, InstallSucceeds, InstallOverwrites, InstallFails, AddSucceeds
  <1>12. CASE InstallRejectAll
    <2>1. /\ event' = event /\ pc' = "finish" /\ pc \in InTransaction
          /\ pc' \in InTransaction /\ event.ip \in DeviceIp
      BY <1>b, <1>12 DEF InstallRejectAll, InTransaction
    <2>2. CASE InstallFails(event.named)
      BY <1>1, <1>3, <2>1, <2>2 DEF ClosedInv, InstallFails, uciVars
    <2>3. CASE AddRule(RejectAll(event.ip))
      <3>1. RejectAll(event.ip) \in Rule
        BY <2>1, RejectAllType
      <3>2. ASSUME NEW d \in DeviceIp
            PROVE  ClosedFor(staged', d)
        <4>1. CASE d = event.ip
          BY <1>2, <2>3, <4>1, RejectAllCloses DEF AddRule
        <4>2. CASE d # event.ip
          <5>1. ~Involves(RejectAll(event.ip), d)
            BY <2>1, <4>2, AddressAssumption DEF Involves, RejectAll, Address
          <5> QED
            BY <1>2, <2>3, <3>1, <4>2, <5>1, AppendKeepsClosed DEF ClosedInv, AddRule
        <4> QED
          BY <4>1, <4>2
      <3> QED
        BY <1>1, <1>3, <2>1, <2>3, <3>2 DEF ClosedInv, AddRule
    <2> QED
      BY <1>12, <2>2, <2>3
         DEF InstallRejectAll, InstallFirewallIPRule, InstallSucceeds, InstallOverwrites,
             AddSucceeds
  <1>13. CASE FinishTransaction
    <2>1. pc = "finish" /\ event.ip \in DeviceIp /\ pc' \notin InTransaction
      BY <1>b, <1>13 DEF FinishTransaction, AfterFinish, InTransaction
    <2>2. \A d \in DeviceIp : ClosedFor(committed', d)
      <3>1. CASE CommitAndApplyFirewallRules
        <4>1. retval = 0 /\ committed' = staged
          BY <3>1 DEF CommitAndApplyFirewallRules, CommitRules
        <4>2. ClosedFor(staged, event.ip)
          BY <2>1, <4>1 DEF ClosedInv
        <4>3. \A d \in DeviceIp : ClosedFor(staged, d)
          BY <4>2 DEF ClosedInv
        <4> QED
          BY <4>1, <4>3
      <3>2. CASE RollbackFirewallConfiguration
        BY <3>2 DEF ClosedInv, RollbackFirewallConfiguration, RollbackRules
      <3> QED
        BY <1>13, <3>1, <3>2 DEF FinishTransaction, TransactionsEnd
    <2> QED
      BY <1>1, <1>3, <1>a, <2>1, <2>2 DEF ClosedInv, InTransaction
  <1>14. CASE Reboot
    BY <1>1, <1>3, <1>a, <1>14 DEF ClosedInv, Reboot, LoseStaged, InTransaction
  <1>15. CASE UNCHANGED vars
    BY <1>1, <1>3, <1>15 DEF ClosedInv, vars, uciVars, localVars
  <1> QED
    BY <1>4, <1>5, <1>6, <1>7, <1>8, <1>9, <1>10, <1>11, <1>12, <1>13, <1>14, <1>15,
       StepKinds DEF Quiet

(* Whenever a rule of a device is enforced, so is its REJECT-ALL after it,  *)
(* if every transaction ends, the script is exact and a rule is only added. *)
(* Creating or removing a rule may fail, the file may not be JSON, and the  *)
(* power may go.                                                           *)
THEOREM AllOrNothingCorrect ==
    ASSUME ScriptIsExact, TransactionsEnd, AddSucceeds
    PROVE  Spec => []AllOrNothing
  <1>1. ScriptIsExact /\ TransactionsEnd /\ AddSucceeds =>
           (ClosedInv /\ [Next]_vars => ClosedInv')
    BY NextAllOrNothing
  <1>2. ClosedInv => AllOrNothing
    BY DEF ClosedInv, ClosedFor, AllOrNothing, ClosedIn
  <1> QED
    BY <1>1, <1>2, InitAllOrNothing, PTL DEF Spec

-----------------------------------------------------------------------------
(* What is written to the two files is there, and stays. *)
FilesKept == Faults \cap {"append", "reboot"} = {}

-----------------------------------------------------------------------------
(* The rules of a configuration, wherever they stand. *)

Rules(cfg) == {cfg[i] : i \in DOMAIN cfg}

LEMMA DeleteRules ==
    ASSUME NEW cfg \in Config, NEW n \in Nat
    PROVE  Rules(DeleteRule(cfg, n)) \subseteq Rules(cfg)
  <1>1. CASE n < Len(cfg)
    BY <1>1, DeleteRuleOrder DEF Rules
  <1>2. CASE ~(n < Len(cfg))
    BY <1>2 DEF DeleteRule
  <1> QED
    BY <1>1, <1>2

LEMMA AppendRules ==
    ASSUME NEW cfg \in Config, NEW r \in Rule
    PROVE  Rules(Append(cfg, r)) \subseteq Rules(cfg) \cup {r}
  BY AppendElements DEF Rules

(* A rule that overwrites the last one takes over its second address at most. *)
LEMMA OverwriteRules ==
    ASSUME TypeOK, NEW r \in Rule, OverwriteLast(r)
    PROVE  \A q \in Rules(staged') :
              \/ q \in Rules(staged)
              \/ /\ q.src = r.src
                 /\ q.dst = r.dst \/ \E p \in Rules(staged) : q.dst = p.dst
  <1>1. CASE staged = <<>>
    BY <1>1 DEF OverwriteLast
  <1>2. CASE staged # <<>>
    <2> DEFINE d == IF r.dst = AnyIp THEN Last(staged).dst ELSE r.dst
               new == [r EXCEPT !.dst = d]
    <2>1. staged \in Seq(Rule) /\ Len(staged) \in 1..Len(staged)
      BY <1>2, EmptySeq, LenProperties DEF TypeOK, UciTypeOK, Config
    <2>2. Last(staged) \in Rules(staged)
      BY <2>1, LenProperties DEF Last, Rules
    <2>3. new.src = r.src /\ (new.dst = r.dst \/ new.dst = Last(staged).dst)
      BY DEF Rule
    <2>4. staged' = [staged EXCEPT ![Len(staged)] = new]
      BY <1>2 DEF OverwriteLast
    <2> HIDE DEF new
    <2>5. \A q \in Rules(staged') : q \in Rules(staged) \/ q = new
      BY <2>1, <2>4 DEF Rules
    <2> QED
      BY <2>2, <2>3, <2>5
  <1> QED
    BY <1>1, <1>2

(* Only installing makes rules; all other steps delete, commit or revert. *)
LEMMA OldRules ==
    ASSUME TypeOK, [Next]_vars, ~InstallAnswer, ~InstallRejectAll
    PROVE  /\ Rules(staged') \subseteq Rules(staged) \cup Rules(committed)
           /\ Rules(committed') \subseteq Rules(staged) \cup Rules(committed)
  <1>1. CASE Quiet
    BY <1>1, QuietSteps DEF uciVars
  <1>2. CASE StartRemove
    BY <1>2 DEF StartRemove, ShowMatching
  <1>3. CASE RemoveRule
    <2>1. PICK line \in lines : DeleteLine(line)
      BY <1>3 DEF RemoveRule
    <2>2. line.num \in Nat /\ staged \in Config
      BY DEF TypeOK, UciTypeOK, Line
    <2> QED
      BY <2>1, <2>2, DeleteRules DEF DeleteLine
  <1>4. CASE FinishTransaction
    BY <1>4 DEF FinishTransaction, CommitAndApplyFirewallRules, CommitRules,
                RollbackFirewallConfiguration, RollbackRules, uciVars
  <1>5. CASE Reboot
    BY <1>5 DEF Reboot, LoseStaged
  <1>6. CASE UNCHANGED vars
    BY <1>6 DEF vars, uciVars
  <1> QED
    BY <1>1, <1>2, <1>3, <1>4, <1>5, <1>6, StepKinds

(* An installation leaves what is enforced alone, and makes one rule. *)
LEMMA NewRules ==
    ASSUME TypeOK, NEW r \in Rule, NEW b, InstallFirewallIPRule(r, b)
    PROVE  /\ committed' = committed
           /\ \A q \in Rules(staged') :
                 \/ q \in Rules(staged)
                 \/ q = r
                 \/ /\ "add" \in Faults
                    /\ q.src = r.src
                    /\ q.dst = r.dst \/ \E p \in Rules(staged) : q.dst = p.dst
  <1>1. CASE InstallSucceeds(r, b)
    <2>1. staged \in Config
      BY DEF TypeOK, UciTypeOK
    <2> QED
      BY <1>1, <2>1, AppendRules DEF InstallSucceeds, AddRule
  <1>2. CASE InstallOverwrites(r, b)
    <2>1. OverwriteLast(r) /\ committed' = committed
      BY <1>2 DEF InstallOverwrites, OverwriteLast
    <2> QED
      BY <1>2, <2>1, OverwriteRules DEF InstallOverwrites
  <1>3. CASE InstallFails(b)
    BY <1>3 DEF InstallFails, uciVars
  <1> QED
    BY <1>1, <1>2, <1>3 DEF InstallFirewallIPRule

-----------------------------------------------------------------------------
(* The MUD database.  The strengthening: what is staged is recorded as      *)
(* well, and a device is recorded before its rules are made.               *)

Recorded(d) == \E x \in mudDb : x.ip = d /\ x.url # NoUrl

RulesRecorded(rules) ==
    \A d \in DeviceIp, r \in rules : Involves(r, d) => Recorded(d)

MakesRules ==
    \/ pc \in {"parse", "accessList", "ace", "install"}
    \/ pc \in {"remove", "removing"} /\ event.action # "DEL"

RecordInv ==
    /\ TypeInv
    /\ RulesRecorded(Rules(staged) \cup Rules(committed))
    /\ pc \in {"retrieve", "record"} => event.url # NoUrl
    /\ MakesRules => Recorded(event.ip)

LEMMA InitRecord == Init => RecordInv
  <1> SUFFICES ASSUME Init
               PROVE  RecordInv
    OBVIOUS
  <1>1. staged = SystemRules /\ committed = SystemRules /\ pc = "idle"
    BY DEF Init, UciInit
  <1>2. \A d \in DeviceIp, r \in Rules(SystemRules) : ~Involves(r, d)
    BY SystemAssumption DEF Rules, Involves
  <1> QED
    BY <1>1, <1>2, InitType DEF RecordInv, RulesRecorded, MakesRules

(* Nothing is taken out of the database. *)
LEMMA DatabaseGrows ==
    ASSUME FilesKept, [Next]_vars
    PROVE  mudDb \subseteq mudDb'
  <1>1. ASSUME NEW e \in Events, Dispatch(e)
        PROVE  mudDb \subseteq mudDb'
    BY <1>1 DEF Dispatch, fileVars
  <1>2. CASE RecordLegacyDevice \/ RecordMudDevice \/ RecordMudDeviceAgain
    BY <1>2 DEF RecordLegacyDevice, RecordMudDevice, RecordMudDeviceAgain,
                InstallMudDbDeviceEntry
  <1>3. CASE \/ Retrieve \/ ParseMudFile \/ StartRemove \/ FailRemove \/ RemoveRule
             \/ EndRemove \/ RemoveMudDbDeviceEntry \/ FinishTransaction \/ ClearEvent
             \/ Restart
    BY <1>3 DEF Retrieve, ParseMudFile, StartRemove, FailRemove, RemoveRule, EndRemove,
                RemoveMudDbDeviceEntry, FinishTransaction, ClearEvent, Restart, fileVars
  <1>4. CASE \/ SkipMissingAcl \/ EnterAcl \/ LeaveAcl \/ SkipAce \/ ResolveAce \/ LeaveAce
             \/ InstallAnswer \/ InstallRejectAll
    BY <1>4 DEF SkipMissingAcl, EnterAcl, LeaveAcl, SkipAce, ResolveAce, LeaveAce,
                InstallAnswer, InstallRejectAll, fileVars
  <1>5. CASE CrashOnJson \/ CrashOnDns \/ Kill
    BY <1>5 DEF CrashOnJson, CrashOnDns, Kill, Stop, fileVars
  <1>6. CASE Reboot
    BY <1>6 DEF Reboot, FilesKept
  <1>7. CASE UNCHANGED vars
    BY <1>7 DEF vars, fileVars
  <1> QED
    BY <1>1, <1>2, <1>3, <1>4, <1>5, <1>6, <1>7 DEF Next, Handle, Fail

LEMMA RecordedStays ==
    ASSUME FilesKept, [Next]_vars
    PROVE  \A d : Recorded(d) => Recorded(d)'
  BY DatabaseGrows DEF Recorded

(* A stage that makes rules is entered from one, or by recording the device. *)
LEMMA MakesRulesStep ==
    ASSUME FilesKept, RecordInv, [Next]_vars, MakesRules'
    PROVE  Recorded(event.ip)'
  <1>1. ASSUME MakesRules, event' = event
        PROVE  Recorded(event.ip)'
    BY <1>1, RecordedStays DEF RecordInv, Recorded
  <1>2. ASSUME NEW e \in Events, Dispatch(e)
        PROVE  FALSE
    BY <1>2 DEF Dispatch, MakesRules
  <1>3. CASE RecordMudDevice
    <2>1. mudDb' = mudDb \cup {[ip |-> event.ip, mac |-> event.mac, url |-> event.url]}
      BY <1>3 DEF RecordMudDevice, InstallMudDbDeviceEntry, FilesKept
    <2>2. event' = event /\ event.url # NoUrl
      BY <1>3 DEF RecordMudDevice, RecordInv, localVars
    <2> DEFINE x == [ip |-> event.ip, mac |-> event.mac, url |-> event.url]
    <2>3. x \in mudDb' /\ x.ip = event.ip /\ x.url # NoUrl
      BY <2>1, <2>2
    <2> HIDE DEF x
    <2>4. \E y \in mudDb' : y.ip = event'.ip /\ y.url # NoUrl
      BY <2>2, <2>3
    <2> QED
      BY <2>4 DEF Recorded
  <1>4. CASE \/ Retrieve \/ RecordLegacyDevice \/ RecordMudDeviceAgain
             \/ RemoveMudDbDeviceEntry \/ FinishTransaction \/ InstallRejectAll
             \/ ClearEvent \/ Restart
    BY <1>4 DEF Retrieve, RecordLegacyDevice, RecordMudDeviceAgain, RemoveMudDbDeviceEntry,
                FinishTransaction, AfterFinish, InstallRejectAll, ClearEvent, Restart,
                MakesRules
  <1>5. CASE CrashOnJson \/ CrashOnDns \/ Kill \/ Reboot
    BY <1>5 DEF CrashOnJson, CrashOnDns, Kill, Stop, Reboot, MakesRules
  <1>6. CASE ParseMudFile
    BY <1>1, <1>6 DEF ParseMudFile, MakesRules
  <1>7. CASE StartRemove \/ FailRemove \/ RemoveRule \/ EndRemove
    <2>1. MakesRules /\ event' = event
      BY <1>7 DEF StartRemove, FailRemove, RemoveRule, EndRemove, AfterRemove, localVars,
                  MakesRules
    <2> QED
      BY <1>1, <2>1
  <1>8. CASE \/ SkipMissingAcl \/ EnterAcl \/ LeaveAcl \/ SkipAce \/ ResolveAce \/ LeaveAce
             \/ InstallAnswer
    <2>1. MakesRules /\ event' = event
      BY <1>8 DEF SkipMissingAcl, EnterAcl, LeaveAcl, SkipAce, ResolveAce, LeaveAce,
                  InstallAnswer, MakesRules
    <2> QED
      BY <1>1, <2>1
  <1>9. CASE UNCHANGED vars
    <2>1. MakesRules /\ event' = event
      BY <1>9 DEF vars, localVars, MakesRules
    <2> QED
      BY <1>1, <2>1
  <1> QED
    BY <1>2, <1>3, <1>4, <1>5, <1>6, <1>7, <1>8, <1>9 DEF Next, Handle, Fail

LEMMA UrlStep ==
    ASSUME RecordInv, [Next]_vars, pc' \in {"retrieve", "record"}
    PROVE  (event.url # NoUrl)'
  <1>1. ASSUME NEW e \in Events, Dispatch(e)
        PROVE  (event.url # NoUrl)'
    BY <1>1 DEF Dispatch
  <1>2. CASE Retrieve
    BY <1>2 DEF Retrieve, RecordInv, localVars
  <1>3. CASE \/ RecordLegacyDevice \/ RecordMudDevice \/ ParseMudFile
             \/ RecordMudDeviceAgain \/ ClearEvent \/ Restart
             \/ StartRemove \/ FailRemove \/ RemoveRule \/ EndRemove
    BY <1>3 DEF RecordLegacyDevice, RecordMudDevice, ParseMudFile,
                RecordMudDeviceAgain, ClearEvent, Restart,
                StartRemove, FailRemove, RemoveRule, EndRemove, AfterRemove
  <1>4. CASE \/ SkipMissingAcl \/ EnterAcl \/ LeaveAcl \/ SkipAce \/ ResolveAce \/ LeaveAce
             \/ InstallAnswer \/ InstallRejectAll
             \/ RemoveMudDbDeviceEntry \/ FinishTransaction
    BY <1>4 DEF SkipMissingAcl, EnterAcl, LeaveAcl, SkipAce, ResolveAce, LeaveAce,
                InstallAnswer, InstallRejectAll, RemoveMudDbDeviceEntry,
                FinishTransaction, AfterFinish
  <1>5. CASE CrashOnJson \/ CrashOnDns \/ Kill \/ Reboot
    BY <1>5 DEF CrashOnJson, CrashOnDns, Kill, Stop, Reboot
  <1>6. CASE UNCHANGED vars
    BY <1>6 DEF vars, localVars, RecordInv
  <1> QED
    BY <1>1, <1>2, <1>3, <1>4, <1>5, <1>6 DEF Next, Handle, Fail

LEMMA NextRecord ==
    ASSUME FilesKept, RecordInv, [Next]_vars
    PROVE  RecordInv'
  <1>1. TypeInv' /\ TypeOK
    BY NextType DEF RecordInv, TypeInv
  <1>2. \A d \in DeviceIp, r \in Rules(staged) \cup Rules(committed) :
           Involves(r, d) => Recorded(d)'
    BY RecordedStays DEF RecordInv, RulesRecorded
  <1>3. RulesRecorded(Rules(staged) \cup Rules(committed))'
    <2>1. CASE InstallAnswer
      <3> DEFINE r == RuleFor(Head(accessLists).dir, Head(aces), event.ip, Head(answers))
      <3>1. /\ r \in Rule
            /\ \A e \in DeviceIp : e # event.ip => ~Involves(r, e)
            /\ InstallFirewallIPRule(r, event.named /\ Installable(Head(aces)))
        BY <1>1, <2>1, InstalledRule
      <3> HIDE DEF r
      <3>2. Recorded(event.ip)'
        BY <2>1, RecordedStays DEF InstallAnswer, RecordInv, MakesRules, Recorded
      <3>3. event' = event
        BY <2>1 DEF InstallAnswer
      <3>4. \A d \in DeviceIp, q \in Rules(staged') : Involves(q, d) => Recorded(d)'
        BY <1>1, <1>2, <3>1, <3>2, <3>3, NewRules DEF Involves, Recorded
      <3> QED
        BY <1>1, <1>2, <3>1, <3>4, NewRules DEF RulesRecorded
    <2>2. CASE InstallRejectAll
      <3> DEFINE r == RejectAll(event.ip)
      <3>1. event.ip \in DeviceIp
        BY <1>1, <2>2, EventIp DEF InstallRejectAll
      <3>2. /\ r \in Rule
            /\ \A e \in DeviceIp : e # event.ip => ~Involves(r, e)
            /\ InstallFirewallIPRule(r, event.named)
        BY <2>2, <3>1, RejectAllType, AddressAssumption
           DEF InstallRejectAll, Involves, RejectAll, Address
      <3> HIDE DEF r
      <3>3. event' = event
        BY <2>2 DEF InstallRejectAll
      <3>4. Recorded(event.ip)'
        BY <2>2, <3>3, RecordedStays DEF InstallRejectAll, RecordInv, MakesRules, Recorded
      <3>5. \A d \in DeviceIp, q \in Rules(staged') : Involves(q, d) => Recorded(d)'
        BY <1>1, <1>2, <3>2, <3>3, <3>4, NewRules DEF Involves, Recorded
      <3> QED
        BY <1>1, <1>2, <3>2, <3>5, NewRules DEF RulesRecorded
    <2>3. CASE ~InstallAnswer /\ ~InstallRejectAll
      BY <1>1, <1>2, <2>3, OldRules DEF RulesRecorded
    <2> QED
      BY <2>1, <2>2, <2>3
  <1>4. pc' \in {"retrieve", "record"} => (event.url # NoUrl)'
    BY UrlStep
  <1>5. MakesRules' => Recorded(event.ip)'
    BY MakesRulesStep
  <1> QED
    BY <1>1, <1>3, <1>4, <1>5 DEF RecordInv

(* Whatever is enforced of a device, the device is in the MUD database with *)
(* its URL, if lines that are appended are there and the power stays: also  *)
(* after kills, failed transactions, and rules that were overwritten.       *)
THEOREM EnforcedIsRecordedCorrect ==
    ASSUME FilesKept
    PROVE  Spec => []EnforcedIsRecorded
  <1>1. FilesKept => (RecordInv /\ [Next]_vars => RecordInv')
    BY NextRecord
  <1>2. RecordInv => EnforcedIsRecorded
    BY DEF RecordInv, RulesRecorded, Rules, Recorded, EnforcedIsRecorded
  <1> QED
    BY <1>1, <1>2, InitRecord, PTL DEF Spec

-----------------------------------------------------------------------------
(* The DNS white list.  The strengthening: what is staged is allowed by it  *)
(* as well, and so are the answers that have still to be installed.        *)

Allows(list, d, addresses) ==
    \E w \in list :
        /\ w.ip = d
        /\ \E a \in Answers[w.domain] : ToSet(a) \cap addresses # {}

AllowsRules(list, rules) ==
    \A d \in DeviceIp, r \in rules :
        Involves(r, d) /\ r # RejectAll(d) => Allows(list, d, {r.src, r.dst})

WhitelistInv ==
    /\ TypeInv
    /\ AllowsRules(whitelist, Rules(staged) \cup Rules(committed))
    /\ pc = "install" => \A x \in ToSet(answers) : Allows(whitelist, event.ip, {x})

LEMMA InitWhitelist == Init => WhitelistInv
  <1> SUFFICES ASSUME Init
               PROVE  WhitelistInv
    OBVIOUS
  <1>1. staged = SystemRules /\ committed = SystemRules /\ pc = "idle"
    BY DEF Init, UciInit
  <1>2. \A d \in DeviceIp, r \in Rules(SystemRules) : ~Involves(r, d)
    BY SystemAssumption DEF Rules, Involves
  <1> QED
    BY <1>1, <1>2, InitType DEF WhitelistInv, AllowsRules

(* Nothing is taken out of the white list. *)
LEMMA WhitelistGrows ==
    ASSUME FilesKept, [Next]_vars
    PROVE  whitelist \subseteq whitelist'
  <1>1. ASSUME NEW e \in Events, Dispatch(e)
        PROVE  whitelist \subseteq whitelist'
    BY <1>1 DEF Dispatch, fileVars
  <1>2. CASE RecordLegacyDevice \/ RecordMudDevice \/ RecordMudDeviceAgain
    BY <1>2 DEF RecordLegacyDevice, RecordMudDevice, RecordMudDeviceAgain
  <1>3. CASE \/ Retrieve \/ ParseMudFile \/ StartRemove \/ FailRemove \/ RemoveRule
             \/ EndRemove \/ RemoveMudDbDeviceEntry \/ FinishTransaction \/ ClearEvent
             \/ Restart
    BY <1>3 DEF Retrieve, ParseMudFile, StartRemove, FailRemove, RemoveRule, EndRemove,
                RemoveMudDbDeviceEntry, FinishTransaction, ClearEvent, Restart, fileVars
  <1>4. CASE \/ SkipMissingAcl \/ EnterAcl \/ LeaveAcl \/ SkipAce \/ LeaveAce
             \/ InstallAnswer \/ InstallRejectAll
    BY <1>4 DEF SkipMissingAcl, EnterAcl, LeaveAcl, SkipAce, LeaveAce,
                InstallAnswer, InstallRejectAll, fileVars
  <1>5. CASE ResolveAce
    BY <1>5 DEF ResolveAce, InstallDnsRule
  <1>6. CASE CrashOnJson \/ CrashOnDns \/ Kill
    BY <1>6 DEF CrashOnJson, CrashOnDns, Kill, Stop, fileVars
  <1>7. CASE Reboot
    BY <1>7 DEF Reboot, FilesKept
  <1>8. CASE UNCHANGED vars
    BY <1>8 DEF vars, fileVars
  <1> QED
    BY <1>1, <1>2, <1>3, <1>4, <1>5, <1>6, <1>7, <1>8 DEF Next, Handle, Fail

LEMMA WhitelistedStays ==
    ASSUME FilesKept, [Next]_vars
    PROVE  \A d, s : Allows(whitelist, d, s) => Allows(whitelist', d, s)
  BY WhitelistGrows DEF Allows

(* The answers in hand are those for a name that was just white-listed.     *)
LEMMA AnswersStep ==
    ASSUME FilesKept, WhitelistInv, [Next]_vars, pc' = "install"
    PROVE  \A x \in ToSet(answers') : Allows(whitelist', event'.ip, {x})
  <1>1. CASE ResolveAce
    <2> DEFINE w == [domain |-> Head(aces).domain, ip |-> event.ip]
    <2>1. w \in whitelist' /\ w.ip = event.ip /\ answers' \in Answers[w.domain]
      BY <1>1 DEF ResolveAce, InstallDnsRule, FilesKept
    <2>2. event' = event
      BY <1>1 DEF ResolveAce
    <2> HIDE DEF w
    <2>3. \A x \in ToSet(answers') : ToSet(answers') \cap {x} # {}
      OBVIOUS
    <2> QED
      BY <2>1, <2>2, <2>3 DEF Allows
  <1>2. CASE InstallAnswer
    <2>1. pc = "install" /\ event' = event /\ answers # <<>> /\ answers' = Tail(answers)
      BY <1>2 DEF InstallAnswer
    <2>2. answers \in Seq(RemoteIp)
      BY DEF WhitelistInv, TypeInv, TypeOK
    <2>3. ToSet(Tail(answers)) \subseteq ToSet(answers)
      BY <2>1, <2>2, HeadTailProperties, LenProperties DEF ToSet
    <2> QED
      BY <2>1, <2>3, WhitelistedStays DEF WhitelistInv
  <1>3. CASE UNCHANGED vars
    <2>1. pc = "install" /\ event' = event /\ answers' = answers
      BY <1>3 DEF vars, localVars
    <2> QED
      BY <2>1, WhitelistedStays DEF WhitelistInv
  <1>4. ASSUME NEW e \in Events, Dispatch(e)
        PROVE  FALSE
    BY <1>4 DEF Dispatch
  <1>5. CASE \/ Retrieve \/ RecordLegacyDevice \/ RecordMudDevice \/ ParseMudFile
             \/ RecordMudDeviceAgain \/ ClearEvent \/ Restart
             \/ StartRemove \/ FailRemove \/ RemoveRule \/ EndRemove
    BY <1>5 DEF Retrieve, RecordLegacyDevice, RecordMudDevice, ParseMudFile,
                RecordMudDeviceAgain, ClearEvent, Restart,
                StartRemove, FailRemove, RemoveRule, EndRemove, AfterRemove
  <1>6. CASE \/ SkipMissingAcl \/ EnterAcl \/ LeaveAcl \/ SkipAce \/ LeaveAce
             \/ InstallRejectAll \/ RemoveMudDbDeviceEntry \/ FinishTransaction
    BY <1>6 DEF SkipMissingAcl, EnterAcl, LeaveAcl, SkipAce, LeaveAce,
                InstallRejectAll, RemoveMudDbDeviceEntry, FinishTransaction, AfterFinish
  <1>7. CASE CrashOnJson \/ CrashOnDns \/ Kill \/ Reboot
    BY <1>7 DEF CrashOnJson, CrashOnDns, Kill, Stop, Reboot
  <1> QED
    BY <1>1, <1>2, <1>3, <1>4, <1>5, <1>6, <1>7 DEF Next, Handle, Fail

LEMMA NextWhitelist ==
    ASSUME FilesKept, AddSucceeds, WhitelistInv, [Next]_vars
    PROVE  WhitelistInv'
  <1>1. TypeInv' /\ TypeOK
    BY NextType DEF WhitelistInv, TypeInv
  <1>2. \A d \in DeviceIp, r \in Rules(staged) \cup Rules(committed) :
           Involves(r, d) /\ r # RejectAll(d) => Allows(whitelist', d, {r.src, r.dst})
    BY WhitelistedStays DEF WhitelistInv, AllowsRules
  <1>3. AllowsRules(whitelist', Rules(staged') \cup Rules(committed'))
    <2>1. CASE InstallAnswer
      <3> DEFINE r == RuleFor(Head(accessLists).dir, Head(aces), event.ip, Head(answers))
      <3>1. /\ r \in Rule
            /\ \A e \in DeviceIp : e # event.ip => ~Involves(r, e)
            /\ InstallFirewallIPRule(r, event.named /\ Installable(Head(aces)))
        BY <1>1, <2>1, InstalledRule
      <3>2. Head(answers) \in {r.src, r.dst}
        BY DEF RuleFor
      <3>3. Allows(whitelist', event.ip, {Head(answers)})
        <4>1. pc = "install" /\ answers # <<>> /\ answers \in Seq(RemoteIp)
          BY <1>1, <2>1 DEF InstallAnswer, TypeOK
        <4>2. Head(answers) \in ToSet(answers)
          BY <4>1, EmptySeq, LenProperties, HeadTailProperties DEF ToSet
        <4>3. Allows(whitelist, event.ip, {Head(answers)})
          BY <4>1, <4>2 DEF WhitelistInv
        <4> QED
          BY <4>3, <2>1, WhitelistedStays DEF InstallAnswer, Allows
      <3>4. event' = event
        BY <2>1 DEF InstallAnswer
      <3> HIDE DEF r
      <3>5. Allows(whitelist', event.ip, {r.src, r.dst})
        BY <3>2, <3>3 DEF Allows
      <3>6. committed' = committed /\ \A q \in Rules(staged') : q \in Rules(staged) \/ q = r
        BY <1>1, <3>1, NewRules DEF AddSucceeds
      <3> QED
        BY <1>2, <3>1, <3>4, <3>5, <3>6 DEF AllowsRules, Allows
    <2>2. CASE InstallRejectAll
      <3>1. event.ip \in DeviceIp
        BY <1>1, <2>2, EventIp DEF InstallRejectAll
      <3>2. /\ RejectAll(event.ip) \in Rule
            /\ \A e \in DeviceIp : e # event.ip => ~Involves(RejectAll(event.ip), e)
            /\ InstallFirewallIPRule(RejectAll(event.ip), event.named)
        BY <2>2, <3>1, RejectAllType, AddressAssumption
           DEF InstallRejectAll, Involves, RejectAll, Address
      <3>3. /\ committed' = committed
            /\ \A q \in Rules(staged') : q \in Rules(staged) \/ q = RejectAll(event.ip)
        BY <1>1, <3>2, NewRules DEF AddSucceeds
      <3> QED
        BY <1>2, <3>2, <3>3 DEF AllowsRules
    <2>3. CASE ~InstallAnswer /\ ~InstallRejectAll
      BY <1>1, <1>2, <2>3, OldRules DEF AllowsRules
    <2> QED
      BY <2>1, <2>2, <2>3
  <1>4. pc' = "install" => \A x \in ToSet(answers') : Allows(whitelist', event'.ip, {x})
    BY AnswersStep DEF Allows
  <1> QED
    BY <1>1, <1>3, <1>4 DEF WhitelistInv

(* Every address that a rule of a device names, but for its REJECT-ALL, is  *)
(* an answer for a domain the white list allows the device to look up, if   *)
(* lines that are appended are there, the power stays, and a rule is only   *)
(* added.                                                                  *)
THEOREM AllowedIsWhitelistedCorrect ==
    ASSUME FilesKept, AddSucceeds
    PROVE  Spec => []AllowedIsWhitelisted
  <1>1. FilesKept /\ AddSucceeds => (WhitelistInv /\ [Next]_vars => WhitelistInv')
    BY NextWhitelist
  <1>2. WhitelistInv => AllowedIsWhitelisted
    BY DEF WhitelistInv, AllowsRules, Allows, Rules, AllowedIsWhitelisted
  <1> QED
    BY <1>1, <1>2, InitWhitelist, PTL DEF Spec
===============================================================================
