------------------------------ MODULE OsmudProofs ------------------------------
(***************************************************************************)
(* The whole loop, from the log to the enforced rules: the event in hand    *)
(* is the one dnsmasq reported; the loop does what MudManager does with    *)
(* some events, so that all that is proved of MudManager holds of it; and  *)
(* once the log is read to its end, the rules enforced are those of the     *)
(* devices that are there, through kills, crashes and reboots.             *)
(***************************************************************************)
EXTENDS Osmud, MudPolicyProofs

-----------------------------------------------------------------------------
(* A line, cut into its tokens. *)

Text == {"-", "date", "NEW", "OLD", "DEL", "lan", "DHCP", "options", "MUD", "vendor", "host"}

FullField == Text \cup Url \cup Mac \cup DeviceIp

Field == FullField \cup {EmptyField}

LEMMA FullIsNotEmpty == EmptyField \notin FullField
  <1>1. EmptyField \notin Text
    BY Zenon DEF Text, EmptyField
  <1> QED
    BY <1>1, FieldAssumption DEF FullField

TokenOf(field) == IF field = EmptyField THEN <<>> ELSE <<field>>

LEMMA TokenOfType == \A x \in Field : TokenOf(x) \in Seq(Field)
  BY DEF TokenOf

LEMMA TokensType ==
    ASSUME NEW line \in Seq(Field)
    PROVE  /\ [i \in DOMAIN line |-> TokenOf(line[i])] \in Seq(Seq(Field))
           /\ Tokens(line) = FlattenSeq([i \in DOMAIN line |-> TokenOf(line[i])])
  <1>1. DOMAIN line = 1..Len(line) /\ Len(line) \in Nat
    BY LenProperties
  <1>2. \A i \in 1..Len(line) : line[i] \in Field
    BY <1>1, ElementOfSeq
  <1>4. [i \in DOMAIN line |-> TokenOf(line[i])] \in Seq(Seq(Field))
    BY <1>1, <1>2, TokenOfType, IsASeq
  <1> QED
    BY <1>4 DEF Tokens, TokenOf

LEMMA TokensAppend ==
    ASSUME NEW line \in Seq(Field), NEW x \in Field
    PROVE  Tokens(Append(line, x)) = Tokens(line) \o TokenOf(x)
  <1> DEFINE of(s) == [i \in DOMAIN s |-> TokenOf(s[i])]
             more == Append(line, x)
  <1>1. /\ more \in Seq(Field) /\ Len(more) = Len(line) + 1 /\ more[Len(line) + 1] = x
        /\ \A i \in 1..Len(line) : more[i] = line[i]
        /\ DOMAIN line = 1..Len(line) /\ DOMAIN more = 1..Len(line) + 1 /\ Len(line) \in Nat
    BY AppendProperties, LenProperties
  <1>2. /\ of(line) \in Seq(Seq(Field)) /\ of(more) \in Seq(Seq(Field))
        /\ Tokens(line) = FlattenSeq(of(line)) /\ Tokens(more) = FlattenSeq(of(more))
    BY <1>1, TokensType
  <1>3. TokenOf(x) \in Seq(Field)
    BY TokenOfType
  <1>4. /\ Len(of(line)) = Len(line) /\ Len(of(more)) = Len(line) + 1
        /\ \A i \in 1..Len(line) : of(more)[i] = of(line)[i]
        /\ of(more)[Len(line) + 1] = TokenOf(x)
    BY <1>1
  <1> HIDE DEF of, more
  <1>5. PICK longer : longer = Append(of(line), TokenOf(x))
    OBVIOUS
  <1>6. /\ longer \in Seq(Seq(Field)) /\ Len(longer) = Len(line) + 1
        /\ longer[Len(line) + 1] = TokenOf(x)
        /\ \A i \in 1..Len(line) : longer[i] = of(line)[i]
    BY <1>2, <1>3, <1>4, <1>5, AppendProperties
  <1>7. \A i \in 1..Len(line) + 1 : i \in 1..Len(line) \/ i = Len(line) + 1
    BY <1>1
  <1>8. of(more) = longer
    BY <1>2, <1>4, <1>6, <1>7, SeqEqual
  <1>9. FlattenSeq(longer) = FlattenSeq(of(line)) \o TokenOf(x)
    BY <1>2, <1>3, <1>5, FlattenSeqAppend
  <1> QED
    BY <1>2, <1>8, <1>9 DEF more

(* A line without an empty field is cut into its fields. *)
LEMMA TokensOfFull ==
    ASSUME NEW line \in Seq(FullField)
    PROVE  line \in Seq(Field) /\ Tokens(line) = line
  <1> DEFINE T == {s \in Seq(FullField) : s \in Seq(Field) /\ Tokens(s) = s}
  <1>1. <<>> \in T
    <2>1. Tokens(<<>>) = <<>>
      BY FlattenSeqEmpty DEF Tokens
    <2> QED
      BY <2>1, EmptySeq
  <1>2. ASSUME NEW s \in T, NEW x \in FullField
        PROVE  Append(s, x) \in T
    <2>1. s \in Seq(FullField) /\ s \in Seq(Field) /\ Tokens(s) = s
      BY <1>2
    <2>2. x \in Field /\ TokenOf(x) = <<x>>
      BY <1>2, FullIsNotEmpty DEF TokenOf, Field
    <2>3. PICK more : more = Append(s, x)
      OBVIOUS
    <2>4. more \in Seq(FullField) /\ more \in Seq(Field)
      BY <1>2, <2>1, <2>2, <2>3, AppendProperties
    <2>5. more = s \o <<x>>
      BY <2>1, <2>2, <2>3, AppendIsConcat
    <2>6. Tokens(more) = s \o <<x>>
      BY <2>1, <2>2, <2>3, TokensAppend
    <2> QED
      BY <2>3, <2>4, <2>5, <2>6
  <1> HIDE DEF T
  <1>3. T = Seq(FullField)
    <2>1. T \in SUBSET Seq(FullField)
      BY DEF T
    <2> QED
      BY <1>1, <1>2, <2>1, SequenceInduction
  <1> QED
    BY <1>3 DEF T

(* The first ten fields of a line are never empty; the host name may be. *)
TenFields(c) ==
    << "date", Action(c.arg), "lan", "DHCP", OrDash(c.options, "options"), "MUD",
       OrDash(c.url # NoUrl, c.url), OrDash(c.vendor, "vendor"), c.mac, c.ip >>

HostField(c) == IF c.named THEN "host" ELSE EmptyField

LEMMA LastAdded ==
    ASSUME NEW S, NEW s \in Seq(S), NEW all \in Seq(S), Len(all) = Len(s) + 1,
           \A i \in 1..Len(s) : all[i] = s[i]
    PROVE  all = Append(s, all[Len(s) + 1])
  <1>1. Len(s) \in Nat /\ all[Len(s) + 1] \in S
    BY LenProperties, ElementOfSeq
  <1>2. PICK x \in S : x = all[Len(s) + 1]
    BY <1>1
  <1>3. PICK more : more = Append(s, x)
    OBVIOUS
  <1>4. /\ more \in Seq(S) /\ Len(more) = Len(s) + 1 /\ more[Len(s) + 1] = x
        /\ \A i \in 1..Len(s) : more[i] = s[i]
    BY <1>3, AppendProperties
  <1>5. \A i \in 1..Len(s) + 1 : i \in 1..Len(s) \/ i = Len(s) + 1
    BY <1>1
  <1>6. Len(all) = Len(more) /\ \A i \in 1..Len(all) : all[i] = more[i]
    BY <1>2, <1>4, <1>5
  <1>7. all = more
    BY <1>4, <1>6, SeqEqual
  <1> QED
    BY <1>2, <1>3, <1>7

LEMMA LineFields ==
    ASSUME NEW c \in Call
    PROVE  /\ TenFields(c) \in Seq(FullField) /\ Len(TenFields(c)) = 10
           /\ HostField(c) \in Field
           /\ LogLine(c) = Append(TenFields(c), HostField(c))
  <1>1. PICK x2, x5, x7, x8, x9, x10, x11 :
           /\ x2 = Action(c.arg) /\ x5 = OrDash(c.options, "options")
           /\ x7 = OrDash(c.url # NoUrl, c.url) /\ x8 = OrDash(c.vendor, "vendor")
           /\ x9 = c.mac /\ x10 = c.ip /\ x11 = HostField(c)
    OBVIOUS
  <1>2. x2 \in Text
    BY <1>1 DEF Call, Action, Text
  <1>3. x5 \in Text /\ x8 \in Text
    BY <1>1 DEF OrDash, Text
  <1>4. x7 \in Text \cup Url
    BY <1>1 DEF Call, OrDash, Text
  <1>5. x9 \in Mac /\ x10 \in DeviceIp
    BY <1>1 DEF Call
  <1>6. "date" \in Text /\ "lan" \in Text /\ "DHCP" \in Text /\ "MUD" \in Text
    BY DEF Text
  <1>7. x11 \in Text \cup {EmptyField}
    BY <1>1 DEF HostField, Text
  <1>8. /\ "date" \in FullField /\ "lan" \in FullField /\ "DHCP" \in FullField
        /\ "MUD" \in FullField /\ x2 \in FullField /\ x5 \in FullField /\ x7 \in FullField
        /\ x8 \in FullField /\ x9 \in FullField /\ x10 \in FullField
        /\ x11 \in Field /\ FullField \subseteq Field
    BY <1>2, <1>3, <1>4, <1>5, <1>6, <1>7 DEF FullField, Field
  <1>9. /\ TenFields(c) = <<"date", x2, "lan", "DHCP", x5, "MUD", x7, x8, x9, x10>>
        /\ LogLine(c) = <<"date", x2, "lan", "DHCP", x5, "MUD", x7, x8, x9, x10, x11>>
    BY <1>1 DEF TenFields, LogLine, HostField
  <1>10. TenFields(c) \in Seq(FullField) /\ Len(TenFields(c)) = 10
    BY ONLY <1>8, <1>9
  <1>11. LogLine(c) = Append(TenFields(c), x11)
    <2>1. PICK ten, all :
             /\ ten = <<"date", x2, "lan", "DHCP", x5, "MUD", x7, x8, x9, x10>>
             /\ all = <<"date", x2, "lan", "DHCP", x5, "MUD", x7, x8, x9, x10, x11>>
      OBVIOUS
    <2>2. /\ "date" \in Field /\ "lan" \in Field /\ "DHCP" \in Field /\ "MUD" \in Field
          /\ x2 \in Field /\ x5 \in Field /\ x7 \in Field /\ x8 \in Field /\ x9 \in Field
          /\ x10 \in Field /\ x11 \in Field
      BY <1>8
    <2>3. ten \in Seq(Field)
      BY ONLY <2>1, <2>2
    <2>4. all \in Seq(Field)
      BY ONLY <2>1, <2>2
    <2>5. Len(ten) = 10 /\ Len(all) = 11 /\ all[11] = x11 /\ \A i \in 1..10 : all[i] = ten[i]
      BY ONLY <2>1
    <2>6. Len(all) = Len(ten) + 1 /\ \A i \in 1..Len(ten) : all[i] = ten[i]
      BY <2>5
    <2>7. all = Append(ten, all[Len(ten) + 1])
      BY ONLY LastAdded, <2>3, <2>4, <2>6
    <2> QED
      BY <1>9, <2>1, <2>5, <2>7
  <1> QED
    BY <1>1, <1>8, <1>10, <1>11

EventOf(call) ==
    [action |-> Action(call.arg), ip |-> call.ip, mac |-> call.mac, url |-> call.url,
     named |-> call.named]

(* What the script writes is what osMUD reads. *)
LEMMA EventOfLine ==
    ASSUME NEW c \in Call
    PROVE  ProcessDhcpEventFromLog(Tokens(LogLine(c))) = EventOf(c) /\ EventOf(c) \in Event
  <1>1. Action(c.arg) \in {"NEW", "OLD", "DEL"}
    BY DEF Call, Action
  <1>2. PICK ten, rest : ten = TenFields(c) /\ rest = TokenOf(HostField(c))
    OBVIOUS
  <1>3. /\ Len(Tokens(LogLine(c))) = IF c.named THEN 11 ELSE 10
        /\ \A i \in 1..10 : Tokens(LogLine(c))[i] = TenFields(c)[i]
    <2>1. ten \in Seq(Field) /\ Len(ten) = 10 /\ Tokens(ten) = ten
      BY <1>2, LineFields, TokensOfFull
    <2>2. rest \in Seq(Field)
      BY <1>2, LineFields, TokenOfType
    <2>3. Len(rest) = IF c.named THEN 1 ELSE 0
      <3>1. "host" # EmptyField
        BY Zenon DEF EmptyField
      <3> QED
        BY <1>2, <3>1 DEF TokenOf, HostField
    <2>4. Tokens(LogLine(c)) = ten \o rest
      <3>1. LogLine(c) = Append(ten, HostField(c)) /\ HostField(c) \in Field
        BY <1>2, LineFields
      <3> QED
        BY <1>2, <2>1, <3>1, TokensAppend
    <2>5. PICK all : all = ten \o rest
      OBVIOUS
    <2>6. Len(all) = Len(ten) + Len(rest) /\ \A i \in 1..Len(ten) : all[i] = ten[i]
      <3>1. ten \in Seq(Field)
        BY <2>1
      <3> QED
        BY ONLY <2>2, <2>5, <3>1, ConcatProperties
    <2>7. Len(all) = 10 + Len(rest) /\ \A i \in 1..10 : all[i] = ten[i]
      BY <2>1, <2>6
    <2>8. Len(all) = IF c.named THEN 11 ELSE 10
      BY <2>3, <2>7
    <2> QED
      BY <1>2, <2>4, <2>5, <2>7, <2>8
  <1>4. (IF TenFields(c)[7] = "-" THEN NoUrl ELSE TenFields(c)[7]) = c.url
    BY FieldAssumption DEF TenFields, OrDash, Call
  <1>5. GetDhcpEventActionClass(TenFields(c)[2]) = Action(c.arg)
    BY <1>1 DEF TenFields, GetDhcpEventActionClass
  <1>6. TenFields(c)[10] = c.ip /\ TenFields(c)[9] = c.mac
    BY DEF TenFields
  <1>7. (Len(Tokens(LogLine(c))) > 10) = c.named
    BY <1>3 DEF Call
  <1>8. ProcessDhcpEventFromLog(Tokens(LogLine(c))) = EventOf(c)
    BY <1>3, <1>4, <1>5, <1>6, <1>7 DEF ProcessDhcpEventFromLog, EventOf
  <1> QED
    BY <1>1, <1>8 DEF EventOf, Event, Call

-----------------------------------------------------------------------------
(* Type correctness, and what the event in hand says.  EventIsReported is    *)
(* inductive with the types: lines are only ever added after the offset.   *)

LEMMA CallType ==
    ASSUME NEW arg \in {"add", "old", "del"}, NEW d \in DeviceIp, NEW c \in Client
    PROVE  CallFor(arg, d, c) \in Call
  BY ClientAssumption DEF CallFor, Call

LEMMA NextLine ==
    ASSUME OsmudTypeOK, offset < Len(log)
    PROVE  /\ offset \in Nat /\ Len(log) \in Nat /\ offset + 1 \in 1..Len(log)
           /\ log[offset + 1] \in Call
  <1>1. log \in Seq(Call) /\ Len(log) \in Nat /\ offset \in 0..Len(log)
    BY LenProperties DEF OsmudTypeOK
  <1>2. offset \in Nat /\ offset + 1 \in 1..Len(log)
    BY <1>1
  <1> QED
    BY <1>1, <1>2, ElementOfSeq

LEMMA ReadEventStep ==
    ASSUME OsmudTypeOK, ReadEvent
    PROVE  /\ Dispatch(EventOf(log[offset + 1])) /\ EventOf(log[offset + 1]) \in Event
           /\ pc = "idle" /\ event' = EventOf(log[offset + 1])
           /\ offset' = offset + 1 /\ UNCHANGED <<lease, log, kept>>
  <1>1. log[offset + 1] \in Call
    BY NextLine DEF ReadEvent
  <1>2. Dispatch(EventOf(log[offset + 1])) /\ EventOf(log[offset + 1]) \in Event
    BY <1>1, EventOfLine DEF ReadEvent
  <1> QED
    BY <1>2 DEF ReadEvent, Dispatch

(* What dnsmasq does leaves osMUD alone and adds a line to the log. *)
LEMMA DnsmasqStep ==
    ASSUME OsmudTypeOK, Dnsmasq
    PROVE  /\ UNCHANGED <<vars, offset, kept>>
           /\ lease' \in [DeviceIp -> Client \cup {NoClient}]
           /\ log' \in Seq(Call) /\ Len(log') = Len(log) + 1 /\ Len(log') <= MaxLog
           /\ \A i \in 1..Len(log) : log'[i] = log[i]
  <1>1. PICK d \in DeviceIp : Renew(d) \/ Release(d) \/ \E c \in Client : Lease(d, c)
    BY DEF Dnsmasq
  <1>2. lease[d] # NoClient => lease[d] \in Client
    BY DEF OsmudTypeOK
  <1>3. \E call \in Call : DetectNewDevice(call)
    BY <1>1, <1>2, CallType DEF Renew, Release, Lease
  <1>4. lease' \in [DeviceIp -> Client \cup {NoClient}]
    BY <1>1 DEF Renew, Release, Lease, OsmudTypeOK
  <1>5. PICK call \in Call : DetectNewDevice(call)
    BY <1>3
  <1>6. log \in Seq(Call) /\ log' = Append(log, call) /\ Len(log) < MaxLog
        /\ UNCHANGED <<vars, offset, kept>>
    BY <1>5 DEF DetectNewDevice, OsmudTypeOK
  <1>7. /\ log' \in Seq(Call) /\ Len(log') = Len(log) + 1
        /\ \A i \in 1..Len(log) : log'[i] = log[i]
    BY <1>6, AppendProperties
  <1>8. Len(log) \in Nat /\ MaxLog \in Nat
    BY <1>6, LenProperties, ClientAssumption
  <1>9. Len(log') <= MaxLog
    BY <1>6, <1>7, <1>8
  <1> QED
    BY <1>4, <1>6, <1>7, <1>9

LEMMA OsmudSteps ==
    ASSUME [OsmudNext]_osmudVars
    PROVE  \/ Dnsmasq \/ ReadEvent \/ HandleEvent \/ Die \/ PowerCycle \/ Start
           \/ UNCHANGED osmudVars
  BY DEF OsmudNext

(* All steps but ReadEvent are steps of MudManager as they stand. *)
LEMMA ManagerSteps ==
    ASSUME OsmudTypeOK, [OsmudNext]_osmudVars
    PROVE  ReadEvent \/ [Next]_vars
  <1>1. CASE Dnsmasq \/ UNCHANGED osmudVars
    BY <1>1, DnsmasqStep DEF osmudVars
  <1>2. CASE HandleEvent \/ Die \/ PowerCycle \/ Start
    BY <1>2 DEF HandleEvent, Die, PowerCycle, Start, Next, Fail
  <1> QED
    BY <1>1, <1>2, OsmudSteps

OsmudTypeInv == TypeInv /\ OsmudTypeOK

LEMMA InitOsmudType == OsmudInit => OsmudTypeInv
  BY InitType, EmptySeq, SystemAssumption, ClientAssumption
     DEF OsmudInit, OsmudTypeInv, OsmudTypeOK, TypeInv

LEMMA NextOsmudType == OsmudTypeInv /\ [OsmudNext]_osmudVars => OsmudTypeInv'
  <1> SUFFICES ASSUME OsmudTypeInv, [OsmudNext]_osmudVars
               PROVE  OsmudTypeInv'
    OBVIOUS
  <1>1. TypeInv /\ TypeOK /\ OsmudTypeOK /\ committed \in Config
    BY DEF OsmudTypeInv, OsmudTypeOK, TypeOK, UciTypeOK
  <1>2. TypeInv'
    <2>1. CASE ReadEvent
      BY <1>1, <2>1, ReadEventStep, DispatchType
    <2>2. CASE [Next]_vars
      BY <1>1, <2>2, NextType
    <2> QED
      BY <1>1, <2>1, <2>2, ManagerSteps
  <1>3. /\ lease \in [DeviceIp -> Client \cup {NoClient}]
        /\ log \in Seq(Call) /\ Len(log) <= MaxLog /\ Len(log) \in Nat
        /\ offset \in 0..Len(log) /\ kept \in Config
    BY <1>1, LenProperties DEF OsmudTypeOK
  <1>4. CASE Dnsmasq
    <2>1. /\ UNCHANGED <<vars, offset, kept>>
          /\ lease' \in [DeviceIp -> Client \cup {NoClient}]
          /\ log' \in Seq(Call) /\ Len(log') = Len(log) + 1 /\ Len(log') <= MaxLog
      BY <1>1, <1>4, DnsmasqStep
    <2>2. offset' \in 0..Len(log')
      BY <1>3, <2>1
    <2> QED
      BY <1>2, <1>3, <2>1, <2>2 DEF OsmudTypeInv, OsmudTypeOK, TypeInv
  <1>5. CASE ReadEvent
    <2>1. offset' = offset + 1 /\ UNCHANGED <<lease, log, kept>> /\ offset < Len(log)
      BY <1>5 DEF ReadEvent
    <2>2. offset' \in 0..Len(log')
      BY <1>3, <2>1
    <2> QED
      BY <1>2, <1>3, <2>1, <2>2 DEF OsmudTypeInv, OsmudTypeOK, TypeInv
  <1>6. CASE HandleEvent \/ Die \/ UNCHANGED osmudVars
    BY <1>2, <1>3, <1>6
       DEF HandleEvent, Die, osmudVars, logVars, OsmudTypeInv, OsmudTypeOK, TypeInv
  <1>7. CASE Start
    BY <1>2, <1>3, <1>7 DEF Start, OsmudTypeInv, OsmudTypeOK, TypeInv
  <1>8. CASE PowerCycle
    <2>1. /\ lease' \in [DeviceIp -> Client \cup {NoClient}] /\ log' = <<>>
          /\ kept' = committed /\ offset' = 0
      BY <1>8 DEF PowerCycle
    <2>2. log' \in Seq(Call) /\ Len(log') = 0 /\ 0 <= MaxLog
      BY <2>1, EmptySeq, ClientAssumption
    <2> QED
      BY <1>1, <1>2, <2>1, <2>2 DEF OsmudTypeInv, OsmudTypeOK, TypeInv
  <1> QED
    BY <1>4, <1>5, <1>6, <1>7, <1>8, OsmudSteps

(* The variables of the whole loop keep their types; in particular osMUD's  *)
(* place in the log is inside the log, whatever fails and whenever.         *)
THEOREM OsmudTypeCorrect == OsmudSpec => []OsmudTypeOK
  <1>1. OsmudTypeInv => OsmudTypeOK
    BY DEF OsmudTypeInv
  <1> QED
    BY <1>1, InitOsmudType, NextOsmudType, PTL DEF OsmudSpec

-----------------------------------------------------------------------------

(* Once there is an event, it stays until the handler is done or gone. *)
LEMMA EventStays ==
    ASSUME [Next]_vars, ~\E e \in Events : Dispatch(e), pc' \notin {"idle", "down"}
    PROVE  event' = event /\ pc \notin {"idle", "down"}
  <1>1. CASE Retrieve \/ RecordLegacyDevice \/ RecordMudDevice \/ ParseMudFile
             \/ RemoveMudDbDeviceEntry \/ RecordMudDeviceAgain
             \/ FinishTransaction \/ UNCHANGED vars
    BY <1>1 DEF Retrieve, RecordLegacyDevice, RecordMudDevice, ParseMudFile,
                RemoveMudDbDeviceEntry, RecordMudDeviceAgain, FinishTransaction, localVars, vars
  <1>2. CASE StartRemove \/ FailRemove \/ RemoveRule \/ EndRemove
    BY <1>2 DEF StartRemove, FailRemove, RemoveRule, EndRemove, localVars
  <1>3. CASE \/ SkipMissingAcl \/ EnterAcl \/ LeaveAcl \/ SkipAce \/ ResolveAce \/ LeaveAce
             \/ InstallAnswer \/ InstallRejectAll
    BY <1>3 DEF SkipMissingAcl, EnterAcl, LeaveAcl, SkipAce, ResolveAce, LeaveAce,
                InstallAnswer, InstallRejectAll
  <1>4. CASE ClearEvent \/ Restart \/ CrashOnJson \/ CrashOnDns \/ Kill \/ Reboot
    BY <1>4 DEF ClearEvent, Restart, CrashOnJson, CrashOnDns, Kill, Stop, Reboot
  <1> QED
    BY <1>1, <1>2, <1>3, <1>4 DEF Next, Handle, Fail

Reported ==
    pc \notin {"idle", "down"} => offset > 0 /\ event = EventOf(log[offset])

LEMMA NextReported ==
    ASSUME OsmudTypeInv, Reported, [OsmudNext]_osmudVars
    PROVE  Reported'
  <1>1. OsmudTypeOK /\ offset \in 0..Len(log) /\ Len(log) \in Nat
    BY LenProperties DEF OsmudTypeInv, OsmudTypeOK
  <1>2. CASE ReadEvent
    <2>1. event' = EventOf(log[offset + 1]) /\ offset' = offset + 1 /\ log' = log
      BY <1>1, <1>2, ReadEventStep
    <2>2. offset' > 0
      BY <1>1, <2>1
    <2> QED
      BY <2>1, <2>2 DEF Reported
  <1>3. CASE Dnsmasq
    <2>1. /\ UNCHANGED <<vars, offset>> /\ \A i \in 1..Len(log) : log'[i] = log[i]
      BY <1>1, <1>3, DnsmasqStep
    <2>2. offset > 0 => log'[offset] = log[offset]
      BY <1>1, <2>1
    <2>3. pc' = pc /\ event' = event /\ offset' = offset
      BY <2>1 DEF vars, localVars
    <2> QED
      BY <2>2, <2>3 DEF Reported
  <1>4. CASE Die \/ PowerCycle \/ Start
    BY <1>4 DEF Die, CrashOnJson, CrashOnDns, Kill, Stop, PowerCycle, Reboot, Start, Restart,
                Reported
  <1>5. CASE UNCHANGED osmudVars
    BY <1>5 DEF osmudVars, vars, localVars, logVars, Reported
  <1>6. CASE HandleEvent
    <2>1. UNCHANGED <<log, offset>> /\ [Next]_vars /\ (Retrieve \/ Handle)
      BY <1>6 DEF HandleEvent, logVars, Next
    <2>2. pc # "idle"
      BY <2>1 DEF Handle, Retrieve, RecordLegacyDevice, RecordMudDevice, ParseMudFile,
                RemoveMudDbDeviceEntry, RecordMudDeviceAgain, FinishTransaction,
                StartRemove, FailRemove, RemoveRule, EndRemove,
                SkipMissingAcl, EnterAcl, LeaveAcl, SkipAce, ResolveAce, LeaveAce,
                InstallAnswer, InstallRejectAll, ClearEvent
    <2>3. ~\E e \in Events : Dispatch(e)
      BY <2>2 DEF Dispatch
    <2> QED
      BY <2>1, <2>3, EventStays DEF Reported
  <1> QED
    BY <1>2, <1>3, <1>4, <1>5, <1>6, OsmudSteps

(* The event the handler works on is, in each field, what dnsmasq called    *)
(* its script with, whatever variables were unset: though strtok swallows  *)
(* empty fields, no field of a line comes to be read as another.           *)
THEOREM EventIsReportedCorrect == OsmudSpec => []EventIsReported
  <1>1. OsmudInit => Reported
    BY DEF OsmudInit, Init, Reported
  <1>2. Reported => EventIsReported
    BY DEF Reported, EventIsReported, EventOf
  <1>3. OsmudTypeInv /\ Reported /\ [OsmudNext]_osmudVars => Reported'
    BY NextReported
  <1> QED
    BY <1>1, <1>2, <1>3, InitOsmudType, NextOsmudType, PTL DEF OsmudSpec

-----------------------------------------------------------------------------
(* The loop implements MudManager, given that the events MudManager may be   *)
(* given are those a line of the log can stand for.                        *)

EventsReported == \A call \in Call : EventOf(call) \in Events

LEMMA ManagerStep ==
    ASSUME EventsReported, OsmudTypeOK, [OsmudNext]_osmudVars
    PROVE  [Next]_vars
  <1>1. ASSUME ReadEvent
        PROVE  Next
    <2>1. Dispatch(EventOf(log[offset + 1]))
      BY <1>1, ReadEventStep
    <2>2. EventOf(log[offset + 1]) \in Events
      BY <1>1, NextLine DEF ReadEvent, EventsReported
    <2> QED
      BY <2>1, <2>2 DEF Next
  <1> QED
    BY <1>1, ManagerSteps

(* Whatever dnsmasq reports and whenever osMUD dies and starts again, what   *)
(* the loop does to the firewall and the files is what MudManager does with *)
(* some events: every theorem about Spec is one about the loop.            *)
THEOREM OsmudIsMudManager ==
    ASSUME EventsReported
    PROVE  OsmudSpec => Spec
  <1>1. EventsReported => (OsmudTypeInv /\ [OsmudNext]_osmudVars => [Next]_vars)
    BY ManagerStep DEF OsmudTypeInv
  <1>2. OsmudInit => Init
    BY DEF OsmudInit
  <1> QED
    BY <1>1, <1>2, InitOsmudType, NextOsmudType, PTL DEF OsmudSpec, Spec

(* In particular the enforced rules follow DevicePolicy, whatever dnsmasq   *)
(* reports, on MudPolicyProofs' assumptions.                               *)
THEOREM OsmudPolicyCorrect ==
    ASSUME EventsReported, ScriptIsExact, RemovalSucceeds, AddSucceeds, TransactionsEnd,
           AnswersFound
    PROVE  OsmudSpec => PolicySpec
  <1>1. OsmudSpec => Spec
    BY OsmudIsMudManager
  <1>2. Spec => PolicySpec
    BY PolicyCorrect
  <1> QED
    BY <1>1, <1>2

-----------------------------------------------------------------------------
(* CaughtUpIsEnforced.  The process may be killed in the middle of a         *)
(* transaction and then starts the log over, so what is staged need not be *)
(* what is enforced, and what is enforced need not be what the log says,   *)
(* until the lines read since the last start have been dealt with.  What    *)
(* is invariant:                                                           *)
(*   - of the lines dealt with since the start, the last that settles an    *)
(*     address has been put into force, and nothing else is staged for the *)
(*     address outside its own transactions (DoneInv);                     *)
(*   - an address that no line settles has the rules a reboot left it, or   *)
(*     none (KeptInv);                                                     *)
(*   - the last line that settles an address says who has it (LeaseInv).    *)

EveryFileEnforceable == \A f \in MudFiles : Policy!Enforceable(f)

(* Every download succeeds, and so does the script that ends a transaction. *)
DownloadsSucceed == "fetch" \notin Faults

FinishSucceeds == "finish" \notin Faults

(* Which events come to which stages. *)
StageEvent ==
    /\ pc = "legacy" => event.action = "NEW" /\ event.url = NoUrl
    /\ pc \in {"retrieve", "record", "parse", "accessList", "ace", "install", "rerecord"} =>
          event.action = "NEW" /\ event.url # NoUrl
    /\ pc \in {"remove", "removing", "finish"} =>
          event.action = "DEL" \/ (event.action = "NEW" /\ event.url # NoUrl)
    /\ pc = "forget" => event.action = "DEL"

(* How a transaction comes to its end. *)
FinishInv ==
    pc = "finish" =>
        /\ event.action = "DEL" => retval = 0
        /\ event.action = "NEW" => mudFile \in MudFiles /\ (event.named \/ retval = 1)

(* The lines dealt with since the process was started. *)
Done == IF pc \in {"idle", "rerecord", "clear"} THEN offset ELSE offset - 1

(* Of the first n lines, the last that settles the address. *)
LastSettles(d, i, n) ==
    /\ i \in 1..n
    /\ Settles(log[i], d)
    /\ \A j \in 1..n : j > i => ~Settles(log[j], d)

(* What such a line comes to. *)
Settled(call, d) ==
    IF call.arg = "del" THEN {<<>>} ELSE UNION {Policy!PoliciesOf(f, d) : f \in MudFiles}

LeaseInv ==
    \A d \in DeviceIp, i \in 1..Len(log) :
        LastSettles(d, i, Len(log)) => (log[i].arg = "add" <=> MudNamed(lease[d]))

OwnTransaction(d) == pc \in InTransaction /\ event.ip = d

InForce(d, call) ==
    /\ RulesOf(committed, d) \in Settled(call, d)
    /\ OwnTransaction(d) \/ RulesOf(staged, d) = RulesOf(committed, d)

DoneInv ==
    pc # "down" =>
        \A d \in DeviceIp, i \in 1..Done : LastSettles(d, i, Done) => InForce(d, log[i])

Unsettled(d) == \A i \in 1..Len(log) : ~Settles(log[i], d)

KeptInv ==
    \A d \in DeviceIp :
        Unsettled(d) =>
            /\ RulesOf(committed, d) \in {RulesOf(kept, d), <<>>}
            /\ \/ pc = "removing" /\ event.ip = d
               \/ RulesOf(staged, d) \in {RulesOf(kept, d), <<>>}

CaughtUpInv ==
    /\ OsmudTypeInv /\ Reported
    /\ BaseInv /\ OneDevice(staged) /\ OneDevice(committed)
    /\ AtStage /\ ServeInv /\ StageEvent /\ FinishInv
    /\ LeaseInv /\ KeptInv
    /\ EveryFileEnforceable => DoneInv

LEMMA NextStageEvent ==
    ASSUME StageEvent, [Next]_vars
    PROVE  StageEvent'
  <1>1. CASE \E e \in Events : Dispatch(e)
    BY <1>1 DEF Dispatch, StageEvent
  <1>2. CASE \/ Retrieve \/ RecordLegacyDevice \/ RecordMudDevice \/ ParseMudFile
             \/ RemoveMudDbDeviceEntry \/ RecordMudDeviceAgain \/ ClearEvent
    BY <1>2 DEF Retrieve, RecordLegacyDevice, RecordMudDevice, ParseMudFile,
                RemoveMudDbDeviceEntry, RecordMudDeviceAgain, ClearEvent, localVars, StageEvent
  <1>3. CASE StartRemove \/ FailRemove \/ RemoveRule \/ EndRemove
    BY <1>3 DEF StartRemove, FailRemove, RemoveRule, EndRemove, AfterRemove, localVars, StageEvent
  <1>4. CASE SkipMissingAcl \/ EnterAcl \/ LeaveAcl \/ SkipAce \/ ResolveAce \/ LeaveAce
    BY <1>4 DEF SkipMissingAcl, EnterAcl, LeaveAcl, SkipAce, ResolveAce, LeaveAce, StageEvent
  <1>5. CASE InstallAnswer \/ InstallRejectAll
    BY <1>5 DEF InstallAnswer, InstallRejectAll, StageEvent
  <1>6. CASE FinishTransaction
    BY <1>6 DEF FinishTransaction, AfterFinish, StageEvent
  <1>7. CASE CrashOnJson \/ CrashOnDns \/ Kill \/ Reboot \/ Restart
    BY <1>7 DEF CrashOnJson, CrashOnDns, Kill, Stop, Reboot, Restart, StageEvent
  <1>8. CASE UNCHANGED vars
    BY <1>8 DEF vars, localVars, StageEvent
  <1> QED
    BY <1>1, <1>2, <1>3, <1>4, <1>5, <1>6, <1>7, <1>8 DEF Next, Handle, Fail

LEMMA ToFinish ==
    ASSUME [Next]_vars, pc' = "finish"
    PROVE  RemoveMudDbDeviceEntry \/ InstallRejectAll \/ UNCHANGED vars
  <1>1. ASSUME NEW e \in Events, Dispatch(e)
        PROVE  FALSE
    BY <1>1 DEF Dispatch
  <1>2. CASE \/ Retrieve \/ RecordLegacyDevice \/ RecordMudDevice \/ ParseMudFile
             \/ RecordMudDeviceAgain \/ ClearEvent
    BY <1>2 DEF Retrieve, RecordLegacyDevice, RecordMudDevice, ParseMudFile,
                RecordMudDeviceAgain, ClearEvent
  <1>3. CASE StartRemove \/ FailRemove \/ RemoveRule \/ EndRemove
    BY <1>3 DEF StartRemove, FailRemove, RemoveRule, EndRemove, AfterRemove
  <1>4. CASE SkipMissingAcl \/ EnterAcl \/ LeaveAcl \/ SkipAce \/ ResolveAce \/ LeaveAce
    BY <1>4 DEF SkipMissingAcl, EnterAcl, LeaveAcl, SkipAce, ResolveAce, LeaveAce
  <1>5. CASE InstallAnswer \/ FinishTransaction
    BY <1>5 DEF InstallAnswer, FinishTransaction, AfterFinish
  <1>6. CASE CrashOnJson \/ CrashOnDns \/ Kill \/ Reboot \/ Restart
    BY <1>6 DEF CrashOnJson, CrashOnDns, Kill, Stop, Reboot, Restart
  <1> QED
    BY <1>1, <1>2, <1>3, <1>4, <1>5, <1>6 DEF Next, Handle, Fail

(* Without a name nothing can be installed, and the failure is noticed. *)
LEMMA InstallUnnamed ==
    ASSUME NEW r, NEW b, ~b, InstallFirewallIPRule(r, b)
    PROVE  UNCHANGED uciVars /\ retval' = 1
  BY DEF InstallFirewallIPRule, InstallSucceeds, InstallOverwrites, InstallFails

LEMMA NextFinish ==
    ASSUME TypeOK, ServeInv, StageEvent, FinishInv, [Next]_vars
    PROVE  FinishInv'
  <1> SUFFICES ASSUME pc' = "finish"
               PROVE  FinishInv'
    BY DEF FinishInv
  <1>1. CASE RemoveMudDbDeviceEntry
    <2>1. pc = "forget" /\ event' = event /\ retval' = retval
      BY <1>1 DEF RemoveMudDbDeviceEntry, localVars
    <2>2. retval = 0 /\ event.action = "DEL"
      BY <2>1 DEF ServeInv, Loops
    <2> QED
      BY <2>1, <2>2 DEF FinishInv
  <1>2. CASE InstallRejectAll
    <2>1. /\ pc = "accessList" /\ event' = event /\ mudFile' = mudFile
          /\ InstallFirewallIPRule(RejectAll(event.ip), event.named)
      BY <1>2 DEF InstallRejectAll
    <2>2. event.action = "NEW" /\ mudFile \in MudFiles
      BY <2>1 DEF StageEvent, TypeOK
    <2>3. event.named \/ retval' = 1
      BY <2>1, InstallUnnamed
    <2> QED
      BY <2>1, <2>2, <2>3 DEF FinishInv
  <1>3. CASE UNCHANGED vars
    BY <1>3 DEF vars, localVars, FinishInv
  <1> QED
    BY <1>1, <1>2, <1>3, ToFinish

-----------------------------------------------------------------------------
(* LeaseInv: what dnsmasq does to its leases is what it has logged. *)

LEMMA DnsmasqLine ==
    ASSUME OsmudTypeOK, Dnsmasq
    PROVE  \E call \in Call :
              /\ log' = Append(log, call)
              /\ \A d \in DeviceIp : d # call.ip => lease'[d] = lease[d]
              /\ Settles(call, call.ip) => (call.arg = "add" <=> MudNamed(lease'[call.ip]))
              /\ ~Settles(call, call.ip) =>
                    (MudNamed(lease'[call.ip]) <=> MudNamed(lease[call.ip]))
  <1>1. PICK d \in DeviceIp : Renew(d) \/ Release(d) \/ \E c \in Client : Lease(d, c)
    BY DEF Dnsmasq
  <1>2. lease \in [DeviceIp -> Client \cup {NoClient}]
    BY DEF OsmudTypeOK
  <1>3. CASE Renew(d)
    <2> DEFINE call == CallFor("old", d, lease[d])
    <2>1. lease[d] \in Client /\ log' = Append(log, call) /\ lease' = lease
      BY <1>2, <1>3 DEF Renew, DetectNewDevice
    <2>2. call \in Call /\ call.ip = d /\ ~Settles(call, d)
      BY <2>1, CallType DEF CallFor, Settles
    <2> QED
      BY <2>1, <2>2
  <1>4. CASE Release(d)
    <2> DEFINE call == CallFor("del", d, lease[d])
    <2>1. /\ lease[d] \in Client /\ log' = Append(log, call)
          /\ lease' = [lease EXCEPT ![d] = NoClient]
      BY <1>2, <1>4 DEF Release, DetectNewDevice
    <2>2. call \in Call /\ call.ip = d /\ Settles(call, d) /\ call.arg # "add"
      BY <2>1, CallType DEF CallFor, Settles
    <2>3. ~MudNamed(lease'[d]) /\ \A e \in DeviceIp : e # d => lease'[e] = lease[e]
      BY <1>2, <2>1 DEF MudNamed
    <2> QED
      BY <2>1, <2>2, <2>3
  <1>5. ASSUME NEW c \in Client, Lease(d, c)
        PROVE  \E call \in Call :
                  /\ log' = Append(log, call)
                  /\ \A e \in DeviceIp : e # call.ip => lease'[e] = lease[e]
                  /\ Settles(call, call.ip) => (call.arg = "add" <=> MudNamed(lease'[call.ip]))
                  /\ ~Settles(call, call.ip) =>
                        (MudNamed(lease'[call.ip]) <=> MudNamed(lease[call.ip]))
    <2> DEFINE call == CallFor("add", d, c)
    <2>1. lease[d] = NoClient /\ log' = Append(log, call) /\ lease' = [lease EXCEPT ![d] = c]
      BY <1>5 DEF Lease, DetectNewDevice
    <2>2. call \in Call /\ call.ip = d /\ call.arg = "add" /\ c # NoClient
      BY CallType, ClientAssumption DEF CallFor
    <2>3. Settles(call, d) <=> MudNamed(c)
      BY <2>2 DEF CallFor, Settles, MudNamed
    <2>4. /\ lease'[d] = c /\ ~MudNamed(lease[d])
          /\ \A e \in DeviceIp : e # d => lease'[e] = lease[e]
      BY <1>2, <2>1 DEF MudNamed
    <2> QED
      BY <2>1, <2>2, <2>3, <2>4
  <1> QED
    BY <1>1, <1>3, <1>4, <1>5

LEMMA NextLease ==
    ASSUME OsmudTypeOK, LeaseInv, [OsmudNext]_osmudVars
    PROVE  LeaseInv'
  <1>1. log \in Seq(Call) /\ Len(log) \in Nat
    BY LenProperties DEF OsmudTypeOK
  <1>2. CASE Dnsmasq
    <2>1. PICK call \in Call :
              /\ log' = Append(log, call)
              /\ \A d \in DeviceIp : d # call.ip => lease'[d] = lease[d]
              /\ Settles(call, call.ip) => (call.arg = "add" <=> MudNamed(lease'[call.ip]))
              /\ ~Settles(call, call.ip) =>
                    (MudNamed(lease'[call.ip]) <=> MudNamed(lease[call.ip]))
      BY <1>2, DnsmasqLine
    <2>2. /\ Len(log') = Len(log) + 1 /\ log'[Len(log) + 1] = call
          /\ \A i \in 1..Len(log) : log'[i] = log[i]
      BY <1>1, <2>1, AppendProperties
    <2> SUFFICES ASSUME NEW d \in DeviceIp, NEW i \in 1..Len(log'),
                        LastSettles(d, i, Len(log))'
                 PROVE  log'[i].arg = "add" <=> MudNamed(lease'[d])
      BY DEF LeaseInv, MudNamed
    <2>3. Settles(log'[i], d) /\ \A j \in 1..Len(log') : j > i => ~Settles(log'[j], d)
      BY DEF LastSettles, Settles
    <2>4. CASE i = Len(log) + 1
      <3>1. Settles(call, d) /\ d = call.ip
        BY <2>2, <2>3, <2>4 DEF Settles
      <3> QED
        BY <2>1, <2>2, <2>4, <3>1
    <2>5. CASE i # Len(log) + 1
      <3>1. i \in 1..Len(log) /\ Len(log) + 1 \in 1..Len(log') /\ Len(log) + 1 > i
        BY <1>1, <2>2, <2>5
      <3>2. ~Settles(call, d)
        BY <2>2, <2>3, <3>1
      <3>3. \A j \in 1..Len(log) : j \in 1..Len(log')
        BY <1>1, <2>2
      <3>4. LastSettles(d, i, Len(log))
        BY <2>2, <2>3, <3>1, <3>3 DEF LastSettles
      <3>5. log[i].arg = "add" <=> MudNamed(lease[d])
        BY <3>1, <3>4 DEF LeaseInv
      <3>6. MudNamed(lease'[d]) <=> MudNamed(lease[d])
        BY <2>1, <3>2
      <3> QED
        BY <2>2, <3>1, <3>5, <3>6
    <2> QED
      BY <2>4, <2>5
  <1>3. CASE PowerCycle
    <2>1. Len(log') = 0
      BY <1>3 DEF PowerCycle
    <2>2. \A i \in 1..Len(log') : FALSE
      BY <2>1
    <2> QED
      BY <2>2 DEF LeaseInv
  <1>4. CASE ReadEvent \/ HandleEvent \/ Die \/ Start \/ UNCHANGED osmudVars
    <2>1. log' = log /\ lease' = lease
      BY <1>4 DEF ReadEvent, HandleEvent, Die, Start, osmudVars, logVars
    <2> QED
      BY <2>1 DEF LeaseInv, LastSettles, Settles, MudNamed
  <1> QED
    BY <1>2, <1>3, <1>4, OsmudSteps

-----------------------------------------------------------------------------
(* KeptInv: an address no line settles sees removals only. *)

LEMMA NoSettlingEvent ==
    ASSUME OsmudTypeOK, Reported, StageEvent, Unsettled(event.ip),
           pc \in {"accessList", "ace", "install"}
    PROVE  ~event.named
  <1>1. offset \in 1..Len(log) /\ event = EventOf(log[offset])
    BY LenProperties DEF OsmudTypeOK, Reported
  <1>2. log[offset] \in Call
    BY <1>1, ElementOfSeq DEF OsmudTypeOK
  <1>3. event.action = "NEW" /\ event.url # NoUrl
    BY DEF StageEvent
  <1>4. log[offset].arg = "add" /\ log[offset].ip = event.ip
        /\ log[offset].url # NoUrl /\ log[offset].named = event.named
    BY <1>1, <1>2, <1>3 DEF EventOf, Action, Call
  <1>5. ~Settles(log[offset], event.ip)
    BY <1>1 DEF Unsettled
  <1> QED
    BY <1>4, <1>5 DEF Settles

(* Of the quiet steps, only one is taken while the script runs. *)
LEMMA QuietRemoving ==
    ASSUME Quiet, pc = "removing"
    PROVE  EndRemove
  <1>1. ASSUME NEW e \in Events, Dispatch(e)
        PROVE  FALSE
    BY <1>1 DEF Dispatch
  <1>2. CASE \/ Retrieve \/ RecordLegacyDevice \/ RecordMudDevice \/ ParseMudFile \/ FailRemove
             \/ RemoveMudDbDeviceEntry \/ RecordMudDeviceAgain \/ ClearEvent
    BY <1>2 DEF Retrieve, RecordLegacyDevice, RecordMudDevice, ParseMudFile, FailRemove,
                RemoveMudDbDeviceEntry, RecordMudDeviceAgain, ClearEvent
  <1>3. CASE SkipMissingAcl \/ EnterAcl \/ LeaveAcl \/ SkipAce \/ ResolveAce \/ LeaveAce
    BY <1>3 DEF SkipMissingAcl, EnterAcl, LeaveAcl, SkipAce, ResolveAce, LeaveAce
  <1>4. CASE CrashOnJson \/ CrashOnDns \/ Kill \/ Restart
    BY <1>4 DEF CrashOnJson, CrashOnDns, Kill, Restart
  <1> QED
    BY <1>1, <1>2, <1>3, <1>4 DEF Quiet

(* When the script is done, the device has no rules staged. *)
LEMMA AllRemoved ==
    ASSUME ScriptIsExact, BaseInv, EndRemove
    PROVE  RulesOf(staged, event.ip) = <<>>
  <1>1. TypeOK /\ pc = "removing" /\ lines = {}
    BY DEF BaseInv, TypeInv, EndRemove
  <1>2. staged \in Config
    BY <1>1 DEF TypeOK, UciTypeOK
  <1>3. event.ip \in DeviceIp
    BY <1>1, EventIp
  <1>4. MatchingLines(staged, event.ip) = {}
    BY <1>1 DEF BaseInv
  <1>5. \A i \in DOMAIN staged : ~Involves(staged[i], event.ip)
    BY <1>2, <1>3, <1>4, NoLinesMeansNoRules
  <1> QED
    BY <1>2, <1>3, <1>5, RulesOfNone

KeptFor(d) ==
    /\ RulesOf(committed, d) \in {RulesOf(kept, d), <<>>}
    /\ \/ pc = "removing" /\ event.ip = d
       \/ RulesOf(staged, d) \in {RulesOf(kept, d), <<>>}

LEMMA KeptStep ==
    ASSUME ScriptIsExact, AddSucceeds, OsmudTypeOK, Reported, StageEvent, BaseInv,
           OneDevice(staged), [Next]_vars, kept' = kept,
           NEW d \in DeviceIp, Unsettled(d), KeptFor(d)
    PROVE  KeptFor(d)'
  <1>1. CASE Quiet
    <2>1. UNCHANGED <<staged, committed>>
      BY <1>1, QuietSteps DEF uciVars
    <2>2. pc = "removing" /\ event.ip = d => RulesOf(staged, d) = <<>>
      BY <1>1, QuietRemoving, AllRemoved
    <2> QED
      BY <2>1, <2>2 DEF KeptFor
  <1>2. CASE StartRemove
    <2>1. UNCHANGED <<staged, committed>> /\ pc = "remove"
      BY <1>2 DEF StartRemove, ShowMatching
    <2> QED
      BY <2>1 DEF KeptFor
  <1>3. CASE RemoveRule
    <2>1. pc = "removing" /\ pc' = pc /\ event' = event
      BY <1>3 DEF RemoveRule, localVars
    <2>2. committed' = committed /\ (d # event.ip => RulesOf(staged', d) = RulesOf(staged, d))
      BY <1>3, OthersStay
    <2> QED
      BY <2>1, <2>2 DEF KeptFor
  <1>4. CASE InstallAnswer \/ InstallRejectAll
    <2>1. pc \in {"accessList", "install"}
      BY <1>4 DEF InstallAnswer, InstallRejectAll
    <2>2. CASE d # event.ip
      <3>1. committed' = committed /\ RulesOf(staged', d) = RulesOf(staged, d)
        BY <1>4, <2>2, OthersStay
      <3> QED
        BY <2>1, <3>1 DEF KeptFor
    <2>3. CASE d = event.ip
      <3>1. ~event.named
        BY <2>1, <2>3, NoSettlingEvent
      <3>2. \E r, b : ~b /\ InstallFirewallIPRule(r, b)
        BY <1>4, <3>1 DEF InstallAnswer, InstallRejectAll
      <3>3. UNCHANGED <<staged, committed>>
        BY <3>2, InstallUnnamed DEF uciVars
      <3> QED
        BY <2>1, <3>3 DEF KeptFor
    <2> QED
      BY <2>2, <2>3
  <1>5. CASE FinishTransaction
    <2>1. pc = "finish" /\ committed' \in {staged, committed} /\ staged' \in {staged, committed}
      BY <1>5 DEF FinishTransaction, CommitAndApplyFirewallRules, CommitRules,
                  RollbackFirewallConfiguration, RollbackRules, uciVars
    <2> QED
      BY <2>1 DEF KeptFor
  <1>6. CASE UNCHANGED vars
    BY <1>6 DEF vars, uciVars, localVars, KeptFor
  <1>7. CASE Reboot
    BY <1>7 DEF Reboot, LoseStaged, KeptFor
  <1> QED
    BY <1>1, <1>2, <1>3, <1>4, <1>5, <1>6, <1>7, StepKinds

LEMMA NextKept ==
    ASSUME EventsReported, ScriptIsExact, AddSucceeds, OsmudTypeOK, Reported, StageEvent, BaseInv,
           OneDevice(staged), KeptInv, [OsmudNext]_osmudVars
    PROVE  KeptInv'
  <1>1. \A d \in DeviceIp : Unsettled(d) => KeptFor(d)
    BY DEF KeptInv, KeptFor
  <1>2. CASE PowerCycle
    <2>1. staged' = committed /\ committed' = committed /\ kept' = committed
      BY <1>2 DEF PowerCycle, Reboot, LoseStaged
    <2> QED
      BY <2>1 DEF KeptInv
  <1>3. CASE ~PowerCycle
    <2>1. kept' = kept
      <3>1. CASE Dnsmasq
        BY <3>1, DnsmasqStep
      <3>2. CASE ReadEvent \/ HandleEvent \/ Die \/ Start \/ UNCHANGED osmudVars
        BY <3>2 DEF ReadEvent, HandleEvent, Die, Start, osmudVars, logVars
      <3> QED
        BY <1>3, <3>1, <3>2, OsmudSteps
    <2>2. log \in Seq(Call) /\ Len(log) \in Nat
      BY LenProperties DEF OsmudTypeOK
    <2>3. ASSUME NEW d \in DeviceIp, Unsettled(d)'
          PROVE  Unsettled(d)
      <3>1. CASE Dnsmasq
        <4>1. /\ Len(log') = Len(log) + 1
              /\ \A i \in 1..Len(log) : log'[i] = log[i]
          BY <3>1, DnsmasqStep
        <4>2. \A i \in 1..Len(log) : i \in 1..Len(log')
          BY <2>2, <4>1
        <4> QED
          BY <2>3, <4>1, <4>2 DEF Unsettled, Settles
      <3>2. CASE ReadEvent \/ HandleEvent \/ Die \/ Start \/ UNCHANGED osmudVars
        <4>1. log' = log
          BY <3>2 DEF ReadEvent, HandleEvent, Die, Start, osmudVars, logVars
        <4> QED
          BY <2>3, <4>1 DEF Unsettled, Settles
      <3> QED
        BY <1>3, <3>1, <3>2, OsmudSteps
    <2>4. [Next]_vars
      BY ManagerStep
    <2>5. \A d \in DeviceIp : Unsettled(d)' => KeptFor(d)'
      BY <1>1, <2>1, <2>3, <2>4, KeptStep
    <2> QED
      BY <2>5 DEF KeptInv, KeptFor
  <1> QED
    BY <1>2, <1>3

-----------------------------------------------------------------------------
(* DoneInv: what the lines dealt with have put into force stays.             *)

LEMMA DoneType ==
    ASSUME OsmudTypeOK, Reported, pc # "down"
    PROVE  Done \in Nat /\ Done <= Len(log) /\ Len(log) \in Nat /\ offset \in Nat
  <1>1. Len(log) \in Nat /\ offset \in 0..Len(log)
    BY LenProperties DEF OsmudTypeOK
  <1>2. pc # "idle" => offset > 0
    BY DEF Reported
  <1> QED
    BY <1>1, <1>2 DEF Done

(* A transaction under way may stage changes for its own device only. *)
StagedFor(d) ==
    OwnTransaction(d)' \/ (RulesOf(staged', d) = RulesOf(staged, d) /\ ~OwnTransaction(d))

(* No line comes to be dealt with. *)
LEMMA DoneStays ==
    ASSUME OsmudTypeOK, Reported, DoneInv, pc # "down", Done' = Done, committed' = committed,
           \A i \in 1..Len(log) : log'[i] = log[i],
           \A d \in DeviceIp : StagedFor(d)
    PROVE  DoneInv'
  <1> SUFFICES ASSUME NEW d \in DeviceIp, NEW i \in 1..Done', LastSettles(d, i, Done)'
               PROVE  InForce(d, log[i])'
    BY DEF DoneInv
  <1>1. Done \in Nat /\ Done <= Len(log) /\ Len(log) \in Nat
    BY DoneType
  <1>2. i \in 1..Done /\ \A j \in 1..Done : j \in 1..Len(log) /\ log'[j] = log[j]
    BY <1>1
  <1>3. LastSettles(d, i, Done)
    BY <1>2 DEF LastSettles, Settles
  <1>4. InForce(d, log[i])
    BY <1>2, <1>3 DEF DoneInv
  <1>5. StagedFor(d) /\ log'[i] = log[i]
    BY <1>2
  <1> QED
    BY <1>4, <1>5 DEF InForce, StagedFor, Settled, OwnTransaction

(* A line that settles nothing is dealt with. *)
LEMMA DoneGrows ==
    ASSUME OsmudTypeOK, Reported, DoneInv, pc # "down", Done' = Done + 1,
           UNCHANGED <<committed, log>>,
           \A d \in DeviceIp : ~Settles(log[Done + 1], d) /\ StagedFor(d)
    PROVE  DoneInv'
  <1> SUFFICES ASSUME NEW d \in DeviceIp, NEW i \in 1..Done', LastSettles(d, i, Done)'
               PROVE  InForce(d, log[i])'
    BY DEF DoneInv
  <1>1. Done \in Nat
    BY DoneType
  <1>2. Settles(log[i], d) /\ \A j \in 1..Done + 1 : j > i => ~Settles(log[j], d)
    BY DEF LastSettles, Settles
  <1>3. i \in 1..Done /\ \A j \in 1..Done : j \in 1..Done + 1
    BY <1>1, <1>2
  <1>4. LastSettles(d, i, Done)
    BY <1>2, <1>3 DEF LastSettles
  <1>5. InForce(d, log[i]) /\ StagedFor(d)
    BY <1>3, <1>4 DEF DoneInv
  <1> QED
    BY <1>5 DEF InForce, StagedFor, Settled, OwnTransaction

(* What a transaction has staged when it comes to its end. *)
LEMMA ReadyToCommit ==
    ASSUME EveryFileEnforceable, OsmudTypeOK, Reported, AtStage, ServeInv, FinishInv,
           pc = "finish", NEW d \in DeviceIp, Settles(log[offset], d)
    PROVE  retval = 0 /\ d = event.ip /\ RulesOf(staged, d) \in Settled(log[offset], d)
  <1>1. offset \in 1..Len(log) /\ event = EventOf(log[offset])
    BY LenProperties DEF OsmudTypeOK, Reported
  <1>2. log[offset] \in Call
    BY <1>1, ElementOfSeq DEF OsmudTypeOK
  <1>3. d = event.ip
    BY <1>1 DEF Settles, EventOf
  <1>4. CASE log[offset].arg = "del"
    <2>1. event.action = "DEL"
      BY <1>1, <1>4 DEF EventOf, Action
    <2>2. retval = 0
      BY <2>1 DEF FinishInv
    <2>3. RulesOf(staged, d) = <<>>
      BY <1>3, <2>1, <2>2 DEF AtStage
    <2> QED
      BY <1>3, <1>4, <2>2, <2>3 DEF Settled
  <1>5. CASE log[offset].arg = "add"
    <2>1. event.action = "NEW" /\ event.named
      BY <1>1, <1>5 DEF Settles, EventOf, Action
    <2>2. mudFile \in MudFiles
      BY <2>1 DEF FinishInv
    <2>3. Servable(event, mudFile)
      BY <2>1, <2>2 DEF Servable, EveryFileEnforceable
    <2>4. retval = 0
      BY <2>3 DEF ServeInv, Loops
    <2>5. AtFinish(d, RulesOf(staged, d))
      BY <1>3, <2>1, <2>4 DEF AtStage
    <2> QED
      BY <1>3, <1>5, <2>4, <2>5 DEF Settled, AtFinish
  <1> QED
    BY <1>4, <1>5 DEF Settles

LEMMA FinishEffect ==
    ASSUME FinishSucceeds, FinishTransaction
    PROVE  /\ staged' = committed'
           /\ committed' = IF retval = 0 THEN staged ELSE committed
           /\ pc = "finish" /\ pc' \in {"clear", "rerecord"}
  BY DEF FinishSucceeds, FinishTransaction, CommitAndApplyFirewallRules, CommitRules,
         RollbackFirewallConfiguration, RollbackRules, AfterFinish

LEMMA DoneFinishes ==
    ASSUME EveryFileEnforceable, FinishSucceeds, OsmudTypeOK, Reported, AtStage, ServeInv,
           FinishInv, StageEvent, DoneInv, FinishTransaction, UNCHANGED <<log, offset>>
    PROVE  DoneInv'
  <1>1. /\ staged' = committed'
        /\ committed' = IF retval = 0 THEN staged ELSE committed
        /\ pc = "finish" /\ pc' \in {"clear", "rerecord"}
    BY FinishEffect
  <1>2. Done' = offset /\ Done = offset - 1 /\ offset \in Nat /\ offset > 0
    BY <1>1, DoneType DEF Done, Reported
  <1> SUFFICES ASSUME NEW d \in DeviceIp, NEW i \in 1..offset, LastSettles(d, i, Done)'
               PROVE  InForce(d, log[i])'
    BY <1>2 DEF DoneInv
  <1>3. Settles(log[i], d) /\ \A j \in 1..offset : j > i => ~Settles(log[j], d)
    BY <1>2 DEF LastSettles, Settles
  <1> SUFFICES RulesOf(committed', d) \in Settled(log[i], d)
    BY <1>1 DEF InForce, Settled
  <1>4. CASE i = offset
    <2>1. retval = 0 /\ RulesOf(staged, d) \in Settled(log[offset], d)
      BY <1>1, <1>3, <1>4, ReadyToCommit
    <2> QED
      BY <1>1, <1>4, <2>1
  <1>5. CASE i # offset
    <2>1. i \in 1..Done /\ offset > i /\ offset \in 1..offset
          /\ \A j \in 1..Done : j \in 1..offset
      BY <1>2, <1>5
    <2>2. ~Settles(log[offset], d)
      BY <1>3, <2>1
    <2>3. LastSettles(d, i, Done)
      BY <1>3, <2>1 DEF LastSettles
    <2>4. InForce(d, log[i])
      BY <1>1, <2>1, <2>3 DEF DoneInv
    <2>5. CASE OwnTransaction(d)
      <3>1. event = EventOf(log[offset]) /\ event.ip = d
        BY <1>1, <2>5 DEF Reported, OwnTransaction
      <3>2. log[offset] \in Call
        BY <1>1, DoneType, <2>1, ElementOfSeq, LenProperties DEF OsmudTypeOK
      <3>3. event.action = "NEW" /\ event.url # NoUrl /\ ~event.named
        BY <1>1, <2>2, <3>1, <3>2 DEF StageEvent, Settles, EventOf, Action, Call
      <3>4. retval = 1
        BY <1>1, <3>3 DEF FinishInv
      <3> QED
        BY <1>1, <2>4, <3>4 DEF InForce
    <2>6. CASE ~OwnTransaction(d)
      BY <1>1, <2>4, <2>6 DEF InForce
    <2> QED
      BY <2>5, <2>6
  <1> QED
    BY <1>4, <1>5

(* A step inside the handling of an event. *)
LEMMA DoneInside ==
    ASSUME OsmudTypeOK, Reported, DoneInv,
           {pc, pc'} \cap {"down", "idle", "rerecord", "clear"} = {},
           UNCHANGED <<log, offset, event, committed>>,
           \A d \in DeviceIp : d # event.ip => RulesOf(staged', d) = RulesOf(staged, d),
           pc' \in InTransaction \/ (pc \notin InTransaction /\ staged' = staged)
    PROVE  DoneInv'
  <1>1. Done' = Done /\ pc # "down"
    BY DEF Done
  <1>2. \A d \in DeviceIp : StagedFor(d)
    BY DEF StagedFor, OwnTransaction
  <1> QED
    BY <1>1, <1>2, DoneStays

LEMMA HandleDone ==
    ASSUME DownloadsSucceed, FinishSucceeds, RemovalSucceeds, ScriptIsExact, AddSucceeds,
           EveryFileEnforceable, OsmudTypeOK, BaseInv, OneDevice(staged), Reported, AtStage,
           ServeInv, FinishInv, StageEvent, DoneInv, HandleEvent
    PROVE  DoneInv'
  <1>1. UNCHANGED <<log, offset>> /\ (Retrieve \/ Handle)
    BY DEF HandleEvent, logVars
  <1>2. CASE RecordLegacyDevice
    <2>1. /\ pc = "legacy" /\ pc' = "clear" /\ UNCHANGED <<staged, committed, event>>
      BY <1>2 DEF RecordLegacyDevice, uciVars, localVars
    <2>2. Done = offset - 1 /\ Done' = offset /\ offset \in Nat /\ offset \in 1..Len(log)
      BY <1>1, <2>1, DoneType DEF Done, Reported, OsmudTypeOK
    <2>3. event = EventOf(log[offset]) /\ event.action = "NEW" /\ event.url = NoUrl
      BY <2>1 DEF Reported, StageEvent
    <2>4. log[offset] \in Call
      BY <2>2, ElementOfSeq DEF OsmudTypeOK
    <2>5. \A d \in DeviceIp : ~Settles(log[offset], d)
      BY <2>3, <2>4 DEF Settles, EventOf, Action, Call
    <2>6. \A d \in DeviceIp : StagedFor(d)
      BY <2>1 DEF StagedFor, OwnTransaction, InTransaction
    <2>7. Done + 1 = offset
      BY <2>2
    <2>8. \A d \in DeviceIp : ~Settles(log[Done + 1], d) /\ StagedFor(d)
      BY <2>5, <2>6, <2>7
    <2> QED
      BY <1>1, <2>1, <2>2, <2>7, <2>8, DoneGrows
  <1>3. CASE RecordMudDeviceAgain \/ ClearEvent
    <2>1. /\ pc \in {"rerecord", "clear"} /\ pc' \in {"clear", "idle"}
          /\ UNCHANGED <<staged, committed>>
      BY <1>3 DEF RecordMudDeviceAgain, ClearEvent, uciVars
    <2>2. Done' = Done /\ \A d \in DeviceIp : StagedFor(d)
      BY <1>1, <2>1 DEF Done, StagedFor, OwnTransaction, InTransaction
    <2> QED
      BY <1>1, <2>1, <2>2, DoneStays
  <1>4. CASE Retrieve \/ RecordMudDevice \/ ParseMudFile
    <2>1. /\ pc \in {"retrieve", "record", "parse"} /\ pc' \in {"record", "parse", "remove"}
          /\ UNCHANGED <<staged, committed, event>>
      BY <1>4 DEF Retrieve, RecordMudDevice, ParseMudFile, uciVars, localVars, DownloadsSucceed,
                  GetOpenMudFile, VerifyCmsSignature
    <2>2. {pc, pc'} \cap {"down", "idle", "rerecord", "clear"} = {} /\ pc \notin InTransaction
      BY <2>1 DEF InTransaction
    <2> QED
      BY <1>1, <2>1, <2>2, DoneInside
  <1>5. CASE StartRemove \/ RemoveRule \/ InstallAnswer \/ InstallRejectAll
    <2>1. /\ committed' = committed /\ event' = event /\ pc' \in InTransaction
          /\ \A e \in DeviceIp : e # event.ip => RulesOf(staged', e) = RulesOf(staged, e)
      BY <1>5, OthersStay
    <2>2. pc \in {"remove", "removing", "install", "accessList"}
      BY <1>5 DEF StartRemove, RemoveRule, InstallAnswer, InstallRejectAll
    <2>3. {pc, pc'} \cap {"down", "idle", "rerecord", "clear"} = {}
      BY <2>1, <2>2 DEF InTransaction
    <2> QED
      BY <1>1, <2>1, <2>3, DoneInside
  <1>6. CASE FailRemove
    BY <1>6 DEF FailRemove, RemovalSucceeds
  <1>7. CASE \/ EndRemove \/ RemoveMudDbDeviceEntry \/ SkipMissingAcl \/ EnterAcl \/ LeaveAcl
             \/ SkipAce \/ ResolveAce \/ LeaveAce
    <2>1. Quiet
      BY <1>7 DEF Quiet
    <2>2. UNCHANGED <<staged, committed>>
      BY <2>1, QuietSteps DEF uciVars
    <2>3. /\ pc \in {"removing", "forget", "accessList", "ace", "install"}
          /\ pc' \in {"forget", "finish", "accessList", "ace", "install"} /\ event' = event
      <3>1. CASE EndRemove \/ RemoveMudDbDeviceEntry
        BY <3>1 DEF EndRemove, AfterRemove, RemoveMudDbDeviceEntry, localVars
      <3>2. CASE SkipMissingAcl \/ EnterAcl \/ LeaveAcl \/ SkipAce \/ ResolveAce \/ LeaveAce
        BY <3>2 DEF SkipMissingAcl, EnterAcl, LeaveAcl, SkipAce, ResolveAce, LeaveAce
      <3> QED
        BY <1>7, <3>1, <3>2
    <2>4. {pc, pc'} \cap {"down", "idle", "rerecord", "clear"} = {} /\ pc' \in InTransaction
      BY <2>3 DEF InTransaction
    <2> QED
      BY <1>1, <2>2, <2>3, <2>4, DoneInside
  <1>8. CASE FinishTransaction
    BY <1>1, <1>8, DoneFinishes
  <1> QED
    BY <1>1, <1>2, <1>3, <1>4, <1>5, <1>6, <1>7, <1>8 DEF Handle

LEMMA NextDone ==
    ASSUME DownloadsSucceed, FinishSucceeds, RemovalSucceeds, ScriptIsExact, AddSucceeds,
           EveryFileEnforceable, OsmudTypeOK, BaseInv, OneDevice(staged), Reported, AtStage,
           ServeInv, FinishInv, StageEvent, DoneInv, [OsmudNext]_osmudVars
    PROVE  DoneInv'
  <1>1. CASE Dnsmasq \/ UNCHANGED osmudVars
    <2>1. /\ UNCHANGED <<staged, committed, pc, event, offset>>
          /\ \A i \in 1..Len(log) : log'[i] = log[i]
      <3>1. CASE Dnsmasq
        BY <3>1, DnsmasqStep DEF vars, uciVars, localVars
      <3>2. CASE UNCHANGED osmudVars
        BY <3>2 DEF osmudVars, logVars, vars, uciVars, localVars
      <3> QED
        BY <1>1, <3>1, <3>2
    <2>2. Done' = Done /\ \A d \in DeviceIp : StagedFor(d)
      BY <2>1 DEF Done, StagedFor, OwnTransaction
    <2>3. CASE pc = "down"
      BY <2>1, <2>3 DEF DoneInv
    <2>4. CASE pc # "down"
      BY <2>1, <2>2, <2>4, DoneStays
    <2> QED
      BY <2>3, <2>4
  <1>2. CASE ReadEvent
    <2> DEFINE call == log[offset + 1]
    <2>1. /\ Dispatch(EventOf(call)) /\ pc = "idle" /\ offset' = offset + 1 /\ log' = log
          /\ UNCHANGED <<staged, committed>>
      BY <1>2, ReadEventStep DEF Dispatch, uciVars
    <2>2. call \in Call /\ offset \in Nat
      BY <1>2, NextLine DEF ReadEvent
    <2>3. pc' \notin InTransaction /\ pc' # "down" /\ pc' \notin {"idle", "rerecord"}
      BY <2>1 DEF Dispatch, InTransaction
    <2>4. \A d \in DeviceIp : StagedFor(d)
      BY <2>1, <2>3 DEF StagedFor, OwnTransaction, InTransaction
    <2>5. CASE pc' = "clear"
      <3>1. Done' = Done + 1 /\ Done + 1 = offset + 1
        BY <2>1, <2>2, <2>5 DEF Done
      <3>2. Action(call.arg) \notin {"NEW", "DEL"}
        BY <2>1, <2>5 DEF Dispatch, EventOf
      <3>3. \A d \in DeviceIp : ~Settles(call, d)
        BY <2>2, <3>2 DEF Settles, Action, Call
      <3>4. \A d \in DeviceIp : ~Settles(log[Done + 1], d) /\ StagedFor(d)
        BY <2>4, <3>1, <3>3
      <3> QED
        BY <2>1, <3>1, <3>4, DoneGrows
    <2>6. CASE pc' # "clear"
      <3>1. Done' = Done
        BY <2>1, <2>2, <2>3, <2>6 DEF Done
      <3> QED
        BY <2>1, <2>4, <3>1, DoneStays
    <2> QED
      BY <2>5, <2>6
  <1>3. CASE HandleEvent
    BY <1>3, HandleDone
  <1>4. CASE Die \/ PowerCycle
    BY <1>4 DEF Die, CrashOnJson, CrashOnDns, Kill, Stop, PowerCycle, Reboot, DoneInv
  <1>5. CASE Start
    <2>1. Done' = 0
      BY <1>5 DEF Start, Restart, Done
    <2>2. \A i \in 1..Done' : FALSE
      BY <2>1
    <2> QED
      BY <2>2 DEF DoneInv
  <1> QED
    BY <1>1, <1>2, <1>3, <1>4, <1>5, OsmudSteps

-----------------------------------------------------------------------------

LEMMA InitCaughtUp == OsmudInit => CaughtUpInv
  <1> SUFFICES ASSUME OsmudInit
               PROVE  CaughtUpInv
    OBVIOUS
  <1>1. Init /\ log = <<>> /\ offset = 0 /\ kept = SystemRules /\ pc = "idle"
        /\ staged = SystemRules /\ committed = SystemRules
    BY DEF OsmudInit, Init, UciInit
  <1>2. OsmudTypeInv /\ BaseInv /\ OneDevice(staged) /\ OneDevice(committed) /\ ServeInv
    BY <1>1, InitOsmudType, InitOthers, InitServe DEF OthersInv
  <1>3. Reported /\ AtStage /\ StageEvent /\ FinishInv
    BY <1>1 DEF Reported, AtStage, StageEvent, FinishInv
  <1>4. Len(log) = 0 /\ Done = 0
    BY <1>1 DEF Done
  <1>5. LeaseInv /\ DoneInv
    <2>1. \A i \in 1..0 : FALSE
      OBVIOUS
    <2> QED
      BY <1>4, <2>1 DEF LeaseInv, DoneInv
  <1>6. KeptInv
    BY <1>1 DEF KeptInv
  <1> QED
    BY <1>2, <1>3, <1>5, <1>6 DEF CaughtUpInv

LEMMA NextCaughtUp ==
    ASSUME EventsReported, DownloadsSucceed, FinishSucceeds, RemovalSucceeds, ScriptIsExact,
           AddSucceeds, CreateSucceeds, AnswersFound, CaughtUpInv, [OsmudNext]_osmudVars
    PROVE  CaughtUpInv'
  <1>1. OsmudTypeInv /\ OsmudTypeOK /\ TypeOK /\ Reported /\ BaseInv /\ OneDevice(staged)
        /\ OneDevice(committed) /\ AtStage /\ ServeInv /\ StageEvent /\ FinishInv
        /\ LeaseInv /\ KeptInv /\ (EveryFileEnforceable => DoneInv)
    BY DEF CaughtUpInv, OsmudTypeInv, OsmudTypeOK
  <1>2. [Next]_vars
    BY <1>1, ManagerStep
  <1>3. OsmudTypeInv' /\ Reported' /\ BaseInv' /\ OneDevice(staged)' /\ OneDevice(committed)'
    BY <1>1, <1>2, NextOsmudType, NextReported, NextBase, NextOneDevice DEF OneDevice
  <1>4. AtStage' /\ ServeInv'
    BY <1>1, <1>2, NextStage, NextServe
  <1>5. StageEvent' /\ FinishInv'
    BY <1>1, <1>2, NextStageEvent, NextFinish
  <1>6. LeaseInv' /\ KeptInv'
    BY <1>1, NextLease, NextKept
  <1>7. EveryFileEnforceable => DoneInv'
    BY <1>1, NextDone
  <1>8. EveryFileEnforceable' <=> EveryFileEnforceable
    OBVIOUS
  <1> QED
    BY <1>3, <1>4, <1>5, <1>6, <1>7, <1>8 DEF CaughtUpInv

(* Of some lines of the log, one is the last. *)
LEMMA LastLine ==
    ASSUME NEW n \in Nat, NEW T \in SUBSET (1..n), T # {}
    PROVE  \E i \in T : \A j \in T : j <= i
  <1> DEFINE R == {n - i : i \in T}
  <1>1. R \in SUBSET Nat /\ R # {}
    <2>1. \A i \in T : i \in 1..n /\ n - i \in Nat
      OBVIOUS
    <2> QED
      BY <2>1
  <1> HIDE DEF R
  <1>2. PICK m \in R : \A k \in R : m <= k
    BY <1>1, LeastNumber
  <1>3. PICK i \in T : m = n - i
    BY DEF R
  <1>4. ASSUME NEW j \in T
        PROVE  j <= i
    <2>1. n - j \in R
      BY DEF R
    <2>2. n - i <= n - j /\ i \in 1..n /\ j \in 1..n
      BY <1>2, <1>3, <2>1
    <2> QED
      BY <2>2
  <1> QED
    BY <1>4

LEMMA CaughtUp == CaughtUpInv => CaughtUpIsEnforced
  <1> SUFFICES ASSUME CaughtUpInv, pc = "idle", offset = Len(log), EveryFileEnforceable,
                      NEW d \in DeviceIp
               PROVE  IF \E i \in DOMAIN log : Settles(log[i], d)
                      THEN RulesOf(committed, d) \in Wanted(d)
                      ELSE RulesOf(committed, d) \in {RulesOf(kept, d), <<>>}
    BY DEF CaughtUpIsEnforced, EveryFileEnforceable
  <1>1. DOMAIN log = 1..Len(log) /\ Len(log) \in Nat /\ Done = Len(log)
    BY LenProperties DEF CaughtUpInv, OsmudTypeInv, OsmudTypeOK, Done
  <1>2. CASE \E i \in DOMAIN log : Settles(log[i], d)
    <2> DEFINE T == {i \in 1..Len(log) : Settles(log[i], d)}
    <2>1. PICK i \in T : \A j \in T : j <= i
      <3>1. T \in SUBSET (1..Len(log)) /\ T # {}
        BY <1>1, <1>2
      <3> HIDE DEF T
      <3> QED
        BY <1>1, <3>1, LastLine
    <2>2. i \in 1..Len(log) /\ Settles(log[i], d)
      OBVIOUS
    <2>3. \A j \in 1..Len(log) : j > i => ~Settles(log[j], d)
      BY <1>1, <2>1, <2>2
    <2>4. LastSettles(d, i, Len(log))
      BY <2>2, <2>3 DEF LastSettles
    <2>5. log[i].arg = "add" <=> MudNamed(lease[d])
      BY <2>2, <2>4 DEF CaughtUpInv, LeaseInv
    <2>6. RulesOf(committed, d) \in Settled(log[i], d)
      BY <1>1, <2>2, <2>4 DEF CaughtUpInv, DoneInv, InForce
    <2>7. log[i].arg \in {"add", "del"}
      BY <2>2 DEF Settles
    <2>8. Settled(log[i], d) = Wanted(d)
      BY <2>5, <2>7 DEF Settled, Wanted
    <2> QED
      BY <1>2, <2>6, <2>8
  <1>3. CASE ~\E i \in DOMAIN log : Settles(log[i], d)
    <2>1. Unsettled(d)
      BY <1>1, <1>3 DEF Unsettled
    <2> QED
      BY <1>3, <2>1 DEF CaughtUpInv, KeptInv
  <1> QED
    BY <1>2, <1>3

(* Once the log is read to its end, each address has the rules of who has   *)
(* it now, for any number of devices, files and lines, and however often   *)
(* the process was killed, crashed on a name or a file or lost its power,  *)
(* in the middle of a transaction or not.  Excluded are the failures after  *)
(* which the code itself goes on with a device unserved: a script or a      *)
(* download that fails.                                                    *)
THEOREM CaughtUpIsEnforcedCorrect ==
    ASSUME EventsReported, DownloadsSucceed, FinishSucceeds, RemovalSucceeds, ScriptIsExact,
           AddSucceeds, CreateSucceeds, AnswersFound
    PROVE  OsmudSpec => []CaughtUpIsEnforced
  <1>1. EventsReported /\ DownloadsSucceed /\ FinishSucceeds /\ RemovalSucceeds /\ ScriptIsExact
           /\ AddSucceeds /\ CreateSucceeds /\ AnswersFound =>
             (CaughtUpInv /\ [OsmudNext]_osmudVars => CaughtUpInv')
    BY NextCaughtUp
  <1> QED
    BY <1>1, InitCaughtUp, CaughtUp, PTL DEF OsmudSpec
===============================================================================
