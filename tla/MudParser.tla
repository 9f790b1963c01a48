------------------------------- MODULE MudParser -------------------------------
(***************************************************************************)
(* parseMudFile: one walk over the JSON document of a MUD file, depth      *)
(* first, that fills struct MudFileInfo.  The walk carries a state, which  *)
(* some keys set for the object under them and which all else inherits;    *)
(* what a string is stored as depends on its key, on that state, and on    *)
(* the counters, which always point at the last entry of each array.       *)
(***************************************************************************)
EXTENDS MudDocument

CONSTANTS
    Null,         \* a string that has not been stored
    MaxPolicies,  \* MAX_DEVICE_POLICIES
    MaxAcls,      \* MAX_ACLS
    MaxAces,      \* MAX_ACES
    Documents     \* documents, each with the MUD file it says

ASSUME ParserAssumption ==
    /\ {MaxPolicies, MaxAcls, MaxAces} \subseteq Nat
    /\ Null \notin Val
    /\ \A doc \in Documents :
          IsMudFileInfo(doc.file) /\ doc.text \in Seq(Token) /\ WellNested(doc.text)

VARIABLES
    document,  \* the document, and the file it says
    next,      \* the position of the token the walk is at
    stack,     \* the state of each open object or array, the innermost last
    mfi,       \* the arrays of MudFileInfo, as long as their counters say
    pc         \* "walk", "done", "astray" or "crashed"

vars == <<document, next, stack, mfi, pc>>

State == {"NONE", "IETF_MUD", "FROM_DEVICE_POLICY", "TO_DEVICE_POLICY", "ACL", "ACES"}

AceType == {"UNKNOWN", "ACLDNS", "SAME_MANUFACTURER", "CONTROLLER", "MY_CONTROLLER",
            "LOCAL_NETWORK"}

Stored == Val \cup {Null}

AceEntry == [aceType : AceType, ruleName : Stored, dnsName : Stored, lowerPort : Stored,
             upperPort : Stored, actionsForwarding : Stored]

AclEntry == [aclName : Stored, aceList : Seq(AceEntry)]

(* Nothing is stored outside of the arrays: no counter exceeds its limit. *)
TypeOK ==
    /\ IsMudFileInfo(document.file)
    /\ next \in 1..(Len(document.text) + 1)
    /\ stack \in Seq(State) \ {<<>>}
    /\ mfi.from \in Seq(Stored) /\ Len(mfi.from) <= MaxPolicies
    /\ mfi.to \in Seq(Stored) /\ Len(mfi.to) <= MaxPolicies
    /\ mfi.acls \in Seq(AclEntry) /\ Len(mfi.acls) <= MaxAcls
    /\ \A i \in DOMAIN mfi.acls : Len(mfi.acls[i].aceList) <= MaxAces
    /\ pc \in {"walk", "done", "astray", "crashed"}

(* createMfi *)
BlankAce == [aceType |-> "UNKNOWN", ruleName |-> Null, dnsName |-> Null, lowerPort |-> Null,
             upperPort |-> Null, actionsForwarding |-> Null]

Init ==
    /\ document \in Documents
    /\ next = 1
    /\ stack = <<"NONE">>
    /\ mfi = [from |-> <<>>, to |-> <<>>, acls |-> <<>>]
    /\ pc = "walk"

-----------------------------------------------------------------------------

token == document.text[next]

state == Last(stack)

(* The walk is at a token of a kind, and goes on to the next one. *)
At(kind) ==
    /\ pc = "walk"
    /\ next <= Len(document.text)
    /\ token.is = kind
    /\ next' = next + 1
    /\ UNCHANGED document

(* The entries that the counters point at; before the first there is none.  *)
HasAce == mfi.acls # <<>> /\ Last(mfi.acls).aceList # <<>>

HasEntry(s) ==
    CASE s = "FROM_DEVICE_POLICY" -> mfi.from # <<>>
      [] s = "TO_DEVICE_POLICY"   -> mfi.to # <<>>
      [] s = "ACL"                -> mfi.acls # <<>>
      [] s = "ACES"               -> HasAce
      [] OTHER                    -> TRUE

(* A store into an entry that is not in its array: undefined behaviour, not *)
(* followed any further.                                                   *)
Store(inside, m) ==
    \/ inside /\ mfi' = m /\ pc' = pc
    \/ ~inside /\ mfi' = mfi /\ pc' = "astray"

WithAce(ace) ==
    LET n == Len(mfi.acls)
    IN  [mfi EXCEPT !.acls[n].aceList[Len(mfi.acls[n].aceList)] = ace]

-----------------------------------------------------------------------------
(* process_string *)

Named(s, name) ==
    CASE s = "FROM_DEVICE_POLICY" -> [mfi EXCEPT !.from[Len(mfi.from)] = name]
      [] s = "TO_DEVICE_POLICY"   -> [mfi EXCEPT !.to[Len(mfi.to)] = name]
      [] s = "ACL"                -> [mfi EXCEPT !.acls[Len(mfi.acls)].aclName = name]
      [] s = "ACES"               -> WithAce([Last(Last(mfi.acls).aceList) EXCEPT !.ruleName = name])
      [] OTHER                    -> mfi

(* Mutant: a single port is the lower end of a range only. *)
StoredInAceLower(ace, key, val) ==
    CASE key \in DnsNameKeys -> [ace EXCEPT !.aceType = "ACLDNS", !.dnsName = val]
      [] key \in {"port", "lower-port"} -> [ace EXCEPT !.lowerPort = val]
      [] key = "upper-port"  -> [ace EXCEPT !.upperPort = val]
      [] key = "forwarding"  -> [ace EXCEPT !.actionsForwarding = val]
      [] OTHER               -> ace

StoredInAce(ace, key, val) ==
    CASE key \in DnsNameKeys -> [ace EXCEPT !.aceType = "ACLDNS", !.dnsName = val]
      [] key = "port"        -> [ace EXCEPT !.lowerPort = val, !.upperPort = val]
      [] key = "upper-port"  -> [ace EXCEPT !.upperPort = val]
      [] key = "lower-port"  -> [ace EXCEPT !.lowerPort = val]
      [] key = "forwarding"  -> [ace EXCEPT !.actionsForwarding = val]
      [] OTHER               -> ace

ProcessName ==
    /\ At("string")
    /\ token.key \in NameKeys
    /\ Store(HasEntry(state), Named(state, token.val))
    /\ UNCHANGED stack

(* The type of an ACL is stored but not kept here; an ACE has none. *)
ProcessType ==
    /\ At("string")
    /\ token.key \in TypeKeys
    /\ Store(state = "ACES" \/ HasEntry(state), mfi)
    /\ UNCHANGED stack

(* Whatever the state is, these belong to the last ACE. *)
ProcessAceString ==
    /\ At("string")
    /\ token.key \in AceKeys
    /\ Store(HasAce, WithAce(StoredInAce(Last(Last(mfi.acls).aceList), token.key, token.val)))
    /\ UNCHANGED stack

(* The data of the file as a whole, and keys that osMUD does not know. *)
ProcessOtherString ==
    /\ At("string")
    /\ token.key \notin NameKeys \cup TypeKeys \cup AceKeys
    /\ UNCHANGED <<stack, mfi, pc>>

-----------------------------------------------------------------------------
(* processJson and incrementState *)

(* Mutant: before #99, one name for the container of the ACLs. *)
NewStateOneAlias(key, s) ==
    CASE key = "ietf-mud:mud" -> "IETF_MUD"
      [] key \in {"ietf-access-control-list:acls", "acl"} -> "ACL"
      [] key = "from-device-policy" -> "FROM_DEVICE_POLICY"
      [] key = "to-device-policy"   -> "TO_DEVICE_POLICY"
      [] key = "aces"               -> "ACES"
      [] OTHER                      -> s

NewState(key, s) ==
    CASE key = "ietf-mud:mud" -> "IETF_MUD"
      [] key \in {"ietf-access-control-list:access-lists",
                  "ietf-access-control-list:acls", "acl"} -> "ACL"
      [] key = "from-device-policy" -> "FROM_DEVICE_POLICY"
      [] key = "to-device-policy"   -> "TO_DEVICE_POLICY"
      [] key = "aces"               -> "ACES"
      [] OTHER                      -> s

OpenObject ==
    /\ At("object")
    /\ stack' = Append(stack, NewState(token.key, state))
    /\ UNCHANGED <<mfi, pc>>

(* Returning from the recursive call, or from the loop over an array. *)
Close ==
    /\ At("close")
    /\ stack' = Front(stack)
    /\ UNCHANGED <<mfi, pc>>

TypeOfArray(key) ==
    CASE key = "ietf-mud:same-manufacturer" -> "SAME_MANUFACTURER"
      [] key = "my-controller"              -> "MY_CONTROLLER"
      [] key = "controller"                 -> "CONTROLLER"
      [] key = "ietf-mud:local-networks"    -> "LOCAL_NETWORK"

(* Some arrays say by their key what the ACE is. *)
ArrayMember ==
    IF token.key \in ArrayKeys
    THEN Store(HasAce,
               WithAce([Last(Last(mfi.acls).aceList) EXCEPT !.aceType = TypeOfArray(token.key)]))
    ELSE UNCHANGED <<mfi, pc>>

(* Mutant: the null in an array is walked into. *)
WalkNullArray ==
    /\ At("nulls")
    /\ pc' = "crashed"
    /\ UNCHANGED <<stack, mfi>>

(* An array that prints "[ null ]" has its key looked at and nothing else. *)
SkipNullArray ==
    /\ At("nulls")
    /\ ArrayMember
    /\ UNCHANGED stack

OpenArray ==
    /\ At("array")
    /\ ArrayMember
    /\ stack' = Append(stack, state)

(* Mutant: the limit is exceeded by one. *)
IncrementStateTooFar ==
    CASE state = "FROM_DEVICE_POLICY" ->
            Store(Len(mfi.from) <= MaxPolicies, [mfi EXCEPT !.from = Append(@, Null)])
      [] state = "TO_DEVICE_POLICY" ->
            Store(Len(mfi.to) <= MaxPolicies, [mfi EXCEPT !.to = Append(@, Null)])
      [] state = "ACL" ->
            Store(Len(mfi.acls) <= MaxAcls,
                  [mfi EXCEPT !.acls = Append(@, [aclName |-> Null, aceList |-> <<>>])])
      [] state = "ACES" ->
            Store(mfi.acls # <<>> /\ Len(Last(mfi.acls).aceList) <= MaxAces,
                  [mfi EXCEPT !.acls[Len(mfi.acls)].aceList = Append(@, BlankAce)])
      [] OTHER -> UNCHANGED <<mfi, pc>>

(* The code does not look at the limits: an entry past the end of its array *)
(* is written by the stores that follow, and read and freed in any case.   *)
IncrementState ==
    CASE state = "FROM_DEVICE_POLICY" ->
            Store(Len(mfi.from) < MaxPolicies, [mfi EXCEPT !.from = Append(@, Null)])
      [] state = "TO_DEVICE_POLICY" ->
            Store(Len(mfi.to) < MaxPolicies, [mfi EXCEPT !.to = Append(@, Null)])
      [] state = "ACL" ->
            Store(Len(mfi.acls) < MaxAcls,
                  [mfi EXCEPT !.acls = Append(@, [aclName |-> Null, aceList |-> <<>>])])
      [] state = "ACES" ->
            Store(mfi.acls # <<>> /\ Len(Last(mfi.acls).aceList) < MaxAces,
                  [mfi EXCEPT !.acls[Len(mfi.acls)].aceList = Append(@, BlankAce)])
      [] OTHER -> UNCHANGED <<mfi, pc>>

OpenElement ==
    /\ At("element")
    /\ IncrementState
    /\ stack' = Append(stack, state)

(* json_object_object_foreach on what is not an object follows a NULL; what  *)
(* incrementState counted just before is lost with the process.            *)
CrashOnScalar ==
    /\ At("scalar")
    /\ pc' = "crashed"
    /\ UNCHANGED <<stack, mfi>>

Return ==
    /\ pc = "walk"
    /\ next > Len(document.text)
    /\ pc' = "done"
    /\ UNCHANGED <<document, next, stack, mfi>>

-----------------------------------------------------------------------------

Next ==
    \/ ProcessName \/ ProcessType \/ ProcessAceString \/ ProcessOtherString
    \/ OpenObject \/ OpenArray \/ OpenElement \/ Close
    \/ SkipNullArray \/ CrashOnScalar \/ Return

Spec == Init /\ [][Next]_vars

(* A call that runs goes on. *)
FairSpec == Spec /\ WF_vars(Next)

-----------------------------------------------------------------------------

(* getActionString *)
GetActionString(text) ==
    CASE text = "reject" -> "REJECT" [] text = "accept" -> "ACCEPT" [] OTHER -> "DENY"

SameAce(entry, ace) ==
    /\ (entry.aceType = "ACLDNS") = ace.dns
    /\ ace.dns => entry.dnsName = ace.domain
    /\ (entry.ruleName # Null) = ace.named
    /\ (Null \notin {entry.lowerPort, entry.upperPort}) = ace.ports
    /\ GetActionString(entry.actionsForwarding) = ace.target

SameAcl(entry, f) ==
    /\ HasAcl(f, entry.aclName)
    /\ Len(entry.aceList) = Len(GetMudFileAcl(f, entry.aclName))
    /\ \A j \in DOMAIN entry.aceList :
          SameAce(entry.aceList[j], GetMudFileAcl(f, entry.aclName)[j])

(* Whichever of the known keys a document uses, and in whatever order an    *)
(* object names its members (JSON objects are unordered), the structure    *)
(* the MUD manager is given is the one the document says: no entry lost,   *)
(* split, or filled with a string that belongs to another one.             *)
ParsedIsWritten ==
    pc = "done" =>
        /\ mfi.from = document.file.from
        /\ mfi.to = document.file.to
        /\ Len(mfi.acls) = Cardinality(DOMAIN document.file.acls)
        /\ \A i \in DOMAIN mfi.acls : SameAcl(mfi.acls[i], document.file)
        /\ {mfi.acls[i].aclName : i \in DOMAIN mfi.acls} = DOMAIN document.file.acls

WithinLimits(f) ==
    /\ Len(f.from) <= MaxPolicies
    /\ Len(f.to) <= MaxPolicies
    /\ Cardinality(DOMAIN f.acls) <= MaxAcls
    /\ \A n \in DOMAIN f.acls : Len(f.acls[n]) <= MaxAces

(* The walk stores nothing outside of the arrays, as long as the file has   *)
(* no more entries than they hold.                                         *)
StoresStayInside == pc = "astray" => ~WithinLimits(document.file)

(* A MUD file within the limits comes to be parsed, unless one of its       *)
(* arrays has an element that is not an object, like the leaf-lists of     *)
(* YANG, where the process dies.                                           *)
FileIsParsed ==
    /\ WithinLimits(document.file)
    /\ \A i \in DOMAIN document.text : document.text[i].is # "scalar"
    ~> pc = "done"
===============================================================================
