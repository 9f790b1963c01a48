------------------------------ MODULE MudDocument ------------------------------
(***************************************************************************)
(* A MUD file as it is written: a JSON document, and what it says in the   *)
(* keys that mudparser.h defines.                                          *)
(*                                                                         *)
(* A document is the sequence of the tokens met on a depth-first walk.  Of *)
(* the strings only those are kept that mud_manager.c reads (module        *)
(* MudFile).                                                               *)
(***************************************************************************)
EXTENDS MudFile, FiniteSets

(***************************************************************************)
(* "string", "object", "array": a member of an object.  "nulls": a member  *)
(* that is the array [null].  "element", "scalar": an element of an array, *)
(* an object or not.  "close": the end of an object or an array.           *)
(***************************************************************************)
Val == AclName \cup Domain \cup STRING

Token == [is : {"string", "object", "array", "nulls", "element", "scalar", "close"},
          key : STRING, val : Val]

(* The tokens that begin and end a call of processJson, or its loop.        *)
Opening(text) == {i \in DOMAIN text : text[i].is \in {"object", "array", "element"}}

Closing(text) == {i \in DOMAIN text : text[i].is = "close"}

NameKeys == {"acl-name", "name", "rule-name"}

TypeKeys == {"acl-type", "type"}

DnsNameKeys == {"ietf-acldns:src-dnsname", "ietf-acldns:dst-dnsname"}

AceKeys == DnsNameKeys \cup {"protocol", "port", "upper-port", "lower-port", "forwarding",
                             "ietf-mud:direction-initiated"}

ArrayKeys == {"ietf-mud:same-manufacturer", "my-controller", "controller",
              "ietf-mud:local-networks"}

-----------------------------------------------------------------------------
(* The tree.  depth[n] is how many objects and arrays are open after n tokens. *)

Count(S, n) == Cardinality(S \cap 1..n)

Depth(text) ==
    [n \in 0..Len(text) |-> Count(Opening(text), n) - Count(Closing(text), n)]

(* On a walk over a tree nothing is left that was not entered.              *)
WellNested(text) == Depth(text) \in [0..Len(text) -> Nat]

(* The token j opens what i is a part of. *)
Encloses(depth, j, i) == j < i /\ \A m \in j..i - 1 : depth[j] <= depth[m]

Inside(depth, j, S) == {i \in S : Encloses(depth, j, i)}

-----------------------------------------------------------------------------
(* What a document says.  Its lists are the arrays in some sections of it.  *)

Section == {"IETF_MUD", "FROM_DEVICE_POLICY", "TO_DEVICE_POLICY", "ACL", "ACES"}

SectionKeys(s) ==
    CASE s = "IETF_MUD"           -> {"ietf-mud:mud"}
      [] s = "FROM_DEVICE_POLICY" -> {"from-device-policy"}
      [] s = "TO_DEVICE_POLICY"   -> {"to-device-policy"}
      [] s = "ACL"                -> {"ietf-access-control-list:access-lists",
                                      "ietf-access-control-list:acls", "acl"}
      [] s = "ACES"               -> {"aces"}

Sections(text) ==
    {j \in DOMAIN text : text[j].is = "object"
                         /\ \E s \in Section : text[j].key \in SectionKeys(s)}

(* The tokens that no section is around more closely than one of these.     *)
In(text, depth, s) ==
    LET S == Sections(text)
    IN  {i \in DOMAIN text :
            \E j \in S : /\ text[j].key \in SectionKeys(s)
                        /\ Encloses(depth, j, i)
                        /\ \A k \in S : Encloses(depth, k, i) => k <= j}

Entries(text, depth, s) == {i \in In(text, depth, s) : text[i].is = "element"}

Strings(text, keys) == {i \in DOMAIN text : text[i].is = "string" /\ text[i].key \in keys}

Names(text, depth, s) == In(text, depth, s) \cap Strings(text, NameKeys)

Arrays(text) == {i \in DOMAIN text : text[i].is \in {"array", "nulls"}
                                     /\ text[i].key \in ArrayKeys}

Vals(text, S) == {text[i].val : i \in S}

(* The entries of a section are not part of one another, and what is named  *)
(* or typed there is an entry.                                             *)
IsList(text, depth, s) ==
    LET E == Entries(text, depth, s)
    IN  /\ \A i, j \in E : ~Encloses(depth, i, j)
        /\ \A i \in In(text, depth, s) \cap Strings(text, NameKeys \cup TypeKeys) :
              \E j \in E : Encloses(depth, j, i)

ListSays(text, depth, s, list) ==
    LET E == Entries(text, depth, s)
        N == Names(text, depth, s)
    IN  /\ Cardinality(E) = Len(list)
        /\ \A j \in E : Vals(text, Inside(depth, j, N)) = {list[Count(E, j)]}

Forwarding(target) ==
    CASE target = "ACCEPT" -> "accept" [] target = "REJECT" -> "reject" [] OTHER -> "drop"

(* An ACE has a name if something in it is named and no section in it is    *)
(* around that; one for a domain name says nothing of a controller or the  *)
(* like.                                                                   *)
AceSays(text, depth, j, ace) ==
    LET has(keys) == Inside(depth, j, Strings(text, keys))
    IN  /\ ace.dns = (has(DnsNameKeys) # {})
        /\ Vals(text, has(DnsNameKeys)) \subseteq {ace.domain}
        /\ ace.dns => Inside(depth, j, Arrays(text)) = {}
        /\ ace.named = (Inside(depth, j, Names(text, depth, "ACES")) # {})
        /\ ace.ports = (has({"port", "lower-port"}) # {} /\ has({"port", "upper-port"}) # {})
        /\ Vals(text, has({"forwarding"})) = {Forwarding(ace.target)}

AclSays(text, depth, A, aces) ==
    /\ Cardinality(A) = Len(aces)
    /\ \A j \in A : AceSays(text, depth, j, aces[Count(A, j)])

(* Each ACL is defined by one entry, with its ACEs inside. *)
AclsSay(text, depth, acls) ==
    LET E == Entries(text, depth, "ACL")
        N == Names(text, depth, "ACL")
        A == Entries(text, depth, "ACES")
    IN  /\ Cardinality(E) = Cardinality(DOMAIN acls)
        /\ {Vals(text, Inside(depth, a, N)) : a \in E} = {{name} : name \in DOMAIN acls}
        /\ \A a \in E, name \in DOMAIN acls :
              name \in Vals(text, Inside(depth, a, N)) =>
                  AclSays(text, depth, Inside(depth, a, A), acls[name])
        /\ \A j \in A : \E a \in E : Encloses(depth, a, j)
        /\ \A i \in Strings(text, AceKeys) \cup Arrays(text) :
              \E j \in A : Encloses(depth, j, i)

Says(text, f) ==
    LET depth == Depth(text)
    IN  /\ depth \in [0..Len(text) -> Nat]
        /\ \A s \in Section \ {"IETF_MUD"} : IsList(text, depth, s)
        /\ ListSays(text, depth, "FROM_DEVICE_POLICY", f.from)
        /\ ListSays(text, depth, "TO_DEVICE_POLICY", f.to)
        /\ AclsSay(text, depth, f.acls)
===============================================================================
