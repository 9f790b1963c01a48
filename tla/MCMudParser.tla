------------------------------ MODULE MCMudParser ------------------------------
(* Documents for MudParser: MUD files, written down in every style the known *)
(* keys allow, and the file of the repository's test directory.             *)
EXTENDS MudParser

CONSTANTS n1, n2, in, out, third

(* JSON, as the tokens of a depth-first walk. *)
Tok(is, key, val) == [is |-> is, key |-> key, val |-> val]

Str(key, val) == <<Tok("string", key, val)>>

Nulls(key) == <<Tok("nulls", key, "")>>

Scalars(key) == <<Tok("array", key, ""), Tok("scalar", "", ""), Tok("close", "", "")>>

Obj(key, members) ==
    <<Tok("object", key, "")>> \o FlattenSeq(members) \o <<Tok("close", "", "")>>

Arr(key, elements) ==
    <<Tok("array", key, "")>>
    \o FlattenSeq([i \in DOMAIN elements |->
           <<Tok("element", "", "")>> \o FlattenSeq(elements[i]) \o <<Tok("close", "", "")>>])
    \o <<Tok("close", "", "")>>

(* The choices a manufacturer has.  "draft": the keys of ieft-draft.json, or *)
(* those of MUDFILE.NEST. *)
Styles == [draft : BOOLEAN, nameLast : BOOLEAN, aclsFirst : BOOLEAN, range : BOOLEAN,
           extensions : {"none", "string", "list"}]

InOrder(last, name, others) == IF last THEN Append(others, name) ELSE <<name>> \o others

Ports(s) ==
    Obj("destination-port",
        IF s.range THEN <<Str("lower-port", "443"), Str("upper-port", "443")>>
                   ELSE <<Str("operator", "eq"), Str("port", "443")>>)

Matches(ace, s) ==
    IF ace.dns
    THEN <<Obj("ipv4", <<Str(IF s.draft THEN "ietf-acldns:src-dnsname"
                                        ELSE "ietf-acldns:dst-dnsname", ace.domain),
                         Str("protocol", "6")>>),
           Obj("tcp", <<Str("ietf-mud:direction-initiated", "from-device")>>
                      \o IF ace.ports THEN <<Ports(s)>> ELSE <<>>)>>
    ELSE IF s.draft THEN <<Obj("ietf-mud:mud", <<Nulls("my-controller")>>)>>
                    ELSE <<Nulls("ietf-mud:same-manufacturer")>>

AceOf(ace, s) ==
    InOrder(s.nameLast,
            IF ace.named THEN Str(IF s.draft THEN "name" ELSE "rule-name", "rule") ELSE <<>>,
            <<Obj("matches", Matches(ace, s)),
              Obj("actions", <<Str("forwarding",
                                   IF ace.target = "ACCEPT" THEN "accept" ELSE "drop")>>)>>)

NameKey(s) == IF s.draft THEN "name" ELSE "acl-name"

AclOf(f, name, s) ==
    InOrder(s.nameLast, Str(NameKey(s), name),
            <<Str(IF s.draft THEN "type" ELSE "acl-type", "ipv4-acl-type"),
              Obj("aces", <<Arr("ace", [j \in DOMAIN f.acls[name] |->
                                           AceOf(f.acls[name][j], s)])>>)>>)

Policy(key, names, s) ==
    Obj(key, <<Obj("access-lists",
        <<Arr("access-list", [i \in DOMAIN names |-> <<Str(NameKey(s), names[i])>>])>>)>>)

Extensions(s) ==
    CASE s.extensions = "none"   -> <<>>
      [] s.extensions = "string" -> Str("extensions", "x")
      [] s.extensions = "list"   -> Scalars("extensions")

Written(f, order, s) ==
    LET mud == Obj("ietf-mud:mud",
                   <<Str("mud-url", "url"), Extensions(s),
                     Policy("from-device-policy", f.from, s),
                     Policy("to-device-policy", f.to, s)>>)
        acls == Obj(IF s.draft THEN "ietf-access-control-list:acls"
                               ELSE "ietf-access-control-list:access-lists",
                    <<Arr("acl", [i \in DOMAIN order |-> AclOf(f, order[i], s)])>>)
    IN  IF s.aclsFirst THEN acls \o mud ELSE mud \o acls

Dns(n) == [dns |-> TRUE, domain |-> n, named |-> TRUE, ports |-> TRUE, target |-> "ACCEPT"]

Controller == [Dns(n1) EXCEPT !.dns = FALSE, !.ports = FALSE]

Nameless(n) == [Dns(n) EXCEPT !.named = FALSE]

Dropped == [Dns(n2) EXCEPT !.target = "DENY"]

(* The first five are within the limits 2, 2 and 2; the others exceed one each. *)
Files ==
    { [from |-> <<out>>, to |-> <<in>>, acls |-> out :> <<Dns(n1)>> @@ in :> <<Dns(n2)>>],
      [from |-> <<out, in>>, to |-> <<>>,
       acls |-> out :> <<Controller, Dns(n1)>> @@ in :> <<Dropped, Dns(n1)>>],
      [from |-> <<>>, to |-> <<in, out>>,
       acls |-> in :> <<Nameless(n1), Controller>> @@ out :> <<>>],
      [from |-> <<out>>, to |-> <<third>>,
       acls |-> out :> <<[Dns(n2) EXCEPT !.ports = FALSE], Nameless(n1)>>],
      [from |-> <<>>, to |-> <<>>, acls |-> <<>>],
      [from |-> <<out, in, third>>, to |-> <<>>, acls |-> out :> <<Dns(n1)>>],
      [from |-> <<>>, to |-> <<in, out, third>>, acls |-> out :> <<Dns(n1)>>],
      [from |-> <<out>>, to |-> <<>>,
       acls |-> in :> <<Dns(n1)>> @@ out :> <<Dns(n1)>> @@ third :> <<Dns(n1)>>],
      [from |-> <<out>>, to |-> <<>>, acls |-> out :> <<Dns(n1), Controller, Dns(n2)>>] }

AllDocuments ==
    UNION { { [file |-> f, text |-> Written(f, order, s)] :
                s \in Styles, order \in SetToSeqs(DOMAIN f.acls) } : f \in Files }

(* test/lightbulb2000.json, its first ACL. *)
LightbulbAcl(name, dnsKey) ==
    << Str("name", name), Str("acl-type", "ipv6-acl-type"),
       Obj("access-list-entries",
           <<Arr("ace",
                 << <<Str("rule-name", "cl0"),
                      Obj("matches",
                          <<Obj("ipv6-acl",
                                <<Str(dnsKey, n1), Str("protocol", "6"),
                                  Obj("source-port-range-or-operator",
                                      <<Str("operator", "eq"), Str("port", "443")>>)>>),
                            Obj("tcp", <<Str("ietf-mud:direction-initiated",
                                             "from-device")>>)>>),
                      Obj("actions", <<Str("forwarding", "accept")>>)>> >>)>>) >>

LightbulbStyle == [draft |-> TRUE, nameLast |-> FALSE, aclsFirst |-> FALSE,
                   range |-> FALSE, extensions |-> "none"]

Lightbulb ==
    [file |-> [from |-> <<out>>, to |-> <<in>>,
               acls |-> in :> <<Dns(n1)>> @@ out :> <<Dns(n1)>>],
     text |->
        Obj("ietf-mud:mud",
            <<Str("mud-version", "1"), Str("mud-url", "url"),
              Policy("from-device-policy", <<out>>, LightbulbStyle),
              Policy("to-device-policy", <<in>>, LightbulbStyle)>>)
        \o Obj("ietf-access-control-list:access-lists",
               <<Arr("acl", <<LightbulbAcl(in, "ietf-acldns:src-dnsname"),
                              LightbulbAcl(out, "ietf-acldns:dst-dnsname")>>)>>)]

TestDocument == {Lightbulb}

(* The styles are ways of saying the same, in the known keys.  The test file *)
(* names its ACEs with another one.                                        *)
ASSUME StylesAssumption ==
    /\ \A doc \in AllDocuments : Says(doc.text, doc.file)
    /\ \A doc \in TestDocument : ~Says(doc.text, doc.file)

OneAnswer == n1 :> {<<>>} @@ n2 :> {<<>>}

NoRules == <<>>

NoFiles == {}

ExactPattern == [d \in DeviceIp |-> {d}]
===============================================================================
