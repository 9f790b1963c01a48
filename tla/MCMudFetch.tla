------------------------------- MODULE MCMudFetch -------------------------------
(* A small instance of MudFetch for TLC, on the definitions of MCMudManager. *)
EXTENDS MudFetch, MCMudManager

CONSTANTS u1, u2, u3   \* MUD URLs

(* Two sites that give their files the same name, and a URL without extension. *)
ThreeUrls ==
    u1 :> [site |-> "https://a.example/", name |-> "lamp", ext |-> "json"]
    @@ u2 :> [site |-> "https://b.example/", name |-> "lamp", ext |-> "json"]
    @@ u3 :> [site |-> "https://c.example/.well-known/mud/", name |-> "lamp", ext |-> NoExt]

Stems ==
    "https://a.example/" :> [site |-> "https:", name |-> "a"]
    @@ "https://b.example/" :> [site |-> "https:", name |-> "b"]
    @@ "https://c.example/.well-known/mud/" :> [site |-> "https://c.example/", name |-> ""]

File(n, acl) == [from |-> <<acl>>, to |-> <<>>, acls |-> acl :> <<DnsAce(n)>>]

(* The first is published in two versions. *)
Versions ==
    u1 :> <<File(n1, out), File(n2, out)>> @@ u2 :> <<File(n1, in)>> @@ u3 :> <<File(n2, in)>>

VersionFiles == UNION {ToSet(Versions[x]) : x \in {u1, u2, u3}}

(* One device that announces different URLs, and leaves. *)
ManyUrls == { Ev("NEW", d1, m1, x, TRUE) : x \in {u1, u2, u3} }
                \cup { Ev("DEL", d1, m1, u1, TRUE) }
==============================================================================
