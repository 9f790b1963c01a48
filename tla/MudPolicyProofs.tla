---------------------------- MODULE MudPolicyProofs ----------------------------
(***************************************************************************)
(* MudManager implements DevicePolicy: whatever the files, devices, names  *)
(* and answers, the rules enforced for a device change from none to those  *)
(* of one complete file and back, in one step, device by device.           *)
(*                                                                         *)
(* The argument follows a file through the three loops of the handler.     *)
(* DevicePolicy flattens the DNS entries of a file, and the rules of the   *)
(* entries, in one go; the handler takes them one by one.  In between, the *)
(* entries done and those still to do make up the entries of the file, and *)
(* the staged rules of the device are what the entries done come to with   *)
(* some answer for each (Progress).  A file that cannot be put into force  *)
(* is one where the loops meet what makes them fail, so whatever reaches   *)
(* the end without a failure is the whole of a file.                       *)
(***************************************************************************)
EXTENDS MudManagerProofs

(* getaddrinfo succeeds only with a list of at least one address, which the *)
(* loop at mud_manager.c:390 copies.  With none, the handler would not      *)
(* notice that an entry lacks its name or its ports.                       *)
AnswersFound == \A n \in Domain : <<>> \notin Answers[n]

-----------------------------------------------------------------------------

(* Lemmas on the flattened entries of a file, one element at a time. *)

DnsEntry == [dir : {"from", "to"}, ace : Ace]

(* DevicePolicy has the library's operators under names of its own. *)
LEMMA SameFlattenSeq ==
    ASSUME NEW ss
    PROVE  Policy!FlattenSeq(ss) = FlattenSeq(ss)
  BY DEF Policy!FlattenSeq, FlattenSeq

(* The sequences that EntriesOfAces and EntriesOfLists flatten. *)
AceEntries(dir, acl) ==
    [j \in DOMAIN acl |-> IF acl[j].dns THEN <<[dir |-> dir, ace |-> acl[j]]>> ELSE <<>>]

ListEntries(f, lists) ==
    [i \in DOMAIN lists |->
        Policy!EntriesOfAces(lists[i].dir, GetMudFileAcl(f, lists[i].acl))]

LEMMA FlattenedEntries ==
    ASSUME NEW dir, NEW acl, NEW f, NEW lists
    PROVE  /\ Policy!EntriesOfAces(dir, acl) = FlattenSeq(AceEntries(dir, acl))
           /\ Policy!EntriesOfLists(f, lists) = FlattenSeq(ListEntries(f, lists))
  BY SameFlattenSeq DEF Policy!EntriesOfAces, Policy!EntriesOfLists, AceEntries, ListEntries,
                        Policy!GetMudFileAcl, GetMudFileAcl

LEMMA AceEntriesType ==
    ASSUME NEW dir \in {"from", "to"}, NEW acl \in Seq(Ace)
    PROVE  /\ AceEntries(dir, acl) \in Seq(Seq(DnsEntry))
           /\ Policy!EntriesOfAces(dir, acl) \in Seq(DnsEntry)
  <1>1. DOMAIN acl = 1..Len(acl) /\ Len(acl) \in Nat /\ \A j \in 1..Len(acl) : acl[j] \in Ace
    BY LenProperties, ElementOfSeq
  <1>2. ASSUME NEW j \in 1..Len(acl)
        PROVE  (IF acl[j].dns THEN <<[dir |-> dir, ace |-> acl[j]]>> ELSE <<>>) \in Seq(DnsEntry)
    <2>1. [dir |-> dir, ace |-> acl[j]] \in DnsEntry
      BY <1>1 DEF DnsEntry
    <2> QED
      BY <2>1, EmptySeq
  <1>3. AceEntries(dir, acl) \in Seq(Seq(DnsEntry))
    BY <1>1, <1>2, IsASeq DEF AceEntries
  <1> QED
    BY <1>3, FlattenSeqType, FlattenedEntries

LEMMA EntriesOfNothing ==
    ASSUME NEW dir, NEW f
    PROVE  Policy!EntriesOfAces(dir, <<>>) = <<>> /\ Policy!EntriesOfLists(f, <<>>) = <<>>
  <1>1. AceEntries(dir, <<>>) = <<>> /\ ListEntries(f, <<>>) = <<>>
    BY DEF AceEntries, ListEntries
  <1> QED
    BY <1>1, FlattenSeqEmpty, FlattenedEntries

(* A sequence whose elements after the first are those of another. *)
LEMMA FlattenSeqFirst ==
    ASSUME NEW S, NEW ss \in Seq(Seq(S)), NEW tt \in Seq(Seq(S)),
           Len(ss) > 0, Len(tt) = Len(ss) - 1, \A i \in 1..Len(ss) - 1 : tt[i] = ss[i + 1]
    PROVE  FlattenSeq(ss) = ss[1] \o FlattenSeq(tt)
  <1>1. ss # <<>> /\ Len(ss) \in Nat
    BY EmptySeq, LenProperties
  <1>2. /\ Tail(ss) \in Seq(Seq(S)) /\ Len(Tail(ss)) = Len(ss) - 1
        /\ \A i \in 1..Len(ss) - 1 : Tail(ss)[i] = ss[i + 1]
        /\ Head(ss) = ss[1]
    BY <1>1, HeadTailProperties
  <1>3. Tail(ss) = tt
    BY <1>1, <1>2, SeqEqual
  <1> QED
    BY <1>1, <1>2, <1>3, FlattenSeqCons

(* The entries of the first ACE come before those of the others ... *)
LEMMA EntriesOfAcesCons ==
    ASSUME NEW dir \in {"from", "to"}, NEW acl \in Seq(Ace), acl # <<>>
    PROVE  Policy!EntriesOfAces(dir, acl)
             = (IF Head(acl).dns THEN <<[dir |-> dir, ace |-> Head(acl)]>> ELSE <<>>)
                 \o Policy!EntriesOfAces(dir, Tail(acl))
  <1>1. Tail(acl) \in Seq(Ace) /\ AceEntries(dir, acl) \in Seq(Seq(DnsEntry))
        /\ AceEntries(dir, Tail(acl)) \in Seq(Seq(DnsEntry))
    BY HeadTailProperties, AceEntriesType
  <1>2. /\ Len(acl) \in Nat /\ Len(acl) > 0 /\ Len(Tail(acl)) = Len(acl) - 1
        /\ DOMAIN acl = 1..Len(acl) /\ DOMAIN Tail(acl) = 1..Len(acl) - 1
        /\ Head(acl) = acl[1] /\ \A i \in 1..Len(acl) - 1 : Tail(acl)[i] = acl[i + 1]
    BY <1>1, HeadTailProperties, EmptySeq, LenProperties
  <1>3. /\ Len(AceEntries(dir, acl)) = Len(acl)
        /\ Len(AceEntries(dir, Tail(acl))) = Len(acl) - 1
    BY <1>2 DEF AceEntries
  <1>4. AceEntries(dir, acl)[1]
          = IF Head(acl).dns THEN <<[dir |-> dir, ace |-> Head(acl)]>> ELSE <<>>
    BY <1>2 DEF AceEntries
  <1>5. \A i \in 1..Len(acl) - 1 : AceEntries(dir, Tail(acl))[i] = AceEntries(dir, acl)[i + 1]
    <2> SUFFICES ASSUME NEW i \in 1..Len(acl) - 1
                 PROVE  AceEntries(dir, Tail(acl))[i] = AceEntries(dir, acl)[i + 1]
      OBVIOUS
    <2>1. i + 1 \in DOMAIN acl /\ i \in DOMAIN Tail(acl) /\ Tail(acl)[i] = acl[i + 1]
      BY <1>2
    <2> QED
      BY <2>1 DEF AceEntries
  <1>6. FlattenSeq(AceEntries(dir, acl))
          = AceEntries(dir, acl)[1] \o FlattenSeq(AceEntries(dir, Tail(acl)))
    BY <1>1, <1>2, <1>3, <1>5, FlattenSeqFirst
  <1> QED
    BY <1>4, <1>6, FlattenedEntries

LEMMA ListEntriesType ==
    ASSUME NEW f \in MudFiles, NEW lists \in Seq(AccessList),
           \A i \in DOMAIN lists : HasAcl(f, lists[i].acl)
    PROVE  /\ ListEntries(f, lists) \in Seq(Seq(DnsEntry))
           /\ Policy!EntriesOfLists(f, lists) \in Seq(DnsEntry)
  <1>1. /\ DOMAIN lists = 1..Len(lists) /\ Len(lists) \in Nat
        /\ \A i \in 1..Len(lists) : lists[i] \in AccessList
    BY LenProperties, ElementOfSeq
  <1>2. ASSUME NEW i \in 1..Len(lists)
        PROVE  Policy!EntriesOfAces(lists[i].dir, GetMudFileAcl(f, lists[i].acl)) \in Seq(DnsEntry)
    <2>1. lists[i].dir \in {"from", "to"} /\ GetMudFileAcl(f, lists[i].acl) \in Seq(Ace)
      BY <1>1, AclType DEF AccessList
    <2> QED
      BY <2>1, AceEntriesType
  <1>3. ListEntries(f, lists) \in Seq(Seq(DnsEntry))
    BY <1>1, <1>2, IsASeq DEF ListEntries
  <1> QED
    BY <1>3, FlattenSeqType, FlattenedEntries

(* ... and those of the first access list before those of the others. *)
LEMMA EntriesOfListsCons ==
    ASSUME NEW f \in MudFiles, NEW lists \in Seq(AccessList), lists # <<>>,
           \A i \in DOMAIN lists : HasAcl(f, lists[i].acl)
    PROVE  Policy!EntriesOfLists(f, lists)
             = Policy!EntriesOfAces(Head(lists).dir, GetMudFileAcl(f, Head(lists).acl))
                 \o Policy!EntriesOfLists(f, Tail(lists))
  <1>1. /\ Len(lists) \in Nat /\ Len(lists) > 0 /\ Len(Tail(lists)) = Len(lists) - 1
        /\ DOMAIN lists = 1..Len(lists) /\ DOMAIN Tail(lists) = 1..Len(lists) - 1
        /\ Head(lists) = lists[1] /\ \A i \in 1..Len(lists) - 1 : Tail(lists)[i] = lists[i + 1]
        /\ Tail(lists) \in Seq(AccessList)
    BY HeadTailProperties, EmptySeq, LenProperties
  <1>2. \A i \in DOMAIN Tail(lists) : HasAcl(f, Tail(lists)[i].acl)
    BY HeadTailElements
  <1>3. /\ ListEntries(f, lists) \in Seq(Seq(DnsEntry))
        /\ ListEntries(f, Tail(lists)) \in Seq(Seq(DnsEntry))
    BY <1>1, <1>2, ListEntriesType
  <1>4. /\ Len(ListEntries(f, lists)) = Len(lists)
        /\ Len(ListEntries(f, Tail(lists))) = Len(lists) - 1
    BY <1>1 DEF ListEntries
  <1>5. ListEntries(f, lists)[1]
          = Policy!EntriesOfAces(Head(lists).dir, GetMudFileAcl(f, Head(lists).acl))
    BY <1>1 DEF ListEntries
  <1>6. \A i \in 1..Len(lists) - 1 : ListEntries(f, Tail(lists))[i] = ListEntries(f, lists)[i + 1]
    <2> SUFFICES ASSUME NEW i \in 1..Len(lists) - 1
                 PROVE  ListEntries(f, Tail(lists))[i] = ListEntries(f, lists)[i + 1]
      OBVIOUS
    <2>1. i + 1 \in DOMAIN lists /\ i \in DOMAIN Tail(lists) /\ Tail(lists)[i] = lists[i + 1]
      BY <1>1
    <2> QED
      BY <2>1 DEF ListEntries
  <1>7. FlattenSeq(ListEntries(f, lists))
          = ListEntries(f, lists)[1] \o FlattenSeq(ListEntries(f, Tail(lists)))
    BY <1>1, <1>3, <1>4, <1>6, FlattenSeqFirst
  <1> QED
    BY <1>5, <1>7, FlattenedEntries

-----------------------------------------------------------------------------
(* Possible(d, done): the rules that the entries done may have come to. *)

Possible(d, done) ==
    { Policy!RulesWith(d, done, a) : a \in Policy!Resolutions(done) }

EntryRules(d, done, a) == [i \in DOMAIN done |-> Policy!RulesFor(d, done[i], a[i])]

(* One rule per address, in the order of the addresses. *)
LEMMA RulesForElements ==
    ASSUME NEW d \in DeviceIp, NEW x \in DnsEntry, NEW addresses \in Seq(RemoteIp)
    PROVE  /\ Policy!RulesFor(d, x, addresses) \in Seq(Rule)
           /\ Len(Policy!RulesFor(d, x, addresses)) = Len(addresses)
           /\ \A j \in 1..Len(addresses) :
                 Policy!RulesFor(d, x, addresses)[j] = RuleFor(x.dir, x.ace, d, addresses[j])
  <1>1. /\ DOMAIN addresses = 1..Len(addresses) /\ Len(addresses) \in Nat
        /\ \A j \in 1..Len(addresses) : addresses[j] \in RemoteIp
    BY LenProperties, ElementOfSeq
  <1>2. x.ace \in Ace
    BY DEF DnsEntry
  <1>3. \A e, r : Policy!RuleFor(x.dir, x.ace, e, r) = RuleFor(x.dir, x.ace, e, r)
    BY DEF Policy!RuleFor, RuleFor
  <1>4. \A j \in 1..Len(addresses) : RuleFor(x.dir, x.ace, d, addresses[j]) \in Rule
    BY <1>1, <1>2, RuleForType
  <1>5. Policy!RulesFor(d, x, addresses)
          = [j \in 1..Len(addresses) |-> RuleFor(x.dir, x.ace, d, addresses[j])]
    BY <1>1, <1>3 DEF Policy!RulesFor
  <1>6. Policy!RulesFor(d, x, addresses) \in Seq(Rule)
    BY <1>1, <1>4, <1>5, IsASeq
  <1> QED
    BY <1>1, <1>5, <1>6

(* Concatenations, regrouped: the element at the front of the rest is moved *)
(* to the end of what comes before it.                                     *)
LEMMA ConcatRest ==
    ASSUME NEW S, NEW s \in Seq(S), NEW t \in Seq(S), t # <<>>
    PROVE  Append(s, Head(t)) \o Tail(t) = s \o t
  <1>1. PICK one : one = <<Head(t)>>
    OBVIOUS
  <1>2. Head(t) \in S /\ Tail(t) \in Seq(S) /\ one \in Seq(S)
    BY <1>1, HeadTailProperties
  <1>3. t = one \o Tail(t)
    BY <1>1, HeadTailProperties
  <1>4. Append(s, Head(t)) = s \o one
    BY <1>1, <1>2, AppendIsConcat
  <1>5. (s \o one) \o Tail(t) = s \o (one \o Tail(t))
    BY <1>2, ConcatAssociative
  <1> QED
    BY <1>3, <1>4, <1>5

LEMMA AppendConcat ==
    ASSUME NEW S, NEW s \in Seq(S), NEW x \in S, NEW t \in Seq(S), NEW u \in Seq(S)
    PROVE  Append(s, x) \o (t \o u) = s \o ((<<x>> \o t) \o u)
  <1>1. PICK one, both : one = <<x>> /\ both = t \o u
    OBVIOUS
  <1>2. one \in Seq(S)
    BY <1>1
  <1>3. Append(s, x) = s \o one
    BY <1>1, AppendIsConcat
  <1>4. (one \o t) \o u = one \o (t \o u)
    BY <1>2, ConcatAssociative
  <1>5. both \in Seq(S)
    BY <1>1, ConcatProperties
  <1>6. (s \o one) \o both = s \o (one \o both)
    BY <1>2, <1>5, ConcatAssociative
  <1> QED
    BY <1>1, <1>3, <1>4, <1>6

(* Installing the rule of the first address. *)
LEMMA RulesForTail ==
    ASSUME NEW d \in DeviceIp, NEW x \in DnsEntry, NEW addresses \in Seq(RemoteIp),
           addresses # <<>>, NEW rules \in Seq(Rule)
    PROVE  Append(rules, RuleFor(x.dir, x.ace, d, Head(addresses)))
              \o Policy!RulesFor(d, x, Tail(addresses))
             = rules \o Policy!RulesFor(d, x, addresses)
  <1> DEFINE new == Policy!RulesFor(d, x, Tail(addresses))
             old == Policy!RulesFor(d, x, addresses)
  <1>1. /\ Len(addresses) \in Nat /\ Len(addresses) > 0
        /\ Tail(addresses) \in Seq(RemoteIp) /\ Len(Tail(addresses)) = Len(addresses) - 1
        /\ Head(addresses) = addresses[1]
        /\ \A i \in 1..Len(addresses) - 1 : Tail(addresses)[i] = addresses[i + 1]
    BY HeadTailProperties, EmptySeq, LenProperties
  <1>2. /\ old \in Seq(Rule) /\ Len(old) = Len(addresses)
        /\ \A j \in 1..Len(addresses) : old[j] = RuleFor(x.dir, x.ace, d, addresses[j])
    BY RulesForElements
  <1>3. /\ new \in Seq(Rule) /\ Len(new) = Len(addresses) - 1
        /\ \A j \in 1..Len(addresses) - 1 :
              new[j] = RuleFor(x.dir, x.ace, d, Tail(addresses)[j])
    BY <1>1, RulesForElements
  <1> HIDE DEF new, old
  <1>4. \A j \in 1..Len(addresses) - 1 : new[j] = old[j + 1]
    BY <1>1, <1>2, <1>3
  <1>5. /\ old # <<>> /\ Head(old) = old[1]
        /\ Tail(old) \in Seq(Rule) /\ Len(Tail(old)) = Len(addresses) - 1
        /\ \A j \in 1..Len(addresses) - 1 : Tail(old)[j] = old[j + 1]
    BY <1>1, <1>2, HeadTailProperties, EmptySeq
  <1>6. Tail(old) = new
    BY <1>3, <1>4, <1>5, SeqEqual
  <1>7. Head(old) = RuleFor(x.dir, x.ace, d, Head(addresses))
    BY <1>1, <1>2, <1>5
  <1>8. Append(rules, Head(old)) \o Tail(old) = rules \o old
    BY <1>2, <1>5, ConcatRest
  <1> QED
    BY <1>6, <1>7, <1>8 DEF new, old

LEMMA FlattenedRules ==
    ASSUME NEW d, NEW done, NEW a
    PROVE  Policy!RulesWith(d, done, a) = FlattenSeq(EntryRules(d, done, a))
  BY SameFlattenSeq DEF Policy!RulesWith, EntryRules

LEMMA AnswersType ==
    ASSUME NEW x \in DnsEntry, NEW ans \in Answers[x.ace.domain]
    PROVE  ans \in Seq(RemoteIp)
  BY MudFileAssumption DEF DnsEntry, Ace

LEMMA EntryRulesType ==
    ASSUME NEW d \in DeviceIp, NEW done \in Seq(DnsEntry), NEW a \in Policy!Resolutions(done)
    PROVE  EntryRules(d, done, a) \in Seq(Seq(Rule)) /\ Len(EntryRules(d, done, a)) = Len(done)
  <1>1. /\ DOMAIN done = 1..Len(done) /\ Len(done) \in Nat
        /\ \A i \in 1..Len(done) : done[i] \in DnsEntry
    BY LenProperties, ElementOfSeq
  <1>2. \A i \in 1..Len(done) : a[i] \in Answers[done[i].ace.domain]
    BY DEF Policy!Resolutions
  <1>3. \A i \in 1..Len(done) : a[i] \in Seq(RemoteIp)
    BY <1>1, <1>2, AnswersType
  <1>4. \A i \in 1..Len(done) : Policy!RulesFor(d, done[i], a[i]) \in Seq(Rule)
    BY <1>1, <1>3, RulesForElements
  <1> QED
    BY <1>1, <1>4, IsASeq DEF EntryRules

LEMMA PossibleType ==
    ASSUME NEW d \in DeviceIp, NEW done \in Seq(DnsEntry), NEW rules \in Possible(d, done)
    PROVE  rules \in Seq(Rule)
  <1>1. PICK a \in Policy!Resolutions(done) : rules = Policy!RulesWith(d, done, a)
    BY DEF Possible
  <1> QED
    BY <1>1, EntryRulesType, FlattenSeqType, FlattenedRules

LEMMA NothingPossible ==
    ASSUME NEW d
    PROVE  <<>> \in Possible(d, <<>>)
  <1>1. <<>> \in Policy!Resolutions(<<>>)
    BY DEF Policy!Resolutions
  <1>2. EntryRules(d, <<>>, <<>>) = <<>>
    BY DEF EntryRules
  <1>3. Policy!RulesWith(d, <<>>, <<>>) = <<>>
    BY <1>2, FlattenedRules, FlattenSeqEmpty
  <1> QED
    BY <1>1, <1>3 DEF Possible

(* One entry more, with one of the answers it may have. *)
LEMMA PossibleAppend ==
    ASSUME NEW d \in DeviceIp, NEW done \in Seq(DnsEntry), NEW rules \in Possible(d, done),
           NEW x \in DnsEntry, NEW ans \in Answers[x.ace.domain]
    PROVE  rules \o Policy!RulesFor(d, x, ans) \in Possible(d, Append(done, x))
  <1>1. PICK a \in Policy!Resolutions(done) : rules = Policy!RulesWith(d, done, a)
    BY DEF Possible
  <1> DEFINE n == Len(done)
             more == Append(done, x)
             b == [i \in 1..n + 1 |-> IF i = n + 1 THEN ans ELSE a[i]]
  <1>2. /\ n \in Nat /\ more \in Seq(DnsEntry) /\ Len(more) = n + 1 /\ more[n + 1] = x
        /\ \A i \in 1..n : more[i] = done[i]
        /\ DOMAIN done = 1..n /\ DOMAIN more = 1..n + 1
    BY AppendProperties, LenProperties
  <1>3. /\ a \in [1..n -> UNION {Answers[m] : m \in Domain}]
        /\ \A i \in 1..n : a[i] \in Answers[done[i].ace.domain]
    BY DEF Policy!Resolutions
  <1>4. \A i \in 1..n : b[i] = a[i] /\ i # n + 1
    BY <1>2
  <1>5. b[n + 1] = ans
    BY <1>2
  <1>6. b \in Policy!Resolutions(more)
    <2>1. ans \in UNION {Answers[m] : m \in Domain}
      BY DEF DnsEntry, Ace
    <2>2. \A i \in 1..n + 1 : i \in 1..n \/ i = n + 1
      BY <1>2
    <2>3. b \in [1..n + 1 -> UNION {Answers[m] : m \in Domain}]
      BY <1>3, <2>1, <2>2
    <2>4. \A i \in 1..n + 1 : b[i] \in Answers[more[i].ace.domain]
      BY <1>2, <1>3, <1>4, <1>5, <2>2
    <2> HIDE DEF b
    <2> QED
      BY <1>2, <2>3, <2>4 DEF Policy!Resolutions
  <1> HIDE DEF b
  <1>7. /\ EntryRules(d, done, a) \in Seq(Seq(Rule)) /\ Len(EntryRules(d, done, a)) = n
        /\ EntryRules(d, more, b) \in Seq(Seq(Rule)) /\ Len(EntryRules(d, more, b)) = n + 1
    BY <1>2, <1>6, EntryRulesType
  <1>8. Policy!RulesFor(d, x, ans) \in Seq(Rule)
    BY AnswersType, RulesForElements
  <1>9. EntryRules(d, more, b) = Append(EntryRules(d, done, a), Policy!RulesFor(d, x, ans))
    <2> DEFINE longer == Append(EntryRules(d, done, a), Policy!RulesFor(d, x, ans))
    <2>1. /\ longer \in Seq(Seq(Rule)) /\ Len(longer) = n + 1
          /\ longer[n + 1] = Policy!RulesFor(d, x, ans)
          /\ \A i \in 1..n : longer[i] = EntryRules(d, done, a)[i]
      BY <1>7, <1>8, AppendProperties
    <2>2. \A i \in 1..n : EntryRules(d, more, b)[i] = EntryRules(d, done, a)[i]
      BY <1>2, <1>4 DEF EntryRules
    <2>3. EntryRules(d, more, b)[n + 1] = Policy!RulesFor(d, x, ans)
      BY <1>2, <1>5 DEF EntryRules
    <2>4. \A i \in 1..n + 1 : i \in 1..n \/ i = n + 1
      BY <1>2
    <2> HIDE DEF longer
    <2>5. EntryRules(d, more, b) = longer
      BY <1>7, <2>1, <2>2, <2>3, <2>4, SeqEqual
    <2> QED
      BY <2>5 DEF longer
  <1>10. Policy!RulesWith(d, more, b) = rules \o Policy!RulesFor(d, x, ans)
    BY <1>1, <1>7, <1>8, <1>9, FlattenSeqAppend, FlattenedRules
  <1> QED
    BY <1>6, <1>10 DEF Possible

-----------------------------------------------------------------------------
(* Progress(f, d, rest, rules): what is done of a file are the DNS entries  *)
(* before the rest, and the rules of the device are what they came to.     *)

Progress(f, d, rest, rules) ==
    /\ Policy!Enforceable(f)
    /\ \E done \in Seq(DnsEntry) :
          /\ done \o rest = Policy!DnsEntries(f)
          /\ rules \in Possible(d, done)

(* The four stages.  Each says that what the loops have still to do and the  *)
(* rules there are come to a whole file, provided the loops will not fail.  *)

AllAces(acl) == \A j \in DOMAIN acl : Complete(acl[j])

AtAccessList(f, d, lists, rules) ==
    AllComplete(f, lists) => Progress(f, d, Policy!EntriesOfLists(f, lists), rules)

AtAce(f, d, lists, acl, rules) ==
    AllComplete(f, Tail(lists)) /\ AllAces(acl) =>
        Progress(f, d,
                 Policy!EntriesOfAces(Head(lists).dir, acl)
                    \o Policy!EntriesOfLists(f, Tail(lists)),
                 rules)

AtInstall(f, d, lists, acl, addresses, rules) ==
    /\ Head(acl).dns
    /\ AllComplete(f, Tail(lists)) /\ AllAces(Tail(acl))
          /\ (addresses # <<>> => Installable(Head(acl))) =>
          Progress(f, d,
                   Policy!EntriesOfAces(Head(lists).dir, Tail(acl))
                      \o Policy!EntriesOfLists(f, Tail(lists)),
                   rules \o Policy!RulesFor(d, [dir |-> Head(lists).dir, ace |-> Head(acl)],
                                            addresses))

AtFinish(d, rules) ==
    \E f \in MudFiles : Policy!Enforceable(f) /\ rules \in Policy!PoliciesOf(f, d)

LEMMA CompleteHasAcl ==
    ASSUME NEW f, NEW lists, AllComplete(f, lists)
    PROVE  \A i \in DOMAIN lists : HasAcl(f, lists[i].acl)
  BY DEF AllComplete, CompleteAcl

(* What takes the handler from each stage to the next. *)

LEMMA StartFile ==
    ASSUME NEW f \in MudFiles, NEW d
    PROVE  AtAccessList(f, d, AccessLists(f), <<>>)
  <1> SUFFICES ASSUME AllComplete(f, AccessLists(f))
               PROVE  Progress(f, d, Policy!EntriesOfLists(f, AccessLists(f)), <<>>)
    BY DEF AtAccessList
  <1>1. Policy!EntriesOfLists(f, AccessLists(f)) \in Seq(DnsEntry)
    BY AccessListsType, CompleteHasAcl, ListEntriesType
  <1>2. Policy!DnsEntries(f) = Policy!EntriesOfLists(f, AccessLists(f))
    BY DEF Policy!DnsEntries, Policy!AccessLists, AccessLists
  <1>3. <<>> \o Policy!EntriesOfLists(f, AccessLists(f)) = Policy!DnsEntries(f)
    BY <1>1, <1>2, ConcatEmptySeq
  <1>4. <<>> \in Seq(DnsEntry) /\ <<>> \in Possible(d, <<>>)
    BY EmptySeq, NothingPossible
  <1> QED
    BY <1>3, <1>4, EnforceableFile DEF Progress

LEMMA EnterAclStage ==
    ASSUME NEW f \in MudFiles, NEW d, NEW lists \in Seq(AccessList), lists # <<>>,
           NEW rules, HasAcl(f, Head(lists).acl), AtAccessList(f, d, lists, rules)
    PROVE  AtAce(f, d, lists, GetMudFileAcl(f, Head(lists).acl), rules)
  <1> SUFFICES ASSUME AllComplete(f, Tail(lists)), AllAces(GetMudFileAcl(f, Head(lists).acl))
               PROVE  Progress(f, d,
                         Policy!EntriesOfAces(Head(lists).dir, GetMudFileAcl(f, Head(lists).acl))
                            \o Policy!EntriesOfLists(f, Tail(lists)), rules)
    BY DEF AtAce
  <1>1. AllComplete(f, lists)
    <2>1. CompleteAcl(f, Head(lists).acl)
      BY DEF CompleteAcl, AllAces
    <2>2. \A i \in DOMAIN lists : i = 1 \/ (i - 1 \in DOMAIN Tail(lists) /\ Tail(lists)[i - 1] = lists[i])
      BY HeadTailProperties, EmptySeq, LenProperties
    <2>3. Head(lists) = lists[1]
      BY HeadTailElements
    <2> QED
      BY <2>1, <2>2, <2>3 DEF AllComplete
  <1>2. Progress(f, d, Policy!EntriesOfLists(f, lists), rules)
    BY <1>1 DEF AtAccessList
  <1> QED
    BY <1>1, <1>2, CompleteHasAcl, EntriesOfListsCons

LEMMA LeaveAclStage ==
    ASSUME NEW f \in MudFiles, NEW d, NEW lists \in Seq(AccessList), lists # <<>>,
           NEW rules, AtAce(f, d, lists, <<>>, rules)
    PROVE  AtAccessList(f, d, Tail(lists), rules)
  <1> SUFFICES ASSUME AllComplete(f, Tail(lists))
               PROVE  Progress(f, d, Policy!EntriesOfLists(f, Tail(lists)), rules)
    BY DEF AtAccessList
  <1>1. AllAces(<<>>)
    BY DEF AllAces
  <1>2. Policy!EntriesOfLists(f, Tail(lists)) \in Seq(DnsEntry)
    BY HeadTailType, CompleteHasAcl, ListEntriesType
  <1>3. Policy!EntriesOfAces(Head(lists).dir, <<>>) = <<>>
    BY EntriesOfNothing
  <1>4. Progress(f, d, Policy!EntriesOfAces(Head(lists).dir, <<>>)
                          \o Policy!EntriesOfLists(f, Tail(lists)), rules)
    BY <1>1 DEF AtAce
  <1> QED
    BY <1>2, <1>3, <1>4, ConcatEmptySeq

LEMMA SkipAceStage ==
    ASSUME NEW f, NEW d, NEW lists \in Seq(AccessList), lists # <<>>, NEW rules,
           NEW acl \in Seq(Ace), acl # <<>>, ~Head(acl).dns, AtAce(f, d, lists, acl, rules)
    PROVE  AtAce(f, d, lists, Tail(acl), rules)
  <1> SUFFICES ASSUME AllComplete(f, Tail(lists)), AllAces(Tail(acl))
               PROVE  Progress(f, d, Policy!EntriesOfAces(Head(lists).dir, Tail(acl))
                                        \o Policy!EntriesOfLists(f, Tail(lists)), rules)
    BY DEF AtAce
  <1>1. Head(lists).dir \in {"from", "to"} /\ Tail(acl) \in Seq(Ace)
    <2>1. Head(lists) \in AccessList /\ Tail(acl) \in Seq(Ace)
      BY HeadTailType
    <2> QED
      BY <2>1 DEF AccessList
  <1>2. Policy!EntriesOfAces(Head(lists).dir, acl) = <<>> \o Policy!EntriesOfAces(Head(lists).dir, Tail(acl))
    BY <1>1, EntriesOfAcesCons
  <1>3. Policy!EntriesOfAces(Head(lists).dir, acl) = Policy!EntriesOfAces(Head(lists).dir, Tail(acl))
    BY <1>1, <1>2, AceEntriesType, ConcatEmptySeq
  <1>4. AllAces(acl)
    <2>1. \A j \in DOMAIN acl : j = 1 \/ (j - 1 \in DOMAIN Tail(acl) /\ Tail(acl)[j - 1] = acl[j])
      BY HeadTailProperties, EmptySeq, LenProperties
    <2>2. Complete(acl[1])
      BY HeadTailElements DEF Complete
    <2> QED
      BY <2>1, <2>2 DEF AllAces
  <1> QED
    BY <1>3, <1>4 DEF AtAce

(* The first of the entries still to do is done, with one of its answers. *)
LEMMA ProgressEntry ==
    ASSUME NEW f, NEW d \in DeviceIp, NEW x \in DnsEntry, NEW others \in Seq(DnsEntry),
           NEW later \in Seq(DnsEntry), NEW rules, NEW ans \in Answers[x.ace.domain],
           Progress(f, d, (<<x>> \o others) \o later, rules)
    PROVE  Progress(f, d, others \o later, rules \o Policy!RulesFor(d, x, ans))
  <1>1. PICK done \in Seq(DnsEntry) :
           /\ done \o ((<<x>> \o others) \o later) = Policy!DnsEntries(f)
           /\ rules \in Possible(d, done)
    BY DEF Progress
  <1>2. done \in Seq(DnsEntry) /\ rules \in Possible(d, done)
    BY <1>1
  <1>3. Append(done, x) \o (others \o later) = done \o ((<<x>> \o others) \o later)
    BY ONLY AppendConcat, done \in Seq(DnsEntry), x \in DnsEntry,
            others \in Seq(DnsEntry), later \in Seq(DnsEntry)
  <1>4. Append(done, x) \in Seq(DnsEntry)
    BY <1>2, AppendProperties
  <1>5. rules \o Policy!RulesFor(d, x, ans) \in Possible(d, Append(done, x))
    BY <1>2, PossibleAppend
  <1>6. Policy!Enforceable(f)
    BY DEF Progress
  <1> QED
    BY <1>1, <1>3, <1>4, <1>5, <1>6 DEF Progress

LEMMA ResolveStage ==
    ASSUME NEW f \in MudFiles, NEW d \in DeviceIp, NEW lists \in Seq(AccessList), lists # <<>>,
           NEW rules, NEW acl \in Seq(Ace), acl # <<>>, Head(acl).dns,
           NEW ans \in Answers[Head(acl).domain], ans # <<>>,
           AtAce(f, d, lists, acl, rules)
    PROVE  AtInstall(f, d, lists, acl, ans, rules)
  <1> DEFINE dir == Head(lists).dir
             x == [dir |-> dir, ace |-> Head(acl)]
             others == Policy!EntriesOfAces(dir, Tail(acl))
             later == Policy!EntriesOfLists(f, Tail(lists))
  <1> SUFFICES ASSUME AllComplete(f, Tail(lists)), AllAces(Tail(acl)), Installable(Head(acl))
               PROVE  Progress(f, d, others \o later, rules \o Policy!RulesFor(d, x, ans))
    BY DEF AtInstall
  <1>1. /\ dir \in {"from", "to"} /\ Head(acl) \in Ace
        /\ Tail(acl) \in Seq(Ace) /\ Tail(lists) \in Seq(AccessList)
    <2>1. Head(lists) \in AccessList /\ Head(acl) \in Ace
          /\ Tail(acl) \in Seq(Ace) /\ Tail(lists) \in Seq(AccessList)
      BY HeadTailType
    <2> QED
      BY <2>1 DEF AccessList
  <1>2. x \in DnsEntry /\ x.ace = Head(acl)
    BY <1>1 DEF DnsEntry
  <1>3. others \in Seq(DnsEntry) /\ later \in Seq(DnsEntry)
    BY <1>1, AceEntriesType, CompleteHasAcl, ListEntriesType
  <1>4. Policy!EntriesOfAces(dir, acl) = <<x>> \o others
    BY <1>1, EntriesOfAcesCons
  <1>5. AllAces(acl)
    <2>1. \A j \in DOMAIN acl : j = 1 \/ (j - 1 \in DOMAIN Tail(acl) /\ Tail(acl)[j - 1] = acl[j])
      BY HeadTailProperties, EmptySeq, LenProperties
    <2>2. Complete(acl[1])
      BY HeadTailElements DEF Complete
    <2> QED
      BY <2>1, <2>2 DEF AllAces
  <1>6. Progress(f, d, Policy!EntriesOfAces(dir, acl) \o later, rules)
    BY <1>5 DEF AtAce
  <1>7. Progress(f, d, (<<x>> \o others) \o later, rules)
    BY <1>4, <1>6
  <1> QED
    <2> HIDE DEF dir, x, others, later
    <2> QED
      BY <1>2, <1>3, <1>7, ProgressEntry

LEMMA InstallStage ==
    ASSUME NEW f, NEW d \in DeviceIp, NEW lists \in Seq(AccessList), lists # <<>>,
           NEW rules \in Seq(Rule), NEW acl \in Seq(Ace), acl # <<>>,
           NEW ans \in Seq(RemoteIp), ans # <<>>, Installable(Head(acl)),
           AtInstall(f, d, lists, acl, ans, rules)
    PROVE  AtInstall(f, d, lists, acl, Tail(ans),
                     Append(rules, RuleFor(Head(lists).dir, Head(acl), d, Head(ans))))
  <1> DEFINE x == [dir |-> Head(lists).dir, ace |-> Head(acl)]
  <1>1. x \in DnsEntry /\ x.dir = Head(lists).dir /\ x.ace = Head(acl)
    <2>1. Head(lists) \in AccessList /\ Head(acl) \in Ace
      BY HeadTailType
    <2> QED
      BY <2>1 DEF AccessList, DnsEntry
  <1>2. Append(rules, RuleFor(x.dir, x.ace, d, Head(ans))) \o Policy!RulesFor(d, x, Tail(ans))
          = rules \o Policy!RulesFor(d, x, ans)
    <2> HIDE DEF x
    <2> QED
      BY <1>1, RulesForTail
  <1>3. Append(rules, RuleFor(Head(lists).dir, Head(acl), d, Head(ans)))
            \o Policy!RulesFor(d, [dir |-> Head(lists).dir, ace |-> Head(acl)], Tail(ans))
          = rules \o Policy!RulesFor(d, [dir |-> Head(lists).dir, ace |-> Head(acl)], ans)
    BY <1>1, <1>2
  <1> QED
    BY <1>3 DEF AtInstall

LEMMA LeaveAceStage ==
    ASSUME NEW f, NEW d \in DeviceIp, NEW lists \in Seq(AccessList), lists # <<>>,
           NEW rules \in Seq(Rule), NEW acl \in Seq(Ace), acl # <<>>,
           AtInstall(f, d, lists, acl, <<>>, rules)
    PROVE  AtAce(f, d, lists, Tail(acl), rules)
  <1> DEFINE x == [dir |-> Head(lists).dir, ace |-> Head(acl)]
  <1>1. rules \o Policy!RulesFor(d, x, <<>>) = rules
    <2>1. Policy!RulesFor(d, x, <<>>) = <<>>
      BY DEF Policy!RulesFor
    <2> QED
      BY <2>1, ConcatEmptySeq
  <1> QED
    BY <1>1 DEF AtInstall, AtAce

LEMMA FinishStage ==
    ASSUME NEW f \in MudFiles, NEW d \in DeviceIp, NEW rules, AtAccessList(f, d, <<>>, rules)
    PROVE  AtFinish(d, Append(rules, RejectAll(d)))
  <1>1. AllComplete(f, <<>>)
    BY DEF AllComplete
  <1>2. Policy!EntriesOfLists(f, <<>>) = <<>>
    BY EntriesOfNothing
  <1>3. Progress(f, d, <<>>, rules)
    BY <1>1, <1>2 DEF AtAccessList
  <1>4. PICK done \in Seq(DnsEntry) :
           done \o <<>> = Policy!DnsEntries(f) /\ rules \in Possible(d, done)
    BY <1>3 DEF Progress
  <1>5. rules \in Possible(d, Policy!DnsEntries(f))
    BY <1>4, ConcatEmptySeq
  <1>6. PICK a \in Policy!Resolutions(Policy!DnsEntries(f)) :
           rules = Policy!RulesWith(d, Policy!DnsEntries(f), a)
    BY <1>5 DEF Possible
  <1>7. Append(rules, RejectAll(d)) \in Policy!PoliciesOf(f, d)
    BY <1>6 DEF Policy!PoliciesOf, Policy!RejectAll, RejectAll
  <1> QED
    BY <1>3, <1>7 DEF AtFinish, Progress

-----------------------------------------------------------------------------
(* A transaction changes the rules of the event's device and of no other.   *)

OneDevice(cfg) ==
    \A i \in DOMAIN cfg : \A d, e \in DeviceIp :
        Involves(cfg[i], d) /\ Involves(cfg[i], e) => d = e

OthersInv ==
    /\ BaseInv
    /\ TransactionClosed
    /\ OneDevice(staged)
    /\ OneDevice(committed)
    /\ pc \in InTransaction =>
          \A d \in DeviceIp : d # event.ip => RulesOf(staged, d) = RulesOf(committed, d)

LEMMA InitOthers == Init => OthersInv
  <1> SUFFICES ASSUME Init
               PROVE  OthersInv
    OBVIOUS
  <1>1. staged = SystemRules /\ committed = SystemRules /\ pc = "idle"
    BY DEF Init, UciInit
  <1>2. OneDevice(SystemRules)
    BY SystemAssumption DEF OneDevice, Involves
  <1> QED
    BY <1>1, <1>2, InitBase, InitClosed DEF OthersInv, InTransaction

LEMMA DeleteKeepsOneDevice ==
    ASSUME NEW cfg \in Config, NEW n \in Nat, n < Len(cfg), OneDevice(cfg)
    PROVE  OneDevice(DeleteRule(cfg, n))
  <1>1. \A i \in DOMAIN DeleteRule(cfg, n) : \E a \in DOMAIN cfg : DeleteRule(cfg, n)[i] = cfg[a]
    BY DeleteRuleOrder
  <1> QED
    BY <1>1 DEF OneDevice

LEMMA AppendKeepsOneDevice ==
    ASSUME NEW cfg \in Config, NEW r \in Rule, NEW d \in DeviceIp, OneDevice(cfg),
           \A e \in DeviceIp : e # d => ~Involves(r, e)
    PROVE  OneDevice(Append(cfg, r))
  BY AppendElements DEF OneDevice

(* What a step that installs a rule of a device does to the staged rules. *)
LEMMA InstallEffect ==
    ASSUME AddSucceeds, NEW r \in Rule, NEW complete, InstallFirewallIPRule(r, complete),
           staged \in Config, OneDevice(staged), NEW d \in DeviceIp,
           \A e \in DeviceIp : e # d => ~Involves(r, e)
    PROVE  /\ committed' = committed
           /\ OneDevice(staged')
           /\ \A e \in DeviceIp : e # d => RulesOf(staged', e) = RulesOf(staged, e)
           /\ retval' = 0 /\ Involves(r, d) =>
                 complete /\ retval = 0 /\ RulesOf(staged', d) = Append(RulesOf(staged, d), r)
  <1>1. CASE InstallSucceeds(r, complete)
    <2>1. complete /\ staged' = Append(staged, r) /\ committed' = committed /\ retval' = retval
      BY <1>1 DEF InstallSucceeds, AddRule
    <2>2. \A e \in DeviceIp : e # d => RulesOf(staged', e) = RulesOf(staged, e)
      BY <2>1, RulesOfAppend
    <2>3. Involves(r, d) => RulesOf(staged', d) = Append(RulesOf(staged, d), r)
      BY <2>1, RulesOfAppend
    <2>4. OneDevice(staged')
      BY <2>1, AppendKeepsOneDevice
    <2> QED
      BY <2>1, <2>2, <2>3, <2>4
  <1>2. CASE InstallFails(complete)
    BY <1>2 DEF InstallFails, uciVars
  <1> QED
    BY <1>1, <1>2 DEF InstallFirewallIPRule, InstallOverwrites, AddSucceeds

(* The rule that rejects everything else is one of its device only. *)
LEMMA RejectAllRule ==
    ASSUME NEW d \in DeviceIp
    PROVE  /\ RejectAll(d) \in Rule
           /\ Involves(RejectAll(d), d)
           /\ \A e \in DeviceIp : e # d => ~Involves(RejectAll(d), e)
  BY RejectAllType, AddressAssumption DEF Involves, RejectAll, Address

(* The steps of a transaction, up to the one that ends it. *)
LEMMA OthersStay ==
    ASSUME ScriptIsExact, AddSucceeds, BaseInv, OneDevice(staged),
           StartRemove \/ RemoveRule \/ InstallAnswer \/ InstallRejectAll
    PROVE  /\ committed' = committed
           /\ event' = event /\ event.ip \in DeviceIp
           /\ pc' \in InTransaction
           /\ OneDevice(staged')
           /\ \A e \in DeviceIp : e # event.ip => RulesOf(staged', e) = RulesOf(staged, e)
  <1>1. TypeOK /\ staged \in Config
    BY DEF BaseInv, TypeInv, TypeOK, UciTypeOK
  <1>2. CASE StartRemove
    <2>1. /\ UNCHANGED <<staged, committed, event>>
          /\ pc = "remove" /\ pc' = "removing"
      BY <1>2 DEF StartRemove, ShowMatching, localVars
    <2> QED
      BY <1>1, <2>1, EventIp DEF InTransaction
  <1>3. CASE RemoveRule
    <2>1. PICK n \in Nat :
             /\ n < Len(staged)
             /\ Involves(staged[n + 1], event.ip)
             /\ staged' = DeleteRule(staged, n)
             /\ UNCHANGED <<committed, pc, event>>
      BY <1>3, RemoveRuleStep
    <2>2. pc \in InTransaction /\ event.ip \in DeviceIp
      BY <1>1, <1>3, EventIp DEF RemoveRule, InTransaction
    <2>3. n + 1 \in DOMAIN staged
      BY <1>1, <2>1, LenProperties DEF Config
    <2>4. OneDevice(staged')
      BY <1>1, <2>1, DeleteKeepsOneDevice
    <2>5. ASSUME NEW d \in DeviceIp, d # event.ip
          PROVE  RulesOf(staged', d) = RulesOf(staged, d)
      <3>1. ~Involves(staged[n + 1], d)
        BY <2>1, <2>2, <2>3, <2>5 DEF OneDevice
      <3> QED
        BY <1>1, <2>1, <3>1, DeleteOthersRule
    <2> QED
      BY <2>1, <2>2, <2>4, <2>5
  <1>4. CASE InstallAnswer
    <2> DEFINE r == RuleFor(Head(accessLists).dir, Head(aces), event.ip, Head(answers))
    <2>1. /\ r \in Rule
          /\ \A e \in DeviceIp : e # event.ip => ~Involves(r, e)
          /\ InstallFirewallIPRule(r, event.named /\ Installable(Head(aces)))
      BY <1>1, <1>4, InstalledRule
    <2> HIDE DEF r
    <2>2. event.ip \in DeviceIp /\ pc \in InTransaction /\ UNCHANGED <<pc, event>>
      BY <1>1, <1>4, EventIp DEF InstallAnswer, InTransaction
    <2> QED
      BY <1>1, <2>1, <2>2, InstallEffect
  <1>5. CASE InstallRejectAll
    <2>1. /\ event.ip \in DeviceIp /\ pc' \in InTransaction /\ event' = event
          /\ InstallFirewallIPRule(RejectAll(event.ip), event.named)
      BY <1>1, <1>5, EventIp DEF InstallRejectAll, InTransaction
    <2> QED
      BY <1>1, <2>1, RejectAllRule, InstallEffect
  <1> QED
    BY <1>2, <1>3, <1>4, <1>5

LEMMA NextOneDevice ==
    ASSUME ScriptIsExact, AddSucceeds, BaseInv, OneDevice(staged), OneDevice(committed),
           [Next]_vars
    PROVE  OneDevice(staged') /\ OneDevice(committed')
  <1>1. CASE Quiet \/ UNCHANGED vars
    BY <1>1, QuietSteps DEF uciVars, vars
  <1>2. CASE StartRemove \/ RemoveRule \/ InstallAnswer \/ InstallRejectAll
    BY <1>2, OthersStay
  <1>3. CASE FinishTransaction \/ Reboot
    BY <1>3 DEF FinishTransaction, CommitAndApplyFirewallRules, CommitRules,
                RollbackFirewallConfiguration, RollbackRules, uciVars, Reboot, LoseStaged
  <1> QED
    BY <1>1, <1>2, <1>3, StepKinds

LEMMA NextOthers ==
    ASSUME ScriptIsExact, AddSucceeds, TransactionsEnd, OthersInv, [Next]_vars
    PROVE  OthersInv'
  <1>1. BaseInv' /\ BaseInv
    BY NextBase DEF OthersInv
  <1>2. TypeOK /\ staged \in Config /\ committed \in Config
    BY <1>1 DEF BaseInv, TypeInv, TypeOK, UciTypeOK
  <1>3. TransactionClosed'
    BY <1>2, NextClosed DEF OthersInv
  <1>4. pc \notin InTransaction => staged = committed
    BY DEF OthersInv, TransactionClosed
  <1>5. CASE Quiet
    <2>1. UNCHANGED uciVars
      BY <1>5, QuietSteps
    <2>2. pc' \in InTransaction => event' = event
      BY <1>5 DEF Quiet, Dispatch, Retrieve, RecordLegacyDevice, RecordMudDevice, ParseMudFile,
                  FailRemove, EndRemove, SkipMissingAcl, EnterAcl, LeaveAcl, SkipAce, ResolveAce,
                  LeaveAce, RemoveMudDbDeviceEntry, RecordMudDeviceAgain, ClearEvent, CrashOnJson,
                  CrashOnDns, Kill, Stop, Restart, InTransaction, localVars
    <2> QED
      BY <1>1, <1>3, <1>4, <2>1, <2>2 DEF OthersInv, uciVars
  <1>6. CASE StartRemove
    <2>1. UNCHANGED <<staged, committed>> /\ pc \notin InTransaction
      BY <1>6 DEF StartRemove, ShowMatching, InTransaction
    <2> QED
      BY <1>1, <1>3, <1>4, <2>1 DEF OthersInv
  <1>7. CASE RemoveRule \/ InstallAnswer \/ InstallRejectAll
    <2>1. pc \in InTransaction
      BY <1>7 DEF RemoveRule, InstallAnswer, InstallRejectAll, InTransaction
    <2>2. /\ committed' = committed /\ event' = event /\ OneDevice(staged')
          /\ \A e \in DeviceIp : e # event.ip => RulesOf(staged', e) = RulesOf(staged, e)
      BY <1>7, OthersStay DEF OthersInv
    <2> QED
      BY <1>1, <1>3, <2>1, <2>2 DEF OthersInv
  <1>8. CASE FinishTransaction
    <2>1. pc' \notin InTransaction /\ committed' \in {staged, committed}
      BY <1>8 DEF FinishTransaction, AfterFinish, InTransaction, CommitAndApplyFirewallRules,
                   CommitRules, RollbackFirewallConfiguration, RollbackRules, uciVars
    <2> QED
      BY <1>1, <1>3, <2>1 DEF OthersInv, TransactionClosed
  <1>9. CASE Reboot
    BY <1>1, <1>3, <1>9 DEF OthersInv, Reboot, LoseStaged, InTransaction
  <1>10. CASE UNCHANGED vars
    BY <1>1, <1>3, <1>10 DEF OthersInv, vars, uciVars, localVars
  <1> QED
    BY <1>5, <1>6, <1>7, <1>8, <1>9, <1>10, StepKinds

-----------------------------------------------------------------------------
(* What the stages have still to do and what the staged rules of the event's *)
(* device are come together to one complete file, unless something failed.   *)

AtStage ==
    LET mine == RulesOf(staged, event.ip)
    IN  /\ pc \in {"remove", "removing"} /\ event.action # "DEL" =>
              accessLists = AccessLists(mudFile)
        /\ pc = "forget" => event.action = "DEL" /\ mine = <<>>
        /\ pc \in {"accessList", "ace", "install"} => event.action # "DEL"
        /\ pc = "accessList" /\ retval = 0 =>
              AtAccessList(mudFile, event.ip, accessLists, mine)
        /\ pc = "ace" /\ retval = 0 => AtAce(mudFile, event.ip, accessLists, aces, mine)
        /\ pc = "install" /\ retval = 0 =>
              AtInstall(mudFile, event.ip, accessLists, aces, answers, mine)
        /\ pc = "finish" /\ retval = 0 =>
              IF event.action = "DEL" THEN mine = <<>> ELSE AtFinish(event.ip, mine)

PolicyInv == OthersInv /\ AtStage

LEMMA InitPolicy == Init => PolicyInv
  BY InitOthers DEF Init, PolicyInv, AtStage

LEMMA NextStage ==
    ASSUME ScriptIsExact, RemovalSucceeds, AddSucceeds, AnswersFound,
           BaseInv, OneDevice(staged), AtStage, [Next]_vars
    PROVE  AtStage'
  <1>1. BaseInv /\ OneDevice(staged) /\ AtStage
    OBVIOUS
  <1>2. TypeOK /\ staged \in Config /\ accessLists \in Seq(AccessList) /\ aces \in Seq(Ace)
    BY <1>1 DEF BaseInv, TypeInv, TypeOK, UciTypeOK
  <1>3. pc \notin {"idle", "down"} => event.ip \in DeviceIp
    BY <1>2, EventIp
  <1>4. pc \in {"accessList", "ace", "install"} => mudFile \in MudFiles
    BY <1>2 DEF TypeOK
  <1>5. CASE \/ \E e \in Events : Dispatch(e)
             \/ Retrieve \/ RecordLegacyDevice \/ RecordMudDevice \/ ParseMudFile
             \/ RecordMudDeviceAgain \/ ClearEvent
             \/ CrashOnJson \/ CrashOnDns \/ Kill \/ Restart \/ FinishTransaction \/ Reboot
    <2>1. CASE \E e \in Events : Dispatch(e)
      BY <2>1 DEF Dispatch, AtStage
    <2>2. CASE ParseMudFile
      BY <2>2 DEF ParseMudFile, AtStage
    <2>3. CASE \/ Retrieve \/ RecordLegacyDevice \/ RecordMudDevice
               \/ RecordMudDeviceAgain \/ ClearEvent \/ Restart \/ FinishTransaction
      BY <2>3 DEF Retrieve, RecordLegacyDevice, RecordMudDevice, RecordMudDeviceAgain,
                  ClearEvent, Restart, FinishTransaction, AfterFinish, AtStage
    <2>4. CASE CrashOnJson \/ CrashOnDns \/ Kill \/ Reboot
      BY <2>4 DEF CrashOnJson, CrashOnDns, Kill, Stop, Reboot, AtStage
    <2> QED
      BY <1>5, <2>1, <2>2, <2>3, <2>4
  <1>6. CASE FailRemove
    BY <1>6 DEF FailRemove, RemovalSucceeds
  <1>7. CASE StartRemove \/ RemoveRule
    <2>1. /\ pc \in {"remove", "removing"} /\ pc' = "removing"
          /\ UNCHANGED <<event, accessLists, mudFile>>
      BY <1>7 DEF StartRemove, RemoveRule, localVars
    <2> QED
      BY <1>1, <2>1 DEF AtStage
  <1>8. CASE EndRemove
    <2>1. event.ip \in DeviceIp /\ MatchingLines(staged, event.ip) = {}
      BY <1>1, <1>3, <1>8 DEF BaseInv, EndRemove
    <2>2. RulesOf(staged, event.ip) = <<>>
      BY <1>2, <2>1, NoLinesMeansNoRules, RulesOfNone
    <2>3. /\ pc = "removing" /\ UNCHANGED <<staged, event, mudFile, accessLists>>
          /\ pc' = IF event.action = "DEL" THEN "forget" ELSE "accessList"
      BY <1>8 DEF EndRemove, AfterRemove, uciVars, localVars
    <2>4. event.action # "DEL" => mudFile \in MudFiles /\ accessLists = AccessLists(mudFile)
      BY <1>1, <1>2, <2>3 DEF AtStage, BaseInv, TypeInv, StageInv, TypeOK
    <2>5. event.action # "DEL" => AtAccessList(mudFile, event.ip, accessLists, <<>>)
      BY <2>4, StartFile
    <2> QED
      BY <2>2, <2>3, <2>5 DEF AtStage
  <1>9. CASE SkipMissingAcl
    BY <1>1, <1>9 DEF SkipMissingAcl, AtStage
  <1>10. CASE EnterAcl
    <2>1. /\ pc = "accessList" /\ pc' = "ace" /\ accessLists # <<>>
          /\ HasAcl(mudFile, Head(accessLists).acl)
          /\ aces' = GetMudFileAcl(mudFile, Head(accessLists).acl)
          /\ UNCHANGED <<staged, event, mudFile, accessLists, retval>>
      BY <1>10 DEF EnterAcl, uciVars
    <2>2. retval = 0 => AtAccessList(mudFile, event.ip, accessLists, RulesOf(staged, event.ip))
      BY <1>1, <2>1 DEF AtStage
    <2>3. retval = 0 => AtAce(mudFile, event.ip, accessLists, aces', RulesOf(staged, event.ip))
      BY <1>2, <1>4, <2>1, <2>2, EnterAclStage
    <2> QED
      BY <1>1, <2>1, <2>3 DEF AtStage
  <1>11. CASE LeaveAcl
    <2>1. /\ pc = "ace" /\ pc' = "accessList" /\ aces = <<>> /\ accessLists # <<>>
          /\ accessLists' = Tail(accessLists)
          /\ UNCHANGED <<staged, event, mudFile, retval>>
      BY <1>2, <1>11 DEF LeaveAcl, uciVars, TypeOK
    <2>2. retval = 0 => AtAce(mudFile, event.ip, accessLists, <<>>, RulesOf(staged, event.ip))
      BY <1>1, <2>1 DEF AtStage
    <2>3. retval = 0 =>
             AtAccessList(mudFile, event.ip, Tail(accessLists), RulesOf(staged, event.ip))
      BY <1>2, <1>4, <2>1, <2>2, LeaveAclStage
    <2> QED
      BY <1>1, <2>1, <2>3 DEF AtStage
  <1>12. CASE SkipAce
    <2>1. /\ pc = "ace" /\ pc' = "ace" /\ aces # <<>> /\ ~Head(aces).dns /\ accessLists # <<>>
          /\ aces' = Tail(aces)
          /\ UNCHANGED <<staged, event, mudFile, accessLists, retval>>
      BY <1>2, <1>12 DEF SkipAce, uciVars, TypeOK
    <2>2. retval = 0 => AtAce(mudFile, event.ip, accessLists, aces, RulesOf(staged, event.ip))
      BY <1>1, <2>1 DEF AtStage
    <2>3. retval = 0 =>
             AtAce(mudFile, event.ip, accessLists, Tail(aces), RulesOf(staged, event.ip))
      BY <1>2, <2>1, <2>2, SkipAceStage
    <2> QED
      BY <1>1, <2>1, <2>3 DEF AtStage
  <1>13. CASE ResolveAce
    <2>1. /\ pc = "ace" /\ pc' = "install" /\ aces # <<>> /\ Head(aces).dns /\ accessLists # <<>>
          /\ answers' \in Answers[Head(aces).domain]
          /\ UNCHANGED <<staged, event, mudFile, accessLists, aces, retval>>
      BY <1>2, <1>13 DEF ResolveAce, uciVars, TypeOK
    <2>2. answers' # <<>>
      <3>1. Head(aces) \in Ace
        BY <1>2, <2>1, HeadTailType
      <3>2. Head(aces).domain \in Domain
        BY <2>1, <3>1 DEF Ace
      <3> QED
        BY <2>1, <3>2 DEF AnswersFound
    <2>3. retval = 0 => AtAce(mudFile, event.ip, accessLists, aces, RulesOf(staged, event.ip))
      BY <1>1, <2>1 DEF AtStage
    <2>4. retval = 0 =>
             AtInstall(mudFile, event.ip, accessLists, aces, answers', RulesOf(staged, event.ip))
      BY <1>2, <1>3, <1>4, <2>1, <2>2, <2>3, ResolveStage
    <2> QED
      BY <1>1, <2>1, <2>4 DEF AtStage
  <1>14. CASE LeaveAce
    <2>1. /\ pc = "install" /\ pc' = "ace" /\ answers = <<>> /\ aces # <<>> /\ accessLists # <<>>
          /\ aces' = Tail(aces)
          /\ UNCHANGED <<staged, event, mudFile, accessLists, retval>>
      BY <1>2, <1>14 DEF LeaveAce, uciVars, TypeOK
    <2>2. retval = 0 =>
             AtInstall(mudFile, event.ip, accessLists, aces, <<>>, RulesOf(staged, event.ip))
      BY <1>1, <2>1 DEF AtStage
    <2>3. RulesOf(staged, event.ip) \in Seq(Rule)
      BY <1>2, RulesOfType DEF Config
    <2>4. retval = 0 =>
             AtAce(mudFile, event.ip, accessLists, Tail(aces), RulesOf(staged, event.ip))
      BY <1>2, <1>3, <2>1, <2>2, <2>3, LeaveAceStage
    <2> QED
      BY <1>1, <2>1, <2>4 DEF AtStage
  <1>15. CASE InstallAnswer
    <2> DEFINE r == RuleFor(Head(accessLists).dir, Head(aces), event.ip, Head(answers))
    <2>1. /\ r \in Rule
          /\ \A e \in DeviceIp : e # event.ip => ~Involves(r, e)
          /\ InstallFirewallIPRule(r, event.named /\ Installable(Head(aces)))
      BY <1>2, <1>15, InstalledRule
    <2>2. /\ pc = "install" /\ pc' = "install" /\ answers # <<>> /\ aces # <<>>
          /\ accessLists # <<>> /\ answers' = Tail(answers) /\ answers \in Seq(RemoteIp)
          /\ UNCHANGED <<event, mudFile, accessLists, aces>>
      BY <1>2, <1>15 DEF InstallAnswer, TypeOK
    <2>3. Involves(r, event.ip)
      BY DEF RuleFor, Involves
    <2> SUFFICES ASSUME retval' = 0
                 PROVE  AtInstall(mudFile, event.ip, accessLists, aces, Tail(answers),
                                  RulesOf(staged', event.ip))
      BY <1>1, <2>2 DEF AtStage
    <2>4. /\ retval = 0 /\ Installable(Head(aces))
          /\ RulesOf(staged', event.ip) = Append(RulesOf(staged, event.ip), r)
      <3> HIDE DEF r
      <3> QED
        BY <1>1, <1>2, <1>3, <2>1, <2>2, <2>3, InstallEffect
    <2>5. AtInstall(mudFile, event.ip, accessLists, aces, answers, RulesOf(staged, event.ip))
      BY <1>1, <2>2, <2>4 DEF AtStage
    <2>6. RulesOf(staged, event.ip) \in Seq(Rule)
      BY <1>2, RulesOfType DEF Config
    <2>7. AtInstall(mudFile, event.ip, accessLists, aces, Tail(answers),
                    Append(RulesOf(staged, event.ip), r))
      BY <1>2, <1>3, <2>2, <2>4, <2>5, <2>6, InstallStage
    <2> QED
      BY <2>4, <2>7
  <1>16. CASE InstallRejectAll
    <2>1. /\ pc = "accessList" /\ pc' = "finish" /\ accessLists = <<>>
          /\ UNCHANGED <<event, mudFile>>
          /\ InstallFirewallIPRule(RejectAll(event.ip), event.named)
      BY <1>16 DEF InstallRejectAll
    <2> SUFFICES ASSUME retval' = 0
                 PROVE  AtFinish(event.ip, RulesOf(staged', event.ip))
      BY <1>1, <2>1 DEF AtStage
    <2>2. /\ retval = 0
          /\ RulesOf(staged', event.ip) = Append(RulesOf(staged, event.ip), RejectAll(event.ip))
      BY <1>1, <1>2, <1>3, <2>1, RejectAllRule, InstallEffect
    <2>3. AtAccessList(mudFile, event.ip, <<>>, RulesOf(staged, event.ip))
      BY <1>1, <2>1, <2>2 DEF AtStage
    <2> QED
      BY <1>3, <1>4, <2>1, <2>2, <2>3, FinishStage
  <1>17. CASE RemoveMudDbDeviceEntry
    BY <1>1, <1>17 DEF RemoveMudDbDeviceEntry, AtStage, uciVars, localVars
  <1>18. CASE UNCHANGED vars
    BY <1>1, <1>18 DEF AtStage, vars, uciVars, localVars
  <1> QED
    BY <1>5, <1>6, <1>7, <1>8, <1>9, <1>10, <1>11, <1>12, <1>13, <1>14, <1>15, <1>16, <1>17,
       <1>18 DEF Next, Handle, Fail

LEMMA NextPolicy ==
    ASSUME ScriptIsExact, RemovalSucceeds, AddSucceeds, AnswersFound, TransactionsEnd,
           PolicyInv, [Next]_vars
    PROVE  PolicyInv'
  <1>1. OthersInv'
    BY NextOthers DEF PolicyInv
  <1>2. AtStage'
    BY NextStage DEF PolicyInv, OthersInv
  <1> QED
    BY <1>1, <1>2 DEF PolicyInv

-----------------------------------------------------------------------------
(* Every step is a step of DevicePolicy, or leaves every device's policy. *)

EnforcedRules == [d \in DeviceIp |-> RulesOf(committed, d)]

(* No step but the last of a transaction changes what is enforced. *)
LEMMA CommittedStays ==
    ASSUME [Next]_vars, ~FinishTransaction, ScriptIsExact, BaseInv
    PROVE  committed' = committed
  <1>1. CASE Quiet
    BY <1>1, QuietSteps DEF uciVars
  <1>2. CASE StartRemove \/ Reboot \/ UNCHANGED vars
    BY <1>2 DEF StartRemove, ShowMatching, Reboot, LoseStaged, vars, uciVars
  <1>3. CASE RemoveRule
    BY <1>3, RemoveRuleStep
  <1>4. CASE InstallAnswer \/ InstallRejectAll
    BY <1>4 DEF InstallAnswer, InstallRejectAll, InstallFirewallIPRule, InstallSucceeds,
                InstallOverwrites, InstallFails, AddRule, OverwriteLast, uciVars
  <1> QED
    BY <1>1, <1>2, <1>3, <1>4, StepKinds

(* A commit gives the event's device what the stages came to. *)
LEMMA CommitStep ==
    ASSUME PolicyInv, FinishTransaction, committed' = staged, retval = 0
    PROVE  [Policy!Next]_EnforcedRules
  <1> DEFINE d == event.ip
             p == RulesOf(staged, d)
  <1>1. d \in DeviceIp /\ pc = "finish" /\ pc \in InTransaction
    BY EventIp DEF PolicyInv, OthersInv, BaseInv, TypeInv, FinishTransaction, InTransaction
  <1>2. \A e \in DeviceIp : e # d => RulesOf(committed', e) = RulesOf(committed, e)
    BY <1>1 DEF PolicyInv, OthersInv
  <1>3. EnforcedRules' = [EnforcedRules EXCEPT ![d] = p]
    BY <1>1, <1>2 DEF EnforcedRules
  <1>4. p = <<>> \/ AtFinish(d, p)
    BY <1>1 DEF PolicyInv, AtStage
  <1>5. CASE p = <<>>
    <2>1. Policy!Release(d)
      BY <1>3, <1>5 DEF Policy!Release, EnforcedRules
    <2> QED
      BY <1>1, <2>1 DEF Policy!Next
  <1>6. CASE \E f \in MudFiles : Policy!Enforceable(f) /\ p \in Policy!PoliciesOf(f, d)
    <2>1. Policy!Enforce(d)
      BY <1>3, <1>6 DEF Policy!Enforce, EnforcedRules
    <2> QED
      BY <1>1, <2>1 DEF Policy!Next
  <1> QED
    BY <1>4, <1>5, <1>6 DEF AtFinish

LEMMA NextIsPolicy ==
    ASSUME ScriptIsExact, PolicyInv, [Next]_vars
    PROVE  [Policy!Next]_EnforcedRules
  <1>1. CASE committed' = committed
    BY <1>1 DEF EnforcedRules
  <1>2. CASE committed' # committed
    <2>1. FinishTransaction
      BY <1>2, CommittedStays DEF PolicyInv, OthersInv
    <2>2. retval = 0 /\ committed' = staged
      BY <1>2, <2>1 DEF FinishTransaction, CommitAndApplyFirewallRules, CommitRules,
                        RollbackFirewallConfiguration, RollbackRules, uciVars
    <2> QED
      BY <2>1, <2>2, CommitStep
  <1> QED
    BY <1>1, <1>2

LEMMA InitIsPolicy == Init => Policy!Init
  <1> SUFFICES ASSUME Init
               PROVE  Policy!Init
    OBVIOUS
  <1>1. committed = SystemRules /\ SystemRules \in Config
    BY SystemAssumption DEF Init, UciInit
  <1>2. \A d \in DeviceIp, i \in DOMAIN SystemRules : ~Involves(SystemRules[i], d)
    BY SystemAssumption DEF Involves
  <1>3. \A d \in DeviceIp : RulesOf(committed, d) = <<>>
    BY <1>1, <1>2, RulesOfNone
  <1> QED
    BY <1>3 DEF Policy!Init

(* MudManager implements DevicePolicy: the enforced rules of a device are   *)
(* none, or those of one complete MUD file with its REJECT-ALL at the end,  *)
(* and a step changes those of one device at most.  The failures excluded   *)
(* are those that break it in the code: a script that fails unseen or       *)
(* removes a rule of another device, and a transaction that does not end.   *)
(* A script that fails to create a rule, a failed download, a file that is  *)
(* not JSON, a line that is not appended and a power cut are not excluded.  *)
THEOREM PolicyCorrect ==
    ASSUME ScriptIsExact, RemovalSucceeds, AddSucceeds, TransactionsEnd, AnswersFound
    PROVE  Spec => PolicySpec
  <1>1. ScriptIsExact /\ RemovalSucceeds /\ AddSucceeds /\ AnswersFound /\ TransactionsEnd =>
           (PolicyInv /\ [Next]_vars => PolicyInv')
    BY NextPolicy
  <1>2. ScriptIsExact =>
           (PolicyInv /\ [Next]_vars => [Policy!Next]_[d \in DeviceIp |-> RulesOf(committed, d)])
    BY NextIsPolicy DEF EnforcedRules
  <1> QED
    BY <1>1, <1>2, InitPolicy, InitIsPolicy, PTL DEF Spec, PolicySpec, Policy!Spec
===============================================================================
