---------------------------- MODULE MudParserProofs ----------------------------
(***************************************************************************)
(* The walk of MudParser: its types, for every document that is well       *)
(* nested; and for every one that says a MUD file in the known keys, that  *)
(* no store is outside of the arrays and that the file is what is stored.  *)
(*                                                                         *)
(* The argument: the state the walk carries is that of the section around  *)
(* the place it is at (StackInv), the counters count the entries before it *)
(* (MfiFilled), so the last entry is the one around the place, and what is *)
(* stored there is what the entry says.                                    *)
(***************************************************************************)
EXTENDS MudParser, FirewallProofs, FiniteSetTheorems

-----------------------------------------------------------------------------
(* Counting positions. *)

LEMMA UpToFinite ==
    ASSUME NEW S, NEW n \in Nat
    PROVE  IsFiniteSet(S \cap 1..n) /\ Count(S, n) \in Nat
  <1>1. IsFiniteSet(1..n)
    BY FS_Interval
  <1>2. S \cap 1..n \in SUBSET (1..n)
    OBVIOUS
  <1>3. IsFiniteSet(S \cap 1..n)
    BY <1>1, <1>2, FS_Subset
  <1> QED
    BY <1>3, FS_CardinalityType DEF Count

LEMMA CountNone ==
    ASSUME NEW S
    PROVE  Count(S, 0) = 0
  <1>1. S \cap 1..0 = {}
    OBVIOUS
  <1> QED
    BY <1>1, FS_EmptySet DEF Count

LEMMA CountNext ==
    ASSUME NEW S, NEW n \in Nat
    PROVE  Count(S, n + 1) = IF n + 1 \in S THEN Count(S, n) + 1 ELSE Count(S, n)
  <1>1. IsFiniteSet(S \cap 1..n)
    BY UpToFinite
  <1>2. n + 1 \notin S \cap 1..n
    OBVIOUS
  <1>3. CASE n + 1 \in S
    <2>1. S \cap 1..n + 1 = (S \cap 1..n) \cup {n + 1}
      BY <1>3
    <2> QED
      BY <1>1, <1>2, <1>3, <2>1, FS_AddElement DEF Count
  <1>4. CASE n + 1 \notin S
    <2>1. S \cap 1..n + 1 = S \cap 1..n
      BY <1>4
    <2> QED
      BY <1>4, <2>1 DEF Count
  <1> QED
    BY <1>3, <1>4

-----------------------------------------------------------------------------
(* Nesting. *)

(* How many objects and arrays are open after n tokens. *)
Deep(text, n) == Count(Opening(text), n) - Count(Closing(text), n)

LEMMA DeepNone ==
    ASSUME NEW text
    PROVE  Deep(text, 0) = 0
  BY CountNone DEF Deep

LEMMA DeepType ==
    ASSUME NEW text \in Seq(Token), WellNested(text), NEW n \in 0..Len(text)
    PROVE  Deep(text, n) \in Nat /\ Depth(text)[n] = Deep(text, n)
  <1>1. Depth(text)[n] \in Nat
    BY DEF WellNested
  <1>2. Depth(text)[n] = Deep(text, n)
    BY DEF Depth, Deep
  <1> QED
    BY <1>1, <1>2

LEMMA DeepNext ==
    ASSUME NEW text \in Seq(Token), NEW n \in 0..Len(text) - 1
    PROVE  /\ n + 1 \in Opening(text) => Deep(text, n + 1) = Deep(text, n) + 1
           /\ n + 1 \in Closing(text) => Deep(text, n + 1) = Deep(text, n) - 1
           /\ n + 1 \notin Opening(text) \cup Closing(text) => Deep(text, n + 1) = Deep(text, n)
  <1>1. n \in Nat
    BY LenProperties
  <1>2. n + 1 \in Opening(text) => n + 1 \notin Closing(text)
    BY DEF Opening, Closing
  <1>3. Count(Closing(text), n) \in Nat /\ Count(Opening(text), n) \in Nat
    BY <1>1, UpToFinite
  <1>4. Count(Opening(text), n + 1)
          = IF n + 1 \in Opening(text) THEN Count(Opening(text), n) + 1
            ELSE Count(Opening(text), n)
    BY <1>1, CountNext
  <1>5. Count(Closing(text), n + 1)
          = IF n + 1 \in Closing(text) THEN Count(Closing(text), n) + 1
            ELSE Count(Closing(text), n)
    BY <1>1, CountNext
  <1> QED
    BY <1>2, <1>3, <1>4, <1>5 DEF Deep

-----------------------------------------------------------------------------
(* Types. *)

MudFileInfo == [from : Seq(Stored), to : Seq(Stored), acls : Seq(AclEntry)]

(* The stack is as high as the walk is deep, so it is never empty.          *)
TypeInv ==
    /\ TypeOK
    /\ document \in Documents
    /\ mfi \in MudFileInfo
    /\ Len(stack) = Deep(document.text, next - 1) + 1

LEMMA DocumentType ==
    ASSUME NEW doc \in Documents
    PROVE  doc.text \in Seq(Token) /\ WellNested(doc.text) /\ Len(doc.text) \in Nat
  BY ParserAssumption, LenProperties

LEMMA InitType == Init => TypeInv
  <1> SUFFICES ASSUME Init
               PROVE  TypeInv
    OBVIOUS
  <1>1. /\ document \in Documents /\ next = 1 /\ pc = "walk"
        /\ stack = <<"NONE">>
        /\ mfi = [from |-> <<>>, to |-> <<>>, acls |-> <<>>]
    BY DEF Init
  <1>2. document.text \in Seq(Token) /\ Len(document.text) \in Nat /\ IsMudFileInfo(document.file)
    BY <1>1, DocumentType, ParserAssumption
  <1>3. Deep(document.text, next - 1) = 0
    BY <1>1, DeepNone
  <1>4. stack \in Seq(State) /\ Len(stack) = 1 /\ stack # <<>>
    BY <1>1 DEF State
  <1>5. mfi \in MudFileInfo /\ Len(mfi.from) = 0 /\ Len(mfi.to) = 0 /\ Len(mfi.acls) = 0
    BY <1>1 DEF MudFileInfo
  <1>6. MaxPolicies \in Nat /\ MaxAcls \in Nat
    BY ParserAssumption
  <1>7. \A i \in DOMAIN mfi.acls : Len(mfi.acls[i].aceList) <= MaxAces
    BY <1>1
  <1> QED
    BY <1>1, <1>2, <1>3, <1>4, <1>5, <1>6, <1>7 DEF TypeInv, TypeOK, MudFileInfo

(* What the arrays hold fits them. *)
WithinArrays(m) ==
    /\ m \in MudFileInfo
    /\ Len(m.from) <= MaxPolicies
    /\ Len(m.to) <= MaxPolicies
    /\ Len(m.acls) <= MaxAcls
    /\ \A i \in DOMAIN m.acls : Len(m.acls[i].aceList) <= MaxAces

LEMMA LastInside ==
    ASSUME NEW S, NEW s \in Seq(S), s # <<>>
    PROVE  Len(s) \in 1..Len(s) /\ Last(s) = s[Len(s)] /\ Last(s) \in S
  <1>1. Len(s) \in 1..Len(s)
    BY EmptySeq, LenProperties
  <1> QED
    BY <1>1, ElementOfSeq DEF Last

LEMMA AclStored ==
    ASSUME WithinArrays(mfi), NEW n \in 1..Len(mfi.acls), NEW entry \in AclEntry,
           Len(entry.aceList) <= MaxAces
    PROVE  /\ WithinArrays([mfi EXCEPT !.acls[n] = entry])
           /\ [mfi EXCEPT !.acls[n] = entry].acls = [mfi.acls EXCEPT ![n] = entry]
  <1> DEFINE acls == [mfi.acls EXCEPT ![n] = entry]
  <1>1. mfi.acls \in Seq(AclEntry)
    BY DEF WithinArrays, MudFileInfo
  <1>2. /\ acls \in Seq(AclEntry) /\ Len(acls) = Len(mfi.acls)
        /\ \A i \in 1..Len(mfi.acls) : acls[i] = IF i = n THEN entry ELSE mfi.acls[i]
    BY <1>1, ExceptSeq
  <1>3. [mfi EXCEPT !.acls[n] = entry] = [mfi EXCEPT !.acls = acls]
    BY DEF WithinArrays, MudFileInfo
  <1>4. DOMAIN acls = 1..Len(mfi.acls) /\ DOMAIN mfi.acls = 1..Len(mfi.acls)
    BY <1>1, <1>2, LenProperties
  <1> HIDE DEF acls
  <1>5. WithinArrays([mfi EXCEPT !.acls = acls])
    BY <1>2, <1>4 DEF WithinArrays, MudFileInfo
  <1>6. [mfi EXCEPT !.acls = acls].acls = acls
    BY DEF WithinArrays, MudFileInfo
  <1> QED
    BY <1>3, <1>5, <1>6 DEF acls

LEMMA LastAcl ==
    ASSUME WithinArrays(mfi), mfi.acls # <<>>
    PROVE  /\ Len(mfi.acls) \in 1..Len(mfi.acls)
           /\ Last(mfi.acls) = mfi.acls[Len(mfi.acls)]
           /\ Last(mfi.acls) \in AclEntry
           /\ Len(Last(mfi.acls).aceList) <= MaxAces
           /\ Last(mfi.acls).aceList \in Seq(AceEntry)
  <1>1. mfi.acls \in Seq(AclEntry)
    BY DEF WithinArrays, MudFileInfo
  <1>2. /\ Len(mfi.acls) \in 1..Len(mfi.acls) /\ Last(mfi.acls) = mfi.acls[Len(mfi.acls)]
        /\ Last(mfi.acls) \in AclEntry
    BY <1>1, LastInside
  <1>3. DOMAIN mfi.acls = 1..Len(mfi.acls)
    BY <1>1, LenProperties
  <1> QED
    BY <1>2, <1>3 DEF WithinArrays, AclEntry

(* The ACE the counters point at, with another value. *)
AclWithAce(ace) ==
    LET acl == Last(mfi.acls)
    IN  [acl EXCEPT !.aceList = [acl.aceList EXCEPT ![Len(acl.aceList)] = ace]]

LEMMA AceStored ==
    ASSUME WithinArrays(mfi), HasAce, NEW ace \in AceEntry
    PROVE  /\ WithinArrays(WithAce(ace))
           /\ AclWithAce(ace) \in AclEntry
           /\ WithAce(ace) = [mfi EXCEPT !.acls[Len(mfi.acls)] = AclWithAce(ace)]
  <1> DEFINE n == Len(mfi.acls)
             acl == Last(mfi.acls)
             list == [acl.aceList EXCEPT ![Len(acl.aceList)] = ace]
  <1>1. /\ n \in 1..n /\ acl = mfi.acls[n] /\ acl \in AclEntry
        /\ Len(acl.aceList) <= MaxAces /\ acl.aceList \in Seq(AceEntry) /\ acl.aceList # <<>>
    BY LastAcl DEF HasAce
  <1>2. Len(acl.aceList) \in 1..Len(acl.aceList)
    BY <1>1, LastInside
  <1>3. list \in Seq(AceEntry) /\ Len(list) = Len(acl.aceList)
    BY <1>1, <1>2, ExceptSeq
  <1>4. WithAce(ace) = [mfi EXCEPT !.acls[n] = [acl EXCEPT !.aceList = list]]
    BY <1>1 DEF WithAce, WithinArrays, MudFileInfo
  <1> HIDE DEF list
  <1>5. [acl EXCEPT !.aceList = list] \in AclEntry /\ [acl EXCEPT !.aceList = list].aceList = list
    BY <1>1, <1>3 DEF AclEntry
  <1>6. WithinArrays([mfi EXCEPT !.acls[n] = [acl EXCEPT !.aceList = list]])
    BY <1>1, <1>3, <1>5, AclStored
  <1> QED
    BY <1>4, <1>5, <1>6 DEF AclWithAce, list

LEMMA LastAceType ==
    ASSUME WithinArrays(mfi), HasAce
    PROVE  Last(Last(mfi.acls).aceList) \in AceEntry
  BY LastAcl, LastInside DEF HasAce

LEMMA StoredInAceType ==
    ASSUME NEW ace \in AceEntry, NEW key, NEW val \in Val
    PROVE  StoredInAce(ace, key, val) \in AceEntry
  <1>1. val \in Stored /\ "ACLDNS" \in AceType
    BY DEF Stored, AceType
  <1> QED
    BY <1>1 DEF StoredInAce, AceEntry

LEMMA TypeOfArrayType ==
    ASSUME NEW key \in ArrayKeys
    PROVE  TypeOfArray(key) \in AceType
  BY DEF ArrayKeys, TypeOfArray, AceType

LEMMA NewStateType ==
    ASSUME NEW key, NEW s \in State
    PROVE  NewState(key, s) \in State
  BY DEF NewState, State

(* A store keeps the arrays within their limits. *)
LEMMA StoreType ==
    ASSUME WithinArrays(mfi), NEW inside, NEW m, inside => WithinArrays(m), Store(inside, m)
    PROVE  WithinArrays(mfi)'
  BY DEF Store, WithinArrays

LEMMA NameStored ==
    ASSUME WithinArrays(mfi), NEW s, HasEntry(s), NEW name \in Val
    PROVE  WithinArrays(Named(s, name))
  <1>1. name \in Stored
    BY DEF Stored
  <1>2. mfi.from \in Seq(Stored) /\ mfi.to \in Seq(Stored)
    BY DEF WithinArrays, MudFileInfo
  <1>3. CASE s = "FROM_DEVICE_POLICY"
    <2> DEFINE new == [mfi.from EXCEPT ![Len(mfi.from)] = name]
    <2>1. mfi.from # <<>>
      BY <1>3 DEF HasEntry
    <2>2. new \in Seq(Stored) /\ Len(new) = Len(mfi.from)
      BY <1>1, <1>2, <2>1, LastInside, ExceptSeq
    <2> HIDE DEF new
    <2>3. WithinArrays([mfi EXCEPT !.from = new])
      BY <2>2 DEF WithinArrays, MudFileInfo
    <2> QED
      BY <1>3, <2>3 DEF Named, new
  <1>4. CASE s = "TO_DEVICE_POLICY"
    <2> DEFINE new == [mfi.to EXCEPT ![Len(mfi.to)] = name]
    <2>1. mfi.to # <<>>
      BY <1>4 DEF HasEntry
    <2>2. new \in Seq(Stored) /\ Len(new) = Len(mfi.to)
      BY <1>1, <1>2, <2>1, LastInside, ExceptSeq
    <2> HIDE DEF new
    <2>3. WithinArrays([mfi EXCEPT !.to = new])
      BY <2>2 DEF WithinArrays, MudFileInfo
    <2> QED
      BY <1>4, <2>3 DEF Named, new
  <1>5. CASE s = "ACL"
    <2> DEFINE n == Len(mfi.acls)
               entry == [mfi.acls[n] EXCEPT !.aclName = name]
    <2>1. mfi.acls # <<>>
      BY <1>5 DEF HasEntry
    <2>2. n \in 1..n /\ mfi.acls[n] \in AclEntry /\ Len(mfi.acls[n].aceList) <= MaxAces
      BY <2>1, LastAcl
    <2>3. entry \in AclEntry /\ entry.aceList = mfi.acls[n].aceList
      BY <1>1, <2>2 DEF AclEntry
    <2> HIDE DEF entry
    <2>4. WithinArrays([mfi EXCEPT !.acls[n] = entry])
      BY <2>2, <2>3, AclStored
    <2>5. Named(s, name) = [mfi EXCEPT !.acls[n] = entry]
      BY <1>5 DEF Named, entry
    <2> QED
      BY <2>4, <2>5
  <1>6. CASE s = "ACES"
    <2> DEFINE ace == [Last(Last(mfi.acls).aceList) EXCEPT !.ruleName = name]
    <2>1. HasAce
      BY <1>6 DEF HasEntry
    <2>2. ace \in AceEntry
      BY <1>1, <2>1, LastAceType DEF AceEntry
    <2> HIDE DEF ace
    <2>3. WithinArrays(WithAce(ace))
      BY <2>1, <2>2, AceStored
    <2> QED
      BY <1>6, <2>3 DEF Named, ace
  <1>7. CASE s \notin {"FROM_DEVICE_POLICY", "TO_DEVICE_POLICY", "ACL", "ACES"}
    BY <1>7 DEF Named
  <1> QED
    BY <1>3, <1>4, <1>5, <1>6, <1>7

LEMMA IncrementType ==
    ASSUME WithinArrays(mfi), IncrementState
    PROVE  WithinArrays(mfi)'
  <1>1. /\ mfi.from \in Seq(Stored) /\ mfi.to \in Seq(Stored) /\ mfi.acls \in Seq(AclEntry)
        /\ Len(mfi.from) \in Nat /\ Len(mfi.to) \in Nat /\ Len(mfi.acls) \in Nat
    BY LenProperties DEF WithinArrays, MudFileInfo
  <1>2. Null \in Stored
    BY DEF Stored
  <1>3. MaxPolicies \in Nat /\ MaxAcls \in Nat /\ MaxAces \in Nat
    BY ParserAssumption
  <1>4. ASSUME Store(Len(mfi.from) < MaxPolicies, [mfi EXCEPT !.from = Append(@, Null)])
        PROVE  WithinArrays(mfi)'
    <2> DEFINE new == Append(mfi.from, Null)
    <2>1. new \in Seq(Stored) /\ Len(new) = Len(mfi.from) + 1
      BY <1>1, <1>2, AppendProperties
    <2> HIDE DEF new
    <2>2. Len(mfi.from) < MaxPolicies => Len(new) <= MaxPolicies
      BY <1>1, <1>3, <2>1
    <2>3. Len(mfi.from) < MaxPolicies => WithinArrays([mfi EXCEPT !.from = new])
      BY <2>1, <2>2 DEF WithinArrays, MudFileInfo
    <2> QED
      BY <1>4, <2>3, StoreType DEF new
  <1>5. ASSUME Store(Len(mfi.to) < MaxPolicies, [mfi EXCEPT !.to = Append(@, Null)])
        PROVE  WithinArrays(mfi)'
    <2> DEFINE new == Append(mfi.to, Null)
    <2>1. new \in Seq(Stored) /\ Len(new) = Len(mfi.to) + 1
      BY <1>1, <1>2, AppendProperties
    <2> HIDE DEF new
    <2>2. Len(mfi.to) < MaxPolicies => Len(new) <= MaxPolicies
      BY <1>1, <1>3, <2>1
    <2>3. Len(mfi.to) < MaxPolicies => WithinArrays([mfi EXCEPT !.to = new])
      BY <2>1, <2>2 DEF WithinArrays, MudFileInfo
    <2> QED
      BY <1>5, <2>3, StoreType DEF new
  <1>6. ASSUME Store(Len(mfi.acls) < MaxAcls,
                     [mfi EXCEPT !.acls = Append(@, [aclName |-> Null, aceList |-> <<>>])])
        PROVE  WithinArrays(mfi)'
    <2> DEFINE blank == [aclName |-> Null, aceList |-> <<>>]
               new == Append(mfi.acls, blank)
    <2>1. blank \in AclEntry /\ Len(blank.aceList) <= MaxAces
      BY <1>2, <1>3 DEF AclEntry
    <2>2. /\ new \in Seq(AclEntry) /\ Len(new) = Len(mfi.acls) + 1
          /\ new[Len(mfi.acls) + 1] = blank
          /\ \A i \in 1..Len(mfi.acls) : new[i] = mfi.acls[i]
          /\ DOMAIN new = 1..Len(mfi.acls) + 1 /\ DOMAIN mfi.acls = 1..Len(mfi.acls)
      BY <1>1, <2>1, AppendProperties, LenProperties
    <2> HIDE DEF new, blank
    <2>3. \A i \in DOMAIN new : Len(new[i].aceList) <= MaxAces
      BY <1>1, <2>1, <2>2 DEF WithinArrays
    <2>4. Len(mfi.acls) < MaxAcls => Len(new) <= MaxAcls
      BY <1>1, <1>3, <2>2
    <2>5. Len(mfi.acls) < MaxAcls => WithinArrays([mfi EXCEPT !.acls = new])
      BY <2>2, <2>3, <2>4 DEF WithinArrays, MudFileInfo
    <2> QED
      BY <1>6, <2>5, StoreType DEF new, blank
  <1>7. ASSUME Store(mfi.acls # <<>> /\ Len(Last(mfi.acls).aceList) < MaxAces,
                     [mfi EXCEPT !.acls[Len(mfi.acls)].aceList = Append(@, BlankAce)])
        PROVE  WithinArrays(mfi)'
    <2> DEFINE n == Len(mfi.acls)
               list == Append(Last(mfi.acls).aceList, BlankAce)
               entry == [Last(mfi.acls) EXCEPT !.aceList = list]
    <2>1. ASSUME mfi.acls # <<>>, Len(Last(mfi.acls).aceList) < MaxAces
          PROVE  WithinArrays([mfi EXCEPT !.acls[n].aceList = Append(@, BlankAce)])
      <3>1. /\ n \in 1..n /\ Last(mfi.acls) = mfi.acls[n] /\ Last(mfi.acls) \in AclEntry
            /\ Last(mfi.acls).aceList \in Seq(AceEntry)
            /\ Len(Last(mfi.acls).aceList) \in Nat
        BY <2>1, LastAcl, LenProperties
      <3>2. BlankAce \in AceEntry
        BY <1>2 DEF BlankAce, AceEntry, AceType
      <3>3. list \in Seq(AceEntry) /\ Len(list) = Len(Last(mfi.acls).aceList) + 1
        BY <3>1, <3>2, AppendProperties
      <3>4. [mfi EXCEPT !.acls[n].aceList = Append(@, BlankAce)]
              = [mfi EXCEPT !.acls[n] = entry]
        BY <3>1 DEF WithinArrays, MudFileInfo
      <3> HIDE DEF list
      <3>5. entry \in AclEntry /\ entry.aceList = list
        BY <3>1, <3>3 DEF AclEntry
      <3>6. Len(entry.aceList) <= MaxAces
        BY <1>3, <2>1, <3>1, <3>3, <3>5
      <3> HIDE DEF entry
      <3> QED
        BY <3>1, <3>4, <3>5, <3>6, AclStored
    <2> QED
      BY <1>7, <2>1, StoreType
  <1>8. CASE UNCHANGED mfi
    BY <1>8 DEF WithinArrays
  <1> QED
    BY <1>4, <1>5, <1>6, <1>7, <1>8 DEF IncrementState

LEMMA ArrayMemberType ==
    ASSUME WithinArrays(mfi), ArrayMember
    PROVE  WithinArrays(mfi)'
  <1>1. CASE token.key \in ArrayKeys
    <2> DEFINE ace == [Last(Last(mfi.acls).aceList) EXCEPT !.aceType = TypeOfArray(token.key)]
    <2>1. HasAce => ace \in AceEntry
      BY <1>1, LastAceType, TypeOfArrayType DEF AceEntry
    <2> HIDE DEF ace
    <2>2. HasAce => WithinArrays(WithAce(ace))
      BY <2>1, AceStored
    <2> QED
      BY <1>1, <2>2, StoreType DEF ArrayMember, ace
  <1>2. CASE token.key \notin ArrayKeys
    BY <1>2 DEF ArrayMember, WithinArrays
  <1> QED
    BY <1>1, <1>2

(* What every token does to the stack. *)
StackStep(kind) ==
    \/ kind = "object" /\ stack' = Append(stack, NewState(token.key, state))
    \/ kind \in {"array", "element"} /\ stack' = Append(stack, state)
    \/ kind = "close" /\ stack' = Front(stack)
    \/ kind \in {"string", "nulls", "scalar"} /\ stack' = stack

LEMMA TokenType ==
    ASSUME TypeInv, next <= Len(document.text)
    PROVE  /\ next \in DOMAIN document.text /\ token \in Token /\ state \in State
           /\ next - 1 \in 0..Len(document.text) - 1
  <1>1. document.text \in Seq(Token) /\ Len(document.text) \in Nat
    BY DocumentType DEF TypeInv
  <1>2. next \in 1..Len(document.text)
    BY <1>1 DEF TypeInv, TypeOK
  <1>3. token \in Token
    BY <1>1, <1>2, ElementOfSeq DEF token
  <1>4. state \in State
    BY LastInside DEF TypeInv, TypeOK, state
  <1> QED
    BY <1>1, <1>2, <1>3, <1>4, LenProperties

LEMMA StackType ==
    ASSUME TypeInv, NEW kind, At(kind), StackStep(kind)
    PROVE  /\ stack' \in Seq(State) \ {<<>>}
           /\ Len(stack)' = Deep(document.text, next - 1)' + 1
  <1>1. /\ next \in DOMAIN document.text /\ token \in Token /\ state \in State
        /\ next - 1 \in 0..Len(document.text) - 1
        /\ token.is = kind /\ next' = next + 1 /\ document' = document
    BY TokenType DEF At
  <1>2. /\ document.text \in Seq(Token) /\ WellNested(document.text)
        /\ Len(document.text) \in Nat /\ document.text[next] = token
    BY DocumentType DEF TypeInv, token
  <1> DEFINE d == Deep(document.text, next - 1)
  <1>3. next = (next - 1) + 1 /\ next' - 1 = next /\ next \in Nat
    BY <1>1, <1>2
  <1>4. /\ next \in Opening(document.text) => Deep(document.text, next) = d + 1
        /\ next \in Closing(document.text) => Deep(document.text, next) = d - 1
        /\ next \notin Opening(document.text) \cup Closing(document.text) =>
              Deep(document.text, next) = d
    BY <1>1, <1>2, <1>3, DeepNext
  <1>5. Deep(document.text, next) \in Nat /\ d \in Nat
    BY <1>1, <1>2, DeepType
  <1>6. Deep(document.text, next - 1)' = Deep(document.text, next)
    BY <1>1, <1>3
  <1>7. stack \in Seq(State) /\ stack # <<>> /\ Len(stack) = d + 1
    BY DEF TypeInv, TypeOK
  <1> HIDE DEF d
  <1>8. CASE \/ kind = "object" /\ stack' = Append(stack, NewState(token.key, state))
             \/ kind \in {"array", "element"} /\ stack' = Append(stack, state)
    <2>1. next \in Opening(document.text)
      BY <1>1, <1>2, <1>8 DEF Opening
    <2>2. PICK s \in State : stack' = Append(stack, s)
      BY <1>1, <1>8, NewStateType
    <2>3. stack' \in Seq(State) /\ Len(stack') = Len(stack) + 1
      BY <1>7, <2>2, AppendProperties
    <2> QED
      BY <1>4, <1>5, <1>6, <1>7, <2>1, <2>3, EmptySeq
  <1>9. CASE kind = "close" /\ stack' = Front(stack)
    <2>1. next \in Closing(document.text)
      BY <1>1, <1>2, <1>9 DEF Closing
    <2>2. d - 1 \in Nat
      BY <1>4, <1>5, <2>1
    <2>3. Len(stack) - 1 \in 1..Len(stack) /\ Len(stack) \in Nat
      BY <1>5, <1>7, <2>2
    <2>4. stack' = SubSeq(stack, 1, Len(stack) - 1)
      BY <1>9 DEF Front
    <2>5. stack' \in Seq(State) /\ Len(stack') = Len(stack) - 1
      BY <1>7, <2>3, <2>4, SMT
    <2> QED
      BY <1>4, <1>5, <1>6, <1>7, <2>1, <2>3, <2>5, EmptySeq
  <1>10. CASE kind \in {"string", "nulls", "scalar"} /\ stack' = stack
    <2>1. next \notin Opening(document.text) \cup Closing(document.text)
      BY <1>1, <1>2, <1>10 DEF Opening, Closing
    <2> QED
      BY <1>4, <1>6, <1>7, <1>10, <2>1
  <1> QED
    BY <1>8, <1>9, <1>10 DEF StackStep

LEMMA NextType == TypeInv /\ [Next]_vars => TypeInv'
  <1> SUFFICES ASSUME TypeInv, [Next]_vars
               PROVE  TypeInv'
    OBVIOUS
  <1>1. WithinArrays(mfi)
    BY DEF TypeInv, TypeOK, WithinArrays
  <1>2. ASSUME NEW kind, At(kind), StackStep(kind), WithinArrays(mfi)',
               pc' \in {"walk", "astray", "crashed"}
        PROVE  TypeInv'
    <2>1. document' = document /\ next' = next + 1 /\ next <= Len(document.text)
      BY <1>2 DEF At
    <2>2. next' \in 1..Len(document.text) + 1
      BY <2>1, TokenType, DocumentType DEF TypeInv, TypeOK
    <2>3. stack' \in Seq(State) \ {<<>>} /\ Len(stack)' = Deep(document.text, next - 1)' + 1
      BY <1>2, StackType
    <2>4. IsMudFileInfo(document.file) /\ document \in Documents
      BY DEF TypeInv, TypeOK
    <2> QED
      BY <1>2, <2>1, <2>2, <2>3, <2>4 DEF TypeInv, TypeOK, WithinArrays, MudFileInfo
  <1>3. pc = "walk" /\ next <= Len(document.text) => token \in Token /\ token.val \in Val
    BY TokenType DEF Token
  <1>4. CASE ProcessName
    <2>1. /\ At("string") /\ Store(HasEntry(state), Named(state, token.val))
          /\ stack' = stack /\ pc = "walk" /\ token.val \in Val
      BY <1>3, <1>4 DEF ProcessName, At
    <2>2. WithinArrays(mfi)'
      BY <1>1, <2>1, NameStored, StoreType
    <2> QED
      BY <1>2, <2>1, <2>2 DEF StackStep, Store
  <1>5. CASE ProcessType
    <2>1. At("string") /\ Store(state = "ACES" \/ HasEntry(state), mfi) /\ stack' = stack
      BY <1>5 DEF ProcessType
    <2>2. WithinArrays(mfi)'
      BY <1>1, <2>1, StoreType
    <2> QED
      BY <1>2, <2>1, <2>2 DEF StackStep, Store, At
  <1>6. CASE ProcessAceString
    <2> DEFINE ace == StoredInAce(Last(Last(mfi.acls).aceList), token.key, token.val)
    <2>1. At("string") /\ Store(HasAce, WithAce(ace)) /\ stack' = stack /\ pc = "walk"
             /\ token.val \in Val
      BY <1>3, <1>6 DEF ProcessAceString, At
    <2>2. HasAce => ace \in AceEntry
      BY <1>1, <2>1, LastAceType, StoredInAceType
    <2> HIDE DEF ace
    <2>3. WithinArrays(mfi)'
      BY <1>1, <2>1, <2>2, AceStored, StoreType
    <2> QED
      BY <1>2, <2>1, <2>3 DEF StackStep, Store
  <1>7. CASE ProcessOtherString
    <2>1. At("string") /\ UNCHANGED <<stack, mfi, pc>>
      BY <1>7 DEF ProcessOtherString
    <2> QED
      BY <1>1, <1>2, <2>1 DEF StackStep, At, WithinArrays
  <1>8. CASE OpenObject \/ Close
    <2>1. WithinArrays(mfi)' /\ pc' = pc
      BY <1>1, <1>8 DEF OpenObject, Close, WithinArrays
    <2> QED
      BY <1>2, <1>8, <2>1 DEF OpenObject, Close, StackStep, At
  <1>9. CASE OpenArray \/ SkipNullArray
    <2>1. ArrayMember /\ pc = "walk"
      BY <1>9 DEF OpenArray, SkipNullArray, At
    <2>2. WithinArrays(mfi)' /\ pc' \in {"walk", "astray"}
      BY <1>1, <2>1, ArrayMemberType DEF ArrayMember, Store
    <2> QED
      BY <1>2, <1>9, <2>2 DEF OpenArray, SkipNullArray, StackStep
  <1>10. CASE OpenElement
    <2>1. IncrementState /\ pc = "walk"
      BY <1>10 DEF OpenElement, At
    <2>2. WithinArrays(mfi)' /\ pc' \in {"walk", "astray"}
      BY <1>1, <2>1, IncrementType DEF IncrementState, Store
    <2> QED
      BY <1>2, <1>10, <2>2 DEF OpenElement, StackStep
  <1>11. CASE CrashOnScalar
    BY <1>1, <1>2, <1>11 DEF CrashOnScalar, StackStep, WithinArrays
  <1>12. CASE Return \/ UNCHANGED vars
    <2>1. UNCHANGED <<document, next, stack, mfi>> /\ pc' \in {pc, "done"}
      BY <1>12 DEF Return, vars
    <2> QED
      BY <2>1 DEF TypeInv, TypeOK
  <1> QED
    BY <1>4, <1>5, <1>6, <1>7, <1>8, <1>9, <1>10, <1>11, <1>12 DEF Next

(* For every well-nested document, whatever keys it uses and whatever its   *)
(* strings are: the walk never returns from more calls than it made, and    *)
(* as long as it is followed no counter exceeds its array.                 *)
THEOREM TypeCorrect == Spec => []TypeOK
  <1>1. TypeInv => TypeOK
    BY DEF TypeInv
  <1> QED
    BY <1>1, InitType, NextType, PTL DEF Spec

-----------------------------------------------------------------------------
(* Places in a document.  A token that opens something encloses what comes   *)
(* before the walk is less deep again.                                     *)

Holds(text, j, i) ==
    /\ j \in Opening(text)
    /\ j < i
    /\ \A m \in j..i - 1 : Deep(text, j) <= Deep(text, m)

LEMMA OpeningType ==
    ASSUME NEW text \in Seq(Token), WellNested(text), NEW j \in Opening(text)
    PROVE  /\ j \in 1..Len(text) /\ j \in Nat \ {0} /\ Len(text) \in Nat
           /\ Deep(text, j) \in Nat /\ Deep(text, j - 1) \in Nat
           /\ Deep(text, j) = Deep(text, j - 1) + 1
  <1>1. j \in 1..Len(text) /\ Len(text) \in Nat
    BY LenProperties DEF Opening
  <1>2. j - 1 \in 0..Len(text) - 1 /\ j - 1 \in 0..Len(text) /\ j \in 0..Len(text)
        /\ (j - 1) + 1 = j
    BY <1>1
  <1> QED
    BY <1>1, <1>2, DeepType, DeepNext

LEMMA EnclosesNext ==
    ASSUME NEW text \in Seq(Token), WellNested(text), NEW n \in 1..Len(text), NEW j
    PROVE  Holds(text, j, n + 1) <=>
              \/ Holds(text, j, n) /\ Deep(text, j) <= Deep(text, n)
              \/ j = n /\ n \in Opening(text)
  <1>1. n \in Nat /\ (n + 1) - 1 = n
    OBVIOUS
  <1>2. CASE j \in Opening(text)
    <2>1. j \in Nat /\ Deep(text, j) \in Nat
      BY <1>2, OpeningType
    <2>2. CASE j < n
      <3>1. j..n = (j..n - 1) \cup {n} /\ j < n + 1 /\ j # n
        BY <1>1, <2>1, <2>2
      <3> QED
        BY <1>1, <1>2, <2>2, <3>1 DEF Holds
    <2>3. CASE j = n
      <3>1. j..n = {n} /\ j < n + 1 /\ ~(j < n)
        BY <1>1, <2>1, <2>3
      <3> QED
        BY <1>1, <1>2, <2>1, <2>3, <3>1 DEF Holds
    <2>4. CASE j > n
      <3>1. ~(j < n + 1) /\ ~(j < n) /\ j # n
        BY <1>1, <2>1, <2>4
      <3> QED
        BY <3>1 DEF Holds
    <2> QED
      BY <1>1, <2>1, <2>2, <2>3, <2>4
  <1>3. CASE j \notin Opening(text)
    BY <1>3 DEF Holds
  <1> QED
    BY <1>2, <1>3

LEMMA EnclosedIsDeeper ==
    ASSUME NEW text \in Seq(Token), WellNested(text), NEW n \in 1..Len(text) + 1,
           NEW j, Holds(text, j, n)
    PROVE  Deep(text, j) <= Deep(text, n - 1) /\ j \in 1..n - 1 /\ Deep(text, j) \in Nat
  <1>1. j \in Nat \ {0} /\ j < n /\ n \in Nat /\ Deep(text, j) \in Nat
    BY OpeningType, LenProperties DEF Holds
  <1>2. n - 1 \in j..n - 1 /\ j \in 1..n - 1
    BY <1>1
  <1> QED
    BY <1>1, <1>2 DEF Holds

(* The objects around a place whose keys set a state, and the innermost.    *)
StateKeys == {"ietf-mud:mud", "ietf-access-control-list:access-lists",
              "ietf-access-control-list:acls", "acl", "from-device-policy",
              "to-device-policy", "aces"}

SetsState(text) == {j \in DOMAIN text : text[j].is = "object" /\ text[j].key \in StateKeys}

Around(text, i) == {j \in SetsState(text) : Holds(text, j, i)}

Innermost(K) == CHOOSE j \in K : \A k \in K : k <= j

StateOf(text, K) == IF K = {} THEN "NONE" ELSE NewState(text[Innermost(K)].key, "NONE")

StateAt(text, i) == StateOf(text, Around(text, i))

AroundUpTo(text, i, d) == {j \in Around(text, i) : Deep(text, j) <= d}

LEMMA KeyState ==
    ASSUME NEW key, NEW s
    PROVE  NewState(key, s) = IF key \in StateKeys THEN NewState(key, "NONE") ELSE s
  BY DEF NewState, StateKeys

LEMMA AllAround ==
    ASSUME NEW text \in Seq(Token), WellNested(text), NEW n \in 1..Len(text) + 1
    PROVE  AroundUpTo(text, n, Deep(text, n - 1)) = Around(text, n)
  BY EnclosedIsDeeper DEF AroundUpTo, Around

(* A token changes nothing around what stays open. *)
LEMMA AroundStays ==
    ASSUME NEW text \in Seq(Token), WellNested(text), NEW n \in 1..Len(text),
           NEW d \in Nat, d <= Deep(text, n - 1), d <= Deep(text, n)
    PROVE  AroundUpTo(text, n + 1, d) = AroundUpTo(text, n, d)
  <1>1. n - 1 \in 0..Len(text) /\ n \in 0..Len(text) /\ n \in 1..Len(text) + 1
    BY LenProperties
  <1>2. Deep(text, n - 1) \in Nat /\ Deep(text, n) \in Nat
    BY <1>1, DeepType
  <1>3. n \in Opening(text) => Deep(text, n) = Deep(text, n - 1) + 1
    BY OpeningType
  <1>4. ASSUME NEW j, Holds(text, j, n)
        PROVE  Deep(text, j) \in Nat
    BY <1>1, <1>4, EnclosedIsDeeper
  <1>5. ASSUME NEW j, Deep(text, j) <= d
        PROVE  Holds(text, j, n + 1) <=> Holds(text, j, n)
    BY <1>2, <1>3, <1>4, <1>5, EnclosesNext
  <1> QED
    BY <1>5 DEF AroundUpTo, Around

(* ... and one that opens something is around what follows. *)
LEMMA AroundOpened ==
    ASSUME NEW text \in Seq(Token), WellNested(text), NEW n \in Opening(text)
    PROVE  Around(text, n + 1) = Around(text, n) \cup (SetsState(text) \cap {n})
  <1>1. n \in 1..Len(text) /\ n \in 1..Len(text) + 1
    BY OpeningType
  <1>2. /\ Deep(text, n) = Deep(text, n - 1) + 1 /\ Deep(text, n) \in Nat
        /\ Deep(text, n - 1) \in Nat
    BY OpeningType
  <1>3. ASSUME NEW j
        PROVE  Holds(text, j, n + 1) <=> Holds(text, j, n) \/ j = n
    <2>1. Holds(text, j, n) => Deep(text, j) <= Deep(text, n)
      BY <1>1, <1>2, EnclosedIsDeeper
    <2> QED
      BY <1>1, <2>1, EnclosesNext
  <1> QED
    BY <1>3 DEF Around

LEMMA InnermostNext ==
    ASSUME NEW K \in SUBSET Nat, NEW n \in Nat, \A k \in K : k < n
    PROVE  Innermost(K \cup {n}) = n
  <1> DEFINE j == Innermost(K \cup {n})
  <1>1. n \in K \cup {n} /\ \A k \in K \cup {n} : k <= n
    OBVIOUS
  <1>2. j \in K \cup {n} /\ \A k \in K \cup {n} : k <= j
    BY <1>1 DEF Innermost
  <1>3. j \in Nat /\ n <= j /\ j <= n
    BY <1>1, <1>2
  <1> QED
    BY <1>3

(* The state under what a token opens. *)
LEMMA StateOpened ==
    ASSUME NEW text \in Seq(Token), WellNested(text), NEW n \in Opening(text)
    PROVE  StateAt(text, n + 1) =
              IF text[n].is = "object" THEN NewState(text[n].key, StateAt(text, n))
              ELSE StateAt(text, n)
  <1>1. n \in DOMAIN text /\ n \in 1..Len(text) + 1 /\ n \in Nat
    BY OpeningType DEF Opening
  <1>2. \A j \in Around(text, n) : j \in Nat /\ j < n
    <2> SUFFICES ASSUME NEW j \in Around(text, n)
                 PROVE  j \in Nat /\ j < n
      OBVIOUS
    <2>1. j \in 1..n - 1
      BY <1>1, EnclosedIsDeeper DEF Around
    <2> QED
      BY <1>1, <2>1
  <1>3. CASE n \in SetsState(text)
    <2>1. Around(text, n + 1) = Around(text, n) \cup {n}
      BY <1>3, AroundOpened
    <2>2. Innermost(Around(text, n + 1)) = n
      BY <1>1, <1>2, <2>1, InnermostNext
    <2>3. StateAt(text, n + 1) = NewState(text[n].key, "NONE")
      BY <2>1, <2>2 DEF StateAt, StateOf
    <2> QED
      BY <1>3, <2>3, KeyState DEF SetsState
  <1>4. CASE n \notin SetsState(text)
    <2>1. SetsState(text) \cap {n} = {}
      BY <1>4
    <2>2. Around(text, n + 1) = Around(text, n) \cup (SetsState(text) \cap {n})
      BY AroundOpened
    <2>3. Around(text, n + 1) = Around(text, n)
      BY <2>1, <2>2
    <2> QED
      BY <1>1, <1>4, <2>3, KeyState DEF SetsState, StateAt
  <1> QED
    BY <1>3, <1>4

(* More about counting. *)
LEMMA CountGrows ==
    ASSUME NEW S, NEW m \in Nat, NEW n \in Nat, m <= n
    PROVE  Count(S, m) <= Count(S, n) /\ Count(S, m) \in Nat /\ Count(S, n) \in Nat
  <1>1. IsFiniteSet(S \cap 1..n) /\ Count(S, n) \in Nat /\ Count(S, m) \in Nat
    BY UpToFinite
  <1>2. S \cap 1..m \in SUBSET (S \cap 1..n)
    OBVIOUS
  <1>3. Cardinality(S \cap 1..m) <= Cardinality(S \cap 1..n)
    BY <1>1, <1>2, FS_Subset
  <1> QED
    BY <1>1, <1>3 DEF Count

LEMMA CountMember ==
    ASSUME NEW S, NEW j \in S, j \in Nat \ {0}
    PROVE  Count(S, j) = Count(S, j - 1) + 1 /\ Count(S, j) \in Nat /\ Count(S, j - 1) \in Nat
  <1>1. j - 1 \in Nat /\ (j - 1) + 1 = j /\ j \in Nat
    OBVIOUS
  <1>2. Count(S, (j - 1) + 1) = Count(S, j - 1) + 1
    BY <1>1, CountNext
  <1> QED
    BY <1>1, <1>2, UpToFinite

LEMMA CountOrder ==
    ASSUME NEW S, NEW m \in Nat, NEW j \in S, j \in Nat, m < j
    PROVE  Count(S, m) < Count(S, j)
  <1>1. j \in Nat \ {0} /\ j - 1 \in Nat /\ m <= j - 1
    OBVIOUS
  <1>2. Count(S, m) <= Count(S, j - 1) /\ Count(S, m) \in Nat
    BY <1>1, CountGrows
  <1>3. Count(S, j) = Count(S, j - 1) + 1 /\ Count(S, j - 1) \in Nat
    BY <1>1, CountMember
  <1> QED
    BY <1>2, <1>3

LEMMA CountSame ==
    ASSUME NEW S, NEW m \in Nat, NEW n \in Nat, m <= n, \A i \in S : ~(m < i /\ i <= n)
    PROVE  Count(S, m) = Count(S, n)
  <1>1. S \cap 1..m = S \cap 1..n
    OBVIOUS
  <1> QED
    BY <1>1 DEF Count

LEMMA CountAll ==
    ASSUME NEW n \in Nat, NEW S \in SUBSET (1..n)
    PROVE  Count(S, n) = Cardinality(S)
  <1>1. S \cap 1..n = S
    OBVIOUS
  <1> QED
    BY <1>1 DEF Count

(* Every number up to the last is the number of some member. *)
LEMMA CountReaches ==
    ASSUME NEW S, NEW n \in Nat, NEW k \in 1..Count(S, n)
    PROVE  \E j \in S : j \in 1..n /\ Count(S, j) = k
  <1> DEFINE T == {j \in Nat : k <= Count(S, j)}
  <1>1. Count(S, n) \in Nat /\ k \in Nat \ {0}
    <2>1. Count(S, n) \in Nat
      BY UpToFinite
    <2> QED
      BY <2>1
  <1>2. n \in T
    BY <1>1
  <1>3. PICK j \in T : \A m \in T : j <= m
    BY <1>2, LeastNumber
  <1>4. j \in Nat /\ j <= n /\ k <= Count(S, j)
    BY <1>2, <1>3
  <1>5. j # 0
    BY <1>1, <1>4, CountNone
  <1>6. j - 1 \in Nat /\ (j - 1) + 1 = j /\ j \in 1..n
    BY <1>4, <1>5
  <1>7. ~(k <= Count(S, j - 1)) /\ Count(S, j - 1) \in Nat
    <2>1. j - 1 \in T => j <= j - 1
      BY <1>3
    <2>2. Count(S, j - 1) \in Nat
      BY <1>6, UpToFinite
    <2> QED
      BY <1>6, <2>1, <2>2
  <1>8. Count(S, (j - 1) + 1) = IF j \in S THEN Count(S, j - 1) + 1 ELSE Count(S, j - 1)
    BY <1>6, CountNext
  <1> HIDE DEF T
  <1>9. j \in S /\ Count(S, j) = k
    BY <1>1, <1>4, <1>6, <1>7, <1>8
  <1> QED
    BY <1>6, <1>9

LEMMA GreatestNumber ==
    ASSUME NEW n \in Nat, NEW T \in SUBSET (1..n), T # {}
    PROVE  \E j \in T : \A m \in T : m <= j
  <1> DEFINE B == {j \in Nat : \A m \in T : m <= j}
  <1>1. n \in B
    OBVIOUS
  <1>2. PICK j \in B : \A m \in B : j <= m
    BY <1>1, LeastNumber
  <1>3. ASSUME j \notin T
        PROVE  FALSE
    <2>1. PICK m \in T : m \in 1..n /\ m <= j
      BY <1>2
    <2>2. j - 1 \in Nat
      BY <1>2, <2>1
    <2>3. \A i \in T : i <= j - 1
      BY <1>2, <1>3
    <2>4. j - 1 \in B
      BY <2>2, <2>3
    <2> QED
      BY <1>2, <2>2, <2>4
  <1> QED
    BY <1>2, <1>3

-----------------------------------------------------------------------------
(* Sections, as the document has them and as the walk sees them.            *)

LEMMA EnclosesIs ==
    ASSUME NEW text \in Seq(Token), WellNested(text), NEW i \in 1..Len(text) + 1,
           NEW j \in Opening(text)
    PROVE  Holds(text, j, i) <=> Encloses(Depth(text), j, i)
  <1>1. j \in 1..Len(text) /\ j \in 0..Len(text) /\ j \in Nat /\ Len(text) \in Nat
    BY OpeningType
  <1>2. \A m \in j..i - 1 : m \in 0..Len(text)
    BY <1>1
  <1>3. \A m \in j..i - 1 : Depth(text)[m] = Deep(text, m)
    BY <1>2, DeepType
  <1>4. Depth(text)[j] = Deep(text, j)
    BY <1>1, DeepType
  <1> QED
    BY <1>3, <1>4 DEF Holds, Encloses

LEMMA SectionState ==
    ASSUME NEW s \in Section, NEW key
    PROVE  key \in SectionKeys(s) <=> key \in StateKeys /\ NewState(key, "NONE") = s
  BY DEF Section, SectionKeys, StateKeys, NewState

LEMMA SectionsAre ==
    ASSUME NEW text
    PROVE  Sections(text) = SetsState(text)
  <1>1. \A key : (\E s \in Section : key \in SectionKeys(s)) <=> key \in StateKeys
    BY DEF Section, SectionKeys, StateKeys
  <1> QED
    BY <1>1 DEF Sections, SetsState

LEMMA SetsStateOpens ==
    ASSUME NEW text, NEW j \in SetsState(text)
    PROVE  j \in Opening(text) /\ text[j].key \in StateKeys
  BY DEF SetsState, Opening

LEMMA InIsState ==
    ASSUME NEW text \in Seq(Token), WellNested(text), NEW i \in DOMAIN text, NEW s \in Section
    PROVE  i \in In(text, Depth(text), s) <=> StateAt(text, i) = s
  <1> DEFINE K == Around(text, i)
             most(j) == j \in K /\ \A k \in K : k <= j
  <1>1. i \in 1..Len(text) /\ i \in 1..Len(text) + 1 /\ Len(text) \in Nat
    BY LenProperties
  <1>2. \A j : j \in K <=> j \in Sections(text) /\ Encloses(Depth(text), j, i)
    BY <1>1, SectionsAre, SetsStateOpens, EnclosesIs DEF Around
  <1>3. K \in SUBSET (1..Len(text)) /\ K \subseteq SetsState(text)
    <2>1. \A j \in K : j \in Opening(text) /\ j \in SetsState(text)
      BY SetsStateOpens DEF Around
    <2> QED
      BY <2>1, OpeningType
  <1>4. K # {} => \E j : most(j)
    BY <1>1, <1>3, GreatestNumber
  <1>5. i \in In(text, Depth(text), s)
          <=> \E j : most(j) /\ text[j].key \in SectionKeys(s)
    BY <1>2 DEF In
  <1>6. \A j : most(j) => Innermost(K) = j
    <2> SUFFICES ASSUME NEW j, most(j)
                 PROVE  Innermost(K) = j
      OBVIOUS
    <2>1. most(Innermost(K))
      BY DEF Innermost
    <2>2. j \in Nat /\ Innermost(K) \in Nat /\ j <= Innermost(K) /\ Innermost(K) <= j
      BY <1>3, <2>1
    <2> QED
      BY <2>2
  <1>7. \A j : most(j) => text[j].key \in StateKeys /\ j \in K
    BY <1>3, SetsStateOpens
  <1>8. StateAt(text, i) = IF K = {} THEN "NONE" ELSE NewState(text[Innermost(K)].key, "NONE")
    BY DEF StateAt, StateOf
  <1>9. s # "NONE"
    BY DEF Section
  <1> HIDE DEF K
  <1>10. CASE K = {}
    BY <1>5, <1>8, <1>9, <1>10
  <1>11. CASE K # {}
    <2>1. PICK j : most(j)
      BY <1>4, <1>11
    <2>2. Innermost(K) = j
      BY <1>6, <2>1
    <2>3. i \in In(text, Depth(text), s) <=> text[j].key \in SectionKeys(s)
      BY <1>5, <1>6, <2>1, <2>2
    <2>4. text[j].key \in SectionKeys(s) <=> NewState(text[j].key, "NONE") = s
      BY <1>7, <2>1, SectionState
    <2> QED
      BY <1>8, <1>11, <2>2, <2>3, <2>4
  <1> QED
    BY <1>10, <1>11

-----------------------------------------------------------------------------
(* The state that the walk is in is that of the place it is at.             *)

StackInv ==
    \A d \in 0..Deep(document.text, next - 1) :
        stack[d + 1] = StateOf(document.text, AroundUpTo(document.text, next, d))

LEMMA StateIsRight ==
    ASSUME TypeInv, StackInv
    PROVE  state = StateAt(document.text, next)
  <1>1. /\ document.text \in Seq(Token) /\ WellNested(document.text)
        /\ Len(document.text) \in Nat
    BY DocumentType DEF TypeInv
  <1>2. next \in 1..Len(document.text) + 1 /\ next - 1 \in 0..Len(document.text)
    BY <1>1 DEF TypeInv, TypeOK
  <1> DEFINE d == Deep(document.text, next - 1)
  <1>3. d \in Nat /\ Len(stack) = d + 1
    BY <1>1, <1>2, DeepType DEF TypeInv
  <1>4. stack[d + 1] = StateOf(document.text, AroundUpTo(document.text, next, d))
    BY <1>3 DEF StackInv
  <1>5. AroundUpTo(document.text, next, d) = Around(document.text, next)
    BY <1>1, <1>2, AllAround
  <1>6. state = stack[Len(stack)]
    BY DEF state, Last
  <1> QED
    BY <1>3, <1>4, <1>5, <1>6 DEF StateAt

LEMMA StackInit == Init => StackInv
  <1> SUFFICES ASSUME Init
               PROVE  StackInv
    OBVIOUS
  <1>1. document \in Documents /\ next = 1 /\ stack = <<"NONE">>
    BY DEF Init
  <1>2. Deep(document.text, next - 1) = 0
    BY <1>1, DeepNone
  <1>3. AroundUpTo(document.text, next, 0) = {}
    <2>1. \A j : ~Holds(document.text, j, 1)
      BY OpeningType, <1>1, DocumentType DEF Holds
    <2> QED
      BY <1>1, <2>1 DEF AroundUpTo, Around
  <1>4. \A d \in 0..0 : d = 0
    OBVIOUS
  <1> QED
    BY <1>1, <1>2, <1>3, <1>4 DEF StackInv, StateOf

LEMMA StackNext ==
    ASSUME TypeInv, StackInv, NEW kind, At(kind), StackStep(kind)
    PROVE  StackInv'
  <1> DEFINE text == document.text
  <1>1. /\ next \in DOMAIN text /\ token \in Token /\ state \in State
        /\ next - 1 \in 0..Len(text) - 1
        /\ token.is = kind /\ next' = next + 1 /\ document' = document
    BY TokenType DEF At
  <1>2. text \in Seq(Token) /\ WellNested(text) /\ Len(text) \in Nat /\ text[next] = token
    BY DocumentType DEF TypeInv, token
  <1>3. /\ next = (next - 1) + 1 /\ next' - 1 = next /\ next \in 1..Len(text)
        /\ next + 1 \in 1..Len(text) + 1 /\ next \in 0..Len(text) /\ next - 1 \in 0..Len(text)
    BY <1>1, <1>2
  <1> DEFINE d == Deep(text, next - 1)
             e == Deep(text, next)
  <1>4. /\ next \in Opening(text) => e = d + 1
        /\ next \in Closing(text) => e = d - 1
        /\ next \notin Opening(text) \cup Closing(text) => e = d
    BY <1>1, <1>2, <1>3, DeepNext
  <1>5. e \in Nat /\ d \in Nat
    BY <1>2, <1>3, DeepType
  <1>6. stack \in Seq(State) /\ Len(stack) = d + 1
    BY DEF TypeInv, TypeOK
  <1>7. \A c \in 0..d : stack[c + 1] = StateOf(text, AroundUpTo(text, next, c))
    BY DEF StackInv
  <1>8. \A c \in Nat : c <= d /\ c <= e =>
            stack[c + 1] = StateOf(text, AroundUpTo(text, next + 1, c))
    <2> SUFFICES ASSUME NEW c \in Nat, c <= d, c <= e
                 PROVE  stack[c + 1] = StateOf(text, AroundUpTo(text, next + 1, c))
      OBVIOUS
    <2>1. AroundUpTo(text, next + 1, c) = AroundUpTo(text, next, c)
      BY <1>2, <1>3, AroundStays
    <2>2. c \in 0..d
      BY <1>5
    <2> QED
      BY <1>7, <2>1, <2>2
  <1>9. StackInv' <=> \A c \in 0..e : stack'[c + 1]
                              = StateOf(text, AroundUpTo(text, next + 1, c))
    BY <1>1, <1>3 DEF StackInv
  <1>10. state = StateAt(text, next)
    BY StateIsRight
  <1> HIDE DEF text, d, e
  <1>11. CASE \/ kind = "object" /\ stack' = Append(stack, NewState(token.key, state))
              \/ kind \in {"array", "element"} /\ stack' = Append(stack, state)
    <2> DEFINE s == IF kind = "object" THEN NewState(token.key, state) ELSE state
    <2>1. next \in Opening(text)
      BY <1>1, <1>2, <1>11 DEF Opening
    <2>2. s = StateAt(text, next + 1)
      BY <1>1, <1>2, <1>10, <2>1, StateOpened
    <2>3. stack' = Append(stack, s) /\ s \in State
      BY <1>1, <1>11, NewStateType
    <2> HIDE DEF s
    <2>4. /\ \A i \in 1..Len(stack) : stack'[i] = stack[i]
          /\ stack'[Len(stack) + 1] = s
      BY <1>6, <2>3, AppendProperties
    <2>5. AroundUpTo(text, next + 1, e) = Around(text, next + 1)
      BY <1>2, <1>3, AllAround DEF e
    <2>6. stack'[e + 1] = StateOf(text, AroundUpTo(text, next + 1, e))
      BY <1>4, <1>6, <2>1, <2>2, <2>4, <2>5 DEF StateAt
    <2>7. ASSUME NEW c \in 0..d
          PROVE  stack'[c + 1] = StateOf(text, AroundUpTo(text, next + 1, c))
      <3>1. c \in Nat /\ c <= d /\ c <= e /\ c + 1 \in 1..Len(stack)
        BY <1>4, <1>5, <1>6, <2>1
      <3> QED
        BY <1>8, <2>4, <3>1
    <2>8. \A c \in 0..e : c = e \/ c \in 0..d
      BY <1>4, <1>5, <2>1
    <2> QED
      BY <1>9, <2>6, <2>7, <2>8
  <1>12. CASE kind = "close" /\ stack' = Front(stack)
    <2>1. next \in Closing(text)
      BY <1>1, <1>2, <1>12 DEF Closing
    <2>2. e = d - 1 /\ Len(stack) - 1 = e + 1 /\ Len(stack) \in Nat
      BY <1>4, <1>5, <1>6, <2>1
    <2>3. stack' = [i \in 1..Len(stack) - 1 |-> stack[i]]
      BY <1>6, <1>12, <2>2, SMT DEF Front
    <2>4. ASSUME NEW c \in 0..e
          PROVE  stack'[c + 1] = StateOf(text, AroundUpTo(text, next + 1, c))
      <3>1. c \in Nat /\ c <= d /\ c <= e /\ c + 1 \in 1..Len(stack) - 1
        BY <1>5, <2>2
      <3> QED
        BY <1>8, <2>3, <3>1
    <2> QED
      BY <1>9, <2>4
  <1>13. CASE kind \in {"string", "nulls", "scalar"} /\ stack' = stack
    <2>1. next \notin Opening(text) \cup Closing(text)
      BY <1>1, <1>2, <1>13 DEF Opening, Closing
    <2>2. e = d
      BY <1>4, <2>1
    <2>3. ASSUME NEW c \in 0..e
          PROVE  stack'[c + 1] = StateOf(text, AroundUpTo(text, next + 1, c))
      <3>1. c \in Nat /\ c <= d /\ c <= e
        BY <1>5, <2>2
      <3> QED
        BY <1>8, <1>13, <3>1
    <2> QED
      BY <1>9, <2>3
  <1> QED
    BY <1>11, <1>12, <1>13 DEF StackStep

-----------------------------------------------------------------------------
(* The lists of a document. *)

List == {"FROM_DEVICE_POLICY", "TO_DEVICE_POLICY", "ACL", "ACES"}

EntriesOf(text, s) == Entries(text, Depth(text), s)

NamesOf(text, s, j) == Inside(Depth(text), j, Names(text, Depth(text), s))

AcesOf(text, a) == Inside(Depth(text), a, EntriesOf(text, "ACES"))

StringsOf(text, j, keys) == Inside(Depth(text), j, Strings(text, keys))

Alike(text, S) == \A i, k \in S : text[i].val = text[k].val

(* What a document that says a MUD file is like, whatever the file.         *)
Coherent(text) ==
    /\ text \in Seq(Token)
    /\ WellNested(text)
    /\ \A s \in List : IsList(text, Depth(text), s)
    /\ \A s \in List \ {"ACES"} : \A j \in EntriesOf(text, s) : Alike(text, NamesOf(text, s, j))
    /\ \A j \in EntriesOf(text, "ACES") :
          /\ \E a \in EntriesOf(text, "ACL") : Encloses(Depth(text), a, j)
          /\ StringsOf(text, j, DnsNameKeys) # {} => Inside(Depth(text), j, Arrays(text)) = {}
          /\ Alike(text, StringsOf(text, j, DnsNameKeys))
          /\ Alike(text, StringsOf(text, j, {"forwarding"}))
    /\ \A i \in Strings(text, AceKeys) \cup Arrays(text) :
          \E j \in EntriesOf(text, "ACES") : Encloses(Depth(text), j, i)

LEMMA ValsAlike ==
    ASSUME NEW text, NEW S, NEW v, Vals(text, S) \subseteq {v}
    PROVE  Alike(text, S)
  BY DEF Alike, Vals

LEMMA ListAlike ==
    ASSUME NEW text, NEW s, NEW list, ListSays(text, Depth(text), s, list),
           NEW j \in EntriesOf(text, s)
    PROVE  /\ Vals(text, NamesOf(text, s, j)) = {list[Count(EntriesOf(text, s), j)]}
           /\ Alike(text, NamesOf(text, s, j))
  <1>1. Vals(text, NamesOf(text, s, j)) = {list[Count(EntriesOf(text, s), j)]}
    BY DEF ListSays, NamesOf, EntriesOf
  <1> QED
    BY <1>1, ValsAlike

(* The ACL that an entry defines. *)
LEMMA EntryDefines ==
    ASSUME NEW text, NEW acls, AclsSay(text, Depth(text), acls),
           NEW a \in EntriesOf(text, "ACL")
    PROVE  \E name \in DOMAIN acls :
              /\ Vals(text, NamesOf(text, "ACL", a)) = {name}
              /\ AclSays(text, Depth(text), AcesOf(text, a), acls[name])
  <1> DEFINE V == Vals(text, NamesOf(text, "ACL", a))
             all == {Vals(text, NamesOf(text, "ACL", b)) : b \in EntriesOf(text, "ACL")}
  <1>1. V \in all
    OBVIOUS
  <1>2. all = {{name} : name \in DOMAIN acls}
    BY DEF AclsSay, EntriesOf, NamesOf
  <1> HIDE DEF all
  <1>3. PICK name \in DOMAIN acls : V = {name}
    BY <1>1, <1>2
  <1>4. name \in Vals(text, NamesOf(text, "ACL", a))
    BY <1>3
  <1>5. AclSays(text, Depth(text), AcesOf(text, a), acls[name])
    BY <1>4 DEF AclsSay, EntriesOf, NamesOf, AcesOf
  <1> QED
    BY <1>3, <1>5

LEMMA SaysCoherent ==
    ASSUME NEW text \in Seq(Token), NEW f, Says(text, f)
    PROVE  Coherent(text)
  <1> DEFINE depth == Depth(text)
  <1>1. /\ WellNested(text)
        /\ \A s \in List : IsList(text, depth, s)
        /\ ListSays(text, depth, "FROM_DEVICE_POLICY", f.from)
        /\ ListSays(text, depth, "TO_DEVICE_POLICY", f.to)
        /\ AclsSay(text, depth, f.acls)
    BY DEF Says, WellNested, Section, List
  <1>2. ASSUME NEW a \in EntriesOf(text, "ACL")
        PROVE  Alike(text, NamesOf(text, "ACL", a))
    BY <1>1, EntryDefines, ValsAlike
  <1>3. \A s \in List \ {"ACES"} :
            \A j \in EntriesOf(text, s) : Alike(text, NamesOf(text, s, j))
    BY <1>1, <1>2, ListAlike DEF List
  <1>4. /\ \A j \in EntriesOf(text, "ACES") :
              \E a \in EntriesOf(text, "ACL") : Encloses(depth, a, j)
        /\ \A i \in Strings(text, AceKeys) \cup Arrays(text) :
              \E j \in EntriesOf(text, "ACES") : Encloses(depth, j, i)
    BY <1>1 DEF AclsSay, EntriesOf
  <1>5. ASSUME NEW j \in EntriesOf(text, "ACES")
        PROVE  \E ace : AceSays(text, depth, j, ace)
    <2>1. PICK a \in EntriesOf(text, "ACL") : Encloses(depth, a, j)
      BY <1>4
    <2>2. j \in AcesOf(text, a)
      BY <2>1 DEF AcesOf, Inside
    <2>3. PICK name \in DOMAIN f.acls : AclSays(text, depth, AcesOf(text, a), f.acls[name])
      BY <1>1, EntryDefines
    <2> QED
      BY <2>2, <2>3 DEF AclSays
  <1>6. ASSUME NEW j \in EntriesOf(text, "ACES")
        PROVE  /\ StringsOf(text, j, DnsNameKeys) # {} => Inside(depth, j, Arrays(text)) = {}
               /\ Alike(text, StringsOf(text, j, DnsNameKeys))
               /\ Alike(text, StringsOf(text, j, {"forwarding"}))
    <2>1. PICK ace : AceSays(text, depth, j, ace)
      BY <1>5
    <2>2. /\ ace.dns = (StringsOf(text, j, DnsNameKeys) # {})
          /\ Vals(text, StringsOf(text, j, DnsNameKeys)) \subseteq {ace.domain}
          /\ ace.dns => Inside(depth, j, Arrays(text)) = {}
          /\ Vals(text, StringsOf(text, j, {"forwarding"})) = {Forwarding(ace.target)}
      BY <2>1 DEF AceSays, StringsOf
    <2> QED
      BY <2>2, ValsAlike
  <1> HIDE DEF depth
  <1> QED
    BY <1>1, <1>3, <1>4, <1>6 DEF Coherent, depth

-----------------------------------------------------------------------------
(* Entries enclose. *)

LEMMA EntryType ==
    ASSUME NEW text, Coherent(text), NEW s, NEW j \in EntriesOf(text, s)
    PROVE  /\ j \in Opening(text) /\ j \in DOMAIN text /\ j \in Nat \ {0} /\ j \in 1..Len(text)
           /\ text[j].is = "element"
           /\ Count(EntriesOf(text, s), j) = Count(EntriesOf(text, s), j - 1) + 1
           /\ Count(EntriesOf(text, s), j - 1) \in Nat
  <1>1. j \in DOMAIN text /\ text[j].is = "element"
    BY DEF EntriesOf, Entries, In
  <1>2. j \in Opening(text)
    BY <1>1 DEF Opening
  <1>3. j \in Nat \ {0} /\ j \in 1..Len(text)
    BY <1>2, OpeningType DEF Coherent
  <1> QED
    BY <1>1, <1>2, <1>3, CountMember

(* What is part of a part is part of the whole. *)
LEMMA EnclosesThrough ==
    ASSUME NEW text \in Seq(Token), WellNested(text), NEW a \in Opening(text),
           NEW j \in Opening(text), NEW i \in 1..Len(text) + 1,
           Encloses(Depth(text), a, j), Encloses(Depth(text), j, i)
    PROVE  Encloses(Depth(text), a, i)
  <1> DEFINE depth == Depth(text)
  <1>1. /\ a \in Nat /\ j \in Nat \ {0} /\ i \in Nat /\ j \in 1..Len(text) /\ a \in 1..Len(text)
        /\ j \in 0..Len(text) /\ a \in 0..Len(text) /\ j - 1 \in 0..Len(text)
    BY OpeningType
  <1>2. a < j /\ j < i /\ \A m \in a..j - 1 : depth[a] <= depth[m]
    BY DEF Encloses
  <1>3. j - 1 \in a..j - 1
    BY <1>1, <1>2
  <1>4. \A m \in 0..Len(text) : depth[m] \in Nat
    BY DEF WellNested
  <1>5. depth[j] = depth[j - 1] + 1
    BY <1>1, OpeningType, DeepType
  <1>6. depth[a] <= depth[j]
    BY <1>1, <1>2, <1>3, <1>4, <1>5
  <1>7. ASSUME NEW m \in a..i - 1
        PROVE  depth[a] <= depth[m]
    <2>1. m \in 0..Len(text)
      BY <1>1
    <2>2. CASE m < j
      <3>1. m \in a..j - 1
        BY <1>1, <2>2
      <3> QED
        BY <1>2, <3>1
    <2>3. CASE ~(m < j)
      <3>1. m \in j..i - 1
        BY <1>1, <2>3
      <3>2. depth[j] <= depth[m]
        BY <3>1 DEF Encloses
      <3> QED
        BY <1>1, <1>4, <1>6, <2>1, <3>2
    <2> QED
      BY <2>2, <2>3
  <1> QED
    BY <1>1, <1>2, <1>7 DEF Encloses

(* The entry that encloses a place is the last one before it. *)
LEMMA LastEntry ==
    ASSUME NEW text, Coherent(text), NEW s \in List, NEW j \in EntriesOf(text, s),
           NEW n \in 1..Len(text) + 1, Encloses(Depth(text), j, n)
    PROVE  /\ j < n
           /\ \A i \in EntriesOf(text, s) : i < n => i <= j
           /\ Count(EntriesOf(text, s), j) = Count(EntriesOf(text, s), n - 1)
  <1> DEFINE E == EntriesOf(text, s)
  <1>1. \A i \in E : i \in Nat
    BY EntryType
  <1>2. j \in Nat /\ n \in Nat /\ n - 1 \in Nat
    BY <1>1, LenProperties DEF Coherent
  <1>3. j < n /\ \A m \in j..n - 1 : Depth(text)[j] <= Depth(text)[m]
    BY DEF Encloses
  <1>4. \A i \in E : ~Encloses(Depth(text), j, i)
    BY DEF Coherent, IsList, EntriesOf
  <1>5. ASSUME NEW i \in E, j < i, i < n
        PROVE  FALSE
    <2>1. \A m \in j..i - 1 : m \in j..n - 1
      BY <1>1, <1>2, <1>5
    <2>2. Encloses(Depth(text), j, i)
      BY <1>3, <1>5, <2>1 DEF Encloses
    <2> QED
      BY <1>4, <2>2
  <1> HIDE DEF E
  <1>6. \A i \in E : i < n => i <= j
    BY <1>1, <1>2, <1>5
  <1>7. Count(E, j) = Count(E, n - 1)
    <2>1. \A i \in E : ~(j < i /\ i <= n - 1)
      BY <1>1, <1>2, <1>5
    <2>2. j <= n - 1
      BY <1>2, <1>3
    <2> QED
      BY <1>2, <2>1, <2>2, CountSame
  <1> QED
    BY <1>3, <1>6, <1>7 DEF E

LEMMA OneEntry ==
    ASSUME NEW text, Coherent(text), NEW s \in List, NEW j \in EntriesOf(text, s),
           NEW k \in EntriesOf(text, s), NEW n \in 1..Len(text) + 1,
           Encloses(Depth(text), j, n), Encloses(Depth(text), k, n)
    PROVE  j = k
  <1>1. j <= k /\ k <= j
    BY LastEntry
  <1>2. j \in Nat /\ k \in Nat
    BY EntryType
  <1> QED
    BY <1>1, <1>2

-----------------------------------------------------------------------------
(* The names of a list, when the tokens before n have been stored.          *)

Filled(text, s, n, names) ==
    /\ Len(names) = Count(EntriesOf(text, s), n - 1)
    /\ \A j \in EntriesOf(text, s) : \A i \in NamesOf(text, s, j) :
          i < n => names[Count(EntriesOf(text, s), j)] = text[i].val

(* Its entries that the walk has met are numbered as they are stored.       *)
LEMMA EntryNumber ==
    ASSUME NEW text, Coherent(text), NEW s, NEW n \in 1..Len(text) + 1,
           NEW j \in EntriesOf(text, s), j < n
    PROVE  Count(EntriesOf(text, s), j) \in 1..Count(EntriesOf(text, s), n - 1)
  <1>1. j \in Nat \ {0} /\ n - 1 \in Nat /\ j <= n - 1
    BY EntryType, LenProperties DEF Coherent
  <1> DEFINE E == EntriesOf(text, s)
  <1>2. Count(E, j) = Count(E, j - 1) + 1 /\ Count(E, j - 1) \in Nat
    BY EntryType
  <1>3. Count(E, j) <= Count(E, n - 1) /\ Count(E, n - 1) \in Nat
    BY <1>1, CountGrows
  <1> QED
    BY <1>2, <1>3

LEMMA NamesType ==
    ASSUME NEW text, Coherent(text), NEW s, NEW j \in EntriesOf(text, s),
           NEW i \in NamesOf(text, s, j)
    PROVE  /\ i \in DOMAIN text /\ i \in Nat /\ i \in 1..Len(text) /\ i \in 1..Len(text) + 1
           /\ j < i /\ Encloses(Depth(text), j, i)
           /\ text[i].is = "string" /\ text[i].key \in NameKeys
           /\ i \in Names(text, Depth(text), s)
  <1>1. /\ i \in DOMAIN text /\ text[i].is = "string" /\ text[i].key \in NameKeys
        /\ Encloses(Depth(text), j, i) /\ i \in Names(text, Depth(text), s)
    BY DEF NamesOf, Inside, Names, Strings
  <1>2. i \in 1..Len(text) /\ Len(text) \in Nat
    BY <1>1, LenProperties DEF Coherent
  <1> QED
    BY <1>1, <1>2 DEF Encloses

LEMMA FilledOther ==
    ASSUME NEW text, Coherent(text), NEW s \in List, NEW n \in DOMAIN text, NEW names,
           Filled(text, s, n, names),
           n \notin EntriesOf(text, s), n \notin Names(text, Depth(text), s)
    PROVE  Filled(text, s, n + 1, names)
  <1>1. n \in Nat /\ n - 1 \in Nat /\ (n - 1) + 1 = n /\ (n + 1) - 1 = n
    BY LenProperties DEF Coherent
  <1>2. Count(EntriesOf(text, s), n) = Count(EntriesOf(text, s), n - 1)
    BY <1>1, CountNext
  <1>3. \A j \in EntriesOf(text, s) : \A i \in NamesOf(text, s, j) : i < n + 1 => i < n
    BY <1>1, NamesType
  <1> QED
    BY <1>1, <1>2, <1>3 DEF Filled

LEMMA FilledEntry ==
    ASSUME NEW text, Coherent(text), NEW s \in List, NEW n \in EntriesOf(text, s),
           NEW S, NEW names \in Seq(S), NEW e \in S,
           Filled(text, s, n, names)
    PROVE  Filled(text, s, n + 1, Append(names, e))
  <1> DEFINE E == EntriesOf(text, s)
             new == Append(names, e)
  <1>1. /\ n \in Nat /\ n - 1 \in Nat /\ (n - 1) + 1 = n /\ (n + 1) - 1 = n
        /\ n \in 1..Len(text) + 1 /\ text[n].is = "element"
    BY EntryType, LenProperties DEF Coherent
  <1>2. Count(E, n) = Count(E, n - 1) + 1 /\ Count(E, n - 1) \in Nat
    BY EntryType
  <1>3. /\ Len(new) = Len(names) + 1
        /\ \A k \in 1..Len(names) : new[k] = names[k]
    BY AppendProperties
  <1>4. ASSUME NEW j \in E, NEW i \in NamesOf(text, s, j), i < n + 1
        PROVE  new[Count(E, j)] = text[i].val
    <2>1. i \in Nat /\ j < i /\ text[i].is = "string" /\ j \in Nat
      BY NamesType, EntryType
    <2>2. i < n /\ j < n
      BY <1>1, <1>4, <2>1
    <2>3. Count(E, j) \in 1..Len(names)
      BY <1>1, <2>2, EntryNumber DEF Filled
    <2>4. names[Count(E, j)] = text[i].val
      BY <2>2 DEF Filled
    <2> QED
      BY <1>3, <2>3, <2>4
  <1>5. Len(new) = Count(E, n)
    BY <1>2, <1>3 DEF Filled
  <1> HIDE DEF new
  <1> QED
    BY <1>1, <1>4, <1>5 DEF Filled, new

LEMMA FilledName ==
    ASSUME NEW text, Coherent(text), NEW s \in List \ {"ACES"},
           NEW n \in Names(text, Depth(text), s),
           NEW S, NEW names \in Seq(S), text[n].val \in S,
           Filled(text, s, n, names)
    PROVE  /\ Len(names) \in Nat \ {0}
           /\ Filled(text, s, n + 1, [names EXCEPT ![Len(names)] = text[n].val])
  <1> DEFINE E == EntriesOf(text, s)
             new == [names EXCEPT ![Len(names)] = text[n].val]
  <1>1. /\ n \in DOMAIN text /\ n \in Nat /\ n - 1 \in Nat /\ (n - 1) + 1 = n /\ (n + 1) - 1 = n
        /\ n \in 1..Len(text) + 1 /\ text[n].is = "string"
        /\ n \in In(text, Depth(text), s) \cap Strings(text, NameKeys \cup TypeKeys)
    BY LenProperties DEF Coherent, Names, Strings
  <1>2. PICK j \in E : Encloses(Depth(text), j, n)
    BY <1>1 DEF Coherent, IsList, EntriesOf
  <1>3. Count(E, j) = Count(E, n - 1) /\ j < n
    BY <1>1, <1>2, LastEntry
  <1>4. Count(E, j) \in 1..Count(E, n - 1)
    BY <1>1, <1>3, EntryNumber
  <1>5. Len(names) = Count(E, j) /\ Len(names) \in Nat \ {0} /\ Len(names) \in 1..Len(names)
    BY <1>3, <1>4 DEF Filled
  <1>6. n \notin E
    BY <1>1, EntryType
  <1>7. Count(E, n) = Count(E, n - 1)
    BY <1>1, <1>6, CountNext
  <1>8. /\ new \in Seq(S) /\ Len(new) = Len(names)
        /\ new[Len(names)] = text[n].val
        /\ \A k \in 1..Len(names) : k # Len(names) => new[k] = names[k]
    BY <1>5, ExceptSeq
  <1>9. ASSUME NEW k \in E, NEW i \in NamesOf(text, s, k), i < n + 1
        PROVE  new[Count(E, k)] = text[i].val
    <2>1. i \in Nat /\ k < i /\ k \in Nat /\ j \in Nat
      BY NamesType, EntryType
    <2>2. k < n \/ i = n
      BY <1>1, <1>9, <2>1
    <2>3. k < n
      BY <1>1, <1>9, <2>1
    <2>4. CASE k = j
      <3>1. n \in NamesOf(text, s, k)
        BY <1>2, <2>4 DEF NamesOf, Inside
      <3>2. text[i].val = text[n].val
        BY <3>1 DEF Coherent, Alike
      <3> QED
        BY <1>5, <1>8, <2>4, <3>2
    <2>5. CASE k # j
      <3>1. i # n
        BY <1>1, <1>2, <2>5, NamesType, OneEntry
      <3>2. k < j
        BY <1>1, <1>2, <2>1, <2>3, <2>5, LastEntry
      <3>3. Count(E, k) < Count(E, j)
        BY <2>1, <3>2, CountOrder
      <3>4. Count(E, k) \in 1..Count(E, n - 1)
        BY <1>1, <2>3, EntryNumber
      <3>5. Count(E, k) \in 1..Len(names) /\ Count(E, k) # Len(names)
        BY <1>3, <1>5, <3>3, <3>4
      <3>6. i < n
        BY <1>1, <1>9, <2>1, <3>1
      <3>7. names[Count(E, k)] = text[i].val
        BY <3>6 DEF Filled
      <3> QED
        BY <1>8, <3>5, <3>7
    <2> QED
      BY <2>4, <2>5
  <1>10. Len(new) = Count(E, n)
    BY <1>3, <1>5, <1>7, <1>8
  <1> HIDE DEF new
  <1> QED
    BY <1>1, <1>5, <1>9, <1>10 DEF Filled, new

-----------------------------------------------------------------------------
(* An ACE, when the tokens before n have been stored.                       *)

Seen(text, j, n, keys) == {i \in StringsOf(text, j, keys) : i < n}

NamesSeen(text, j, n) == {i \in NamesOf(text, "ACES", j) : i < n}

(* What is stored in an ACE. *)
AceTokens(text, j) == StringsOf(text, j, AceKeys) \cup NamesOf(text, "ACES", j)

AceFilled(text, j, n, ace) ==
    /\ (ace.ruleName # Null) = (NamesSeen(text, j, n) # {})
    /\ (ace.aceType = "ACLDNS") = (Seen(text, j, n, DnsNameKeys) # {})
    /\ \A i \in Seen(text, j, n, DnsNameKeys) : ace.dnsName = text[i].val
    /\ (ace.lowerPort # Null) = (Seen(text, j, n, {"port", "lower-port"}) # {})
    /\ (ace.upperPort # Null) = (Seen(text, j, n, {"port", "upper-port"}) # {})
    /\ \A i \in Seen(text, j, n, {"forwarding"}) : ace.actionsForwarding = text[i].val

LEMMA StringsOfType ==
    ASSUME NEW text, Coherent(text), NEW j \in DOMAIN text, NEW keys,
           NEW i \in StringsOf(text, j, keys)
    PROVE  /\ i \in DOMAIN text /\ i \in Nat /\ text[i].is = "string" /\ text[i].key \in keys
           /\ Encloses(Depth(text), j, i) /\ j < i /\ j \in Nat
           /\ text[i].val \in Val
  <1>1. i \in DOMAIN text /\ text[i].is = "string" /\ text[i].key \in keys
        /\ Encloses(Depth(text), j, i)
    BY DEF StringsOf, Strings, Inside
  <1>2. i \in Nat /\ j \in Nat /\ text[i] \in Token
    BY <1>1, LenProperties, ElementOfSeq DEF Coherent
  <1> QED
    BY <1>1, <1>2 DEF Encloses, Token

LEMMA SeenNext ==
    ASSUME NEW text, Coherent(text), NEW j \in DOMAIN text, NEW n \in DOMAIN text, NEW keys
    PROVE  Seen(text, j, n + 1, keys) = Seen(text, j, n, keys) \cup
              (IF n \in StringsOf(text, j, keys) THEN {n} ELSE {})
  <1>1. n \in Nat
    BY LenProperties DEF Coherent
  <1>2. \A i \in StringsOf(text, j, keys) : i \in Nat
    BY StringsOfType
  <1>3. \A i \in StringsOf(text, j, keys) : i < n + 1 <=> i < n \/ i = n
    BY <1>1, <1>2
  <1>4. ~(n < n)
    BY <1>1
  <1> QED
    BY <1>3 DEF Seen

LEMMA NamesSeenNext ==
    ASSUME NEW text, Coherent(text), NEW j, NEW n \in DOMAIN text
    PROVE  NamesSeen(text, j, n + 1) = NamesSeen(text, j, n) \cup
              (IF n \in NamesOf(text, "ACES", j) THEN {n} ELSE {})
  <1>1. n \in Nat
    BY LenProperties DEF Coherent
  <1>2. \A i \in NamesOf(text, "ACES", j) : i \in DOMAIN text
    BY DEF NamesOf, Inside, Names, Strings
  <1>3. \A i \in NamesOf(text, "ACES", j) : i \in Nat
    BY <1>2, LenProperties DEF Coherent
  <1>4. \A i \in NamesOf(text, "ACES", j) : i < n + 1 <=> i < n \/ i = n
    BY <1>1, <1>3
  <1>5. ~(n < n)
    BY <1>1
  <1> QED
    BY <1>4, <1>5 DEF NamesSeen

LEMMA AceTokenType ==
    ASSUME NEW text, NEW j, NEW n \in AceTokens(text, j)
    PROVE  /\ text[n].is = "string" /\ Encloses(Depth(text), j, n)
           /\ n \in Strings(text, AceKeys) \cup Names(text, Depth(text), "ACES")
  BY DEF AceTokens, StringsOf, NamesOf, Inside, Names, Strings

LEMMA AceFilledOther ==
    ASSUME NEW text, Coherent(text), NEW j \in DOMAIN text, NEW n \in DOMAIN text, NEW ace,
           AceFilled(text, j, n, ace),
           n \notin AceTokens(text, j)
    PROVE  AceFilled(text, j, n + 1, ace)
  <1>1. ASSUME NEW keys, keys \subseteq AceKeys
        PROVE  Seen(text, j, n + 1, keys) = Seen(text, j, n, keys)
    <2>1. n \notin StringsOf(text, j, keys)
      BY <1>1 DEF AceTokens, StringsOf, Inside, Strings
    <2>2. Seen(text, j, n + 1, keys) = Seen(text, j, n, keys) \cup {}
      BY <2>1, SeenNext
    <2> QED
      BY <2>2
  <1>2. /\ DnsNameKeys \subseteq AceKeys /\ {"port", "lower-port"} \subseteq AceKeys
        /\ {"port", "upper-port"} \subseteq AceKeys /\ {"forwarding"} \subseteq AceKeys
    BY DEF AceKeys
  <1>3. /\ Seen(text, j, n + 1, DnsNameKeys) = Seen(text, j, n, DnsNameKeys)
        /\ Seen(text, j, n + 1, {"port", "lower-port"}) = Seen(text, j, n, {"port", "lower-port"})
        /\ Seen(text, j, n + 1, {"port", "upper-port"}) = Seen(text, j, n, {"port", "upper-port"})
        /\ Seen(text, j, n + 1, {"forwarding"}) = Seen(text, j, n, {"forwarding"})
    BY <1>1, <1>2
  <1>4. NamesSeen(text, j, n + 1) = NamesSeen(text, j, n)
    <2>1. NamesSeen(text, j, n + 1) = NamesSeen(text, j, n) \cup {}
      BY NamesSeenNext DEF AceTokens
    <2> QED
      BY <2>1
  <1> QED
    BY <1>3, <1>4 DEF AceFilled

LEMMA AceBlank ==
    ASSUME NEW text, Coherent(text), NEW n \in DOMAIN text
    PROVE  AceFilled(text, n, n + 1, BlankAce)
  <1>1. ASSUME NEW keys
        PROVE  Seen(text, n, n + 1, keys) = {}
    <2>1. \A i \in StringsOf(text, n, keys) : n < i /\ i \in Nat /\ n \in Nat
      BY StringsOfType
    <2> QED
      BY <2>1 DEF Seen
  <1>2. NamesSeen(text, n, n + 1) = {}
    <2>1. \A i \in NamesOf(text, "ACES", n) : n < i /\ i \in DOMAIN text
      BY DEF NamesOf, Inside, Encloses, Names, Strings
    <2>2. \A i \in NamesOf(text, "ACES", n) : n < i /\ i \in Nat /\ n \in Nat
      BY <2>1, LenProperties DEF Coherent
    <2> QED
      BY <2>2 DEF NamesSeen
  <1> QED
    BY <1>1, <1>2 DEF AceFilled, BlankAce

(* A name is stored in its ACE, and nothing else is there. *)
LEMMA AceNamed ==
    ASSUME NEW text, Coherent(text), NEW j \in EntriesOf(text, "ACES"),
           NEW n \in NamesOf(text, "ACES", j),
           NEW ace \in AceEntry, AceFilled(text, j, n, ace)
    PROVE  AceFilled(text, j, n + 1, [ace EXCEPT !.ruleName = text[n].val])
  <1> DEFINE new == [ace EXCEPT !.ruleName = text[n].val]
  <1>1. /\ n \in DOMAIN text /\ text[n].key \in NameKeys /\ j \in DOMAIN text
    BY NamesType, EntryType
  <1>2. text[n].val \in Val
    <2>1. text[n] \in Token
      BY <1>1, LenProperties, ElementOfSeq DEF Coherent
    <2> QED
      BY <2>1 DEF Token
  <1>3. text[n].val # Null
    BY <1>2, ParserAssumption
  <1>4. NamesSeen(text, j, n + 1) # {}
    BY <1>1, NamesSeenNext
  <1>5. ASSUME NEW keys, keys \subseteq AceKeys
        PROVE  Seen(text, j, n + 1, keys) = Seen(text, j, n, keys)
    <2>1. n \notin StringsOf(text, j, keys)
      BY <1>1, <1>5 DEF StringsOf, Inside, Strings, NameKeys, AceKeys, DnsNameKeys
    <2>2. Seen(text, j, n + 1, keys) = Seen(text, j, n, keys) \cup {}
      BY <1>1, <2>1, SeenNext
    <2> QED
      BY <2>2
  <1>6. /\ Seen(text, j, n + 1, DnsNameKeys) = Seen(text, j, n, DnsNameKeys)
        /\ Seen(text, j, n + 1, {"port", "lower-port"}) = Seen(text, j, n, {"port", "lower-port"})
        /\ Seen(text, j, n + 1, {"port", "upper-port"}) = Seen(text, j, n, {"port", "upper-port"})
        /\ Seen(text, j, n + 1, {"forwarding"}) = Seen(text, j, n, {"forwarding"})
    BY <1>5 DEF AceKeys
  <1>7. /\ new.ruleName # Null /\ new.aceType = ace.aceType /\ new.dnsName = ace.dnsName
        /\ new.lowerPort = ace.lowerPort /\ new.upperPort = ace.upperPort
        /\ new.actionsForwarding = ace.actionsForwarding
    BY <1>3 DEF AceEntry
  <1> HIDE DEF new
  <1> QED
    BY <1>4, <1>6, <1>7 DEF AceFilled, new

LEMMA AceString ==
    ASSUME NEW text, Coherent(text), NEW j \in EntriesOf(text, "ACES"),
           NEW n \in StringsOf(text, j, AceKeys),
           NEW ace \in AceEntry, AceFilled(text, j, n, ace)
    PROVE  AceFilled(text, j, n + 1, StoredInAce(ace, text[n].key, text[n].val))
  <1> DEFINE key == text[n].key
             val == text[n].val
             new == StoredInAce(ace, key, val)
  <1>1. /\ j \in DOMAIN text /\ n \in DOMAIN text /\ key \in AceKeys
        /\ Encloses(Depth(text), j, n) /\ val \in Val /\ text[n].is = "string"
    BY EntryType, StringsOfType
  <1>2. val # Null
    BY <1>1, ParserAssumption
  <1>3. ASSUME NEW keys
        PROVE  /\ key \in keys => Seen(text, j, n + 1, keys) = Seen(text, j, n, keys) \cup {n}
               /\ key \notin keys => Seen(text, j, n + 1, keys) = Seen(text, j, n, keys)
    <2>1. n \in StringsOf(text, j, keys) <=> key \in keys
      BY <1>1 DEF StringsOf, Inside, Strings
    <2>2. Seen(text, j, n + 1, keys) = Seen(text, j, n, keys) \cup
              (IF n \in StringsOf(text, j, keys) THEN {n} ELSE {})
      BY <1>1, SeenNext
    <2> QED
      BY <2>1, <2>2
  <1>4. /\ \A i \in StringsOf(text, j, DnsNameKeys), k \in StringsOf(text, j, DnsNameKeys) :
              text[i].val = text[k].val
        /\ \A i \in StringsOf(text, j, {"forwarding"}), k \in StringsOf(text, j, {"forwarding"}) :
              text[i].val = text[k].val
    BY DEF Coherent, Alike
  <1>5. \A keys : key \in keys => n \in StringsOf(text, j, keys)
    BY <1>1 DEF StringsOf, Inside, Strings
  <1>6. \A keys : Seen(text, j, n, keys) \subseteq StringsOf(text, j, keys)
    BY DEF Seen
  <1> DEFINE dns == Seen(text, j, n, DnsNameKeys)
             low == Seen(text, j, n, {"port", "lower-port"})
             up  == Seen(text, j, n, {"port", "upper-port"})
             fwd == Seen(text, j, n, {"forwarding"})
             dns1 == Seen(text, j, n + 1, DnsNameKeys)
             low1 == Seen(text, j, n + 1, {"port", "lower-port"})
             up1  == Seen(text, j, n + 1, {"port", "upper-port"})
             fwd1 == Seen(text, j, n + 1, {"forwarding"})
  <1>7. /\ (ace.aceType = "ACLDNS") = (dns # {})
        /\ \A i \in dns : ace.dnsName = text[i].val
        /\ (ace.lowerPort # Null) = (low # {})
        /\ (ace.upperPort # Null) = (up # {})
        /\ \A i \in fwd : ace.actionsForwarding = text[i].val
    BY DEF AceFilled
  <1>8. /\ key \in DnsNameKeys => dns1 = dns \cup {n}
        /\ key \notin DnsNameKeys => dns1 = dns
        /\ key \in {"port", "lower-port"} => low1 = low \cup {n}
        /\ key \notin {"port", "lower-port"} => low1 = low
        /\ key \in {"port", "upper-port"} => up1 = up \cup {n}
        /\ key \notin {"port", "upper-port"} => up1 = up
        /\ key \in {"forwarding"} => fwd1 = fwd \cup {n}
        /\ key \notin {"forwarding"} => fwd1 = fwd
    BY <1>3
  <1>9. /\ key \in DnsNameKeys => \A i \in dns : text[i].val = val
        /\ key \in {"forwarding"} => \A i \in fwd : text[i].val = val
    BY <1>4, <1>5, <1>6
  <1>10. /\ key \in DnsNameKeys => new = [ace EXCEPT !.aceType = "ACLDNS", !.dnsName = val]
         /\ key = "port" => new = [ace EXCEPT !.lowerPort = val, !.upperPort = val]
         /\ key = "upper-port" => new = [ace EXCEPT !.upperPort = val]
         /\ key = "lower-port" => new = [ace EXCEPT !.lowerPort = val]
         /\ key = "forwarding" => new = [ace EXCEPT !.actionsForwarding = val]
         /\ key \notin DnsNameKeys \cup {"port", "upper-port", "lower-port", "forwarding"}
               => new = ace
    BY DEF StoredInAce, DnsNameKeys
  <1>11. /\ new.aceType = IF key \in DnsNameKeys THEN "ACLDNS" ELSE ace.aceType
         /\ new.dnsName = IF key \in DnsNameKeys THEN val ELSE ace.dnsName
         /\ new.lowerPort = IF key \in {"port", "lower-port"} THEN val ELSE ace.lowerPort
         /\ new.upperPort = IF key \in {"port", "upper-port"} THEN val ELSE ace.upperPort
         /\ new.actionsForwarding = IF key \in {"forwarding"} THEN val
                                    ELSE ace.actionsForwarding
         /\ new.ruleName = ace.ruleName
    BY <1>10 DEF AceEntry, DnsNameKeys
  <1>15. NamesSeen(text, j, n + 1) = NamesSeen(text, j, n)
    <2>1. n \notin NamesOf(text, "ACES", j)
      BY <1>1 DEF NamesOf, Inside, Names, Strings, AceKeys, NameKeys, DnsNameKeys
    <2>2. NamesSeen(text, j, n + 1) = NamesSeen(text, j, n) \cup {}
      BY <1>1, <2>1, NamesSeenNext
    <2> QED
      BY <2>2
  <1>16. (ace.ruleName # Null) = (NamesSeen(text, j, n) # {})
    BY DEF AceFilled
  <1> HIDE DEF key, val, new, dns, low, up, fwd, dns1, low1, up1, fwd1
  <1>12. /\ (new.aceType = "ACLDNS") = (dns1 # {})
         /\ \A i \in dns1 : new.dnsName = text[i].val
    BY <1>7, <1>8, <1>9, <1>11 DEF val
  <1>13. /\ (new.lowerPort # Null) = (low1 # {})
         /\ (new.upperPort # Null) = (up1 # {})
    BY <1>2, <1>7, <1>8, <1>11
  <1>14. \A i \in fwd1 : new.actionsForwarding = text[i].val
    BY <1>7, <1>8, <1>9, <1>11 DEF val
  <1> QED
    BY <1>11, <1>12, <1>13, <1>14, <1>15, <1>16 DEF AceFilled, dns1, low1, up1, fwd1, new, key, val

LEMMA AceArray ==
    ASSUME NEW text, Coherent(text), NEW j \in EntriesOf(text, "ACES"),
           NEW n \in Inside(Depth(text), j, Arrays(text)),
           NEW ace \in AceEntry, AceFilled(text, j, n, ace)
    PROVE  AceFilled(text, j, n + 1, [ace EXCEPT !.aceType = TypeOfArray(text[n].key)])
  <1> DEFINE new == [ace EXCEPT !.aceType = TypeOfArray(text[n].key)]
  <1>1. j \in DOMAIN text /\ n \in DOMAIN text /\ text[n].is # "string"
           /\ text[n].key \in ArrayKeys
    BY EntryType DEF Inside, Arrays
  <1>2. n \notin AceTokens(text, j)
    BY <1>1, AceTokenType
  <1>3. AceFilled(text, j, n + 1, ace)
    BY <1>1, <1>2, AceFilledOther
  <1>4. Seen(text, j, n + 1, DnsNameKeys) = {}
    BY DEF Coherent, Seen
  <1>5. TypeOfArray(text[n].key) # "ACLDNS"
    BY <1>1 DEF TypeOfArray, ArrayKeys
  <1>6. /\ new.aceType # "ACLDNS" /\ new.dnsName = ace.dnsName /\ new.lowerPort = ace.lowerPort
        /\ new.upperPort = ace.upperPort /\ new.actionsForwarding = ace.actionsForwarding
        /\ new.ruleName = ace.ruleName
    BY <1>5 DEF AceEntry
  <1> HIDE DEF new
  <1> QED
    BY <1>3, <1>4, <1>6 DEF AceFilled, new

-----------------------------------------------------------------------------
(* The ACEs of one ACL.                                                     *)

AcesFilled(text, a, n, aces) ==
    /\ Len(aces) = Count(AcesOf(text, a), n - 1)
    /\ \A j \in AcesOf(text, a) :
          j < n => AceFilled(text, j, n, aces[Count(AcesOf(text, a), j)])

LEMMA AcesOfType ==
    ASSUME NEW text, Coherent(text), NEW a \in EntriesOf(text, "ACL"),
           NEW j \in AcesOf(text, a)
    PROVE  /\ j \in EntriesOf(text, "ACES") /\ Encloses(Depth(text), a, j) /\ a < j
           /\ j \in DOMAIN text /\ j \in Nat \ {0} /\ j \in 1..Len(text) /\ j \in 1..Len(text) + 1
           /\ Count(AcesOf(text, a), j) = Count(AcesOf(text, a), j - 1) + 1
           /\ Count(AcesOf(text, a), j - 1) \in Nat
  <1>1. j \in EntriesOf(text, "ACES") /\ Encloses(Depth(text), a, j)
    BY DEF AcesOf, Inside
  <1>2. j \in DOMAIN text /\ j \in Nat \ {0} /\ j \in 1..Len(text) /\ Len(text) \in Nat
    BY <1>1, EntryType, LenProperties DEF Coherent
  <1> QED
    BY <1>1, <1>2, CountMember DEF Encloses

LEMMA AceNumber ==
    ASSUME NEW text, Coherent(text), NEW a \in EntriesOf(text, "ACL"),
           NEW n \in 1..Len(text) + 1, NEW j \in AcesOf(text, a), j < n
    PROVE  Count(AcesOf(text, a), j) \in 1..Count(AcesOf(text, a), n - 1)
  <1>1. j \in Nat \ {0} /\ n - 1 \in Nat /\ j <= n - 1
    BY AcesOfType, LenProperties DEF Coherent
  <1> DEFINE A == AcesOf(text, a)
  <1>2. Count(A, j) = Count(A, j - 1) + 1 /\ Count(A, j - 1) \in Nat
    BY AcesOfType
  <1>3. Count(A, j) <= Count(A, n - 1) /\ Count(A, n - 1) \in Nat
    BY <1>1, CountGrows
  <1> QED
    BY <1>2, <1>3

LEMMA AcesFilledOther ==
    ASSUME NEW text, Coherent(text), NEW a \in EntriesOf(text, "ACL"), NEW n \in DOMAIN text,
           NEW aces, AcesFilled(text, a, n, aces),
           n \notin AcesOf(text, a),
           \A j \in AcesOf(text, a) : n \notin AceTokens(text, j)
    PROVE  AcesFilled(text, a, n + 1, aces)
  <1>1. n \in Nat /\ n - 1 \in Nat /\ (n - 1) + 1 = n /\ (n + 1) - 1 = n
    BY LenProperties DEF Coherent
  <1>2. Count(AcesOf(text, a), n) = Count(AcesOf(text, a), n - 1)
    BY <1>1, CountNext
  <1>3. ASSUME NEW j \in AcesOf(text, a), j < n + 1
        PROVE  AceFilled(text, j, n + 1, aces[Count(AcesOf(text, a), j)])
    <2>1. j < n /\ j \in DOMAIN text
      BY <1>1, <1>3, AcesOfType
    <2>2. AceFilled(text, j, n, aces[Count(AcesOf(text, a), j)])
      BY <2>1 DEF AcesFilled
    <2> QED
      BY <2>1, <2>2, AceFilledOther
  <1> QED
    BY <1>1, <1>2, <1>3 DEF AcesFilled

LEMMA AcesFilledNone ==
    ASSUME NEW text, Coherent(text), NEW a \in EntriesOf(text, "ACL")
    PROVE  AcesFilled(text, a, a + 1, <<>>)
  <1>1. a \in Nat \ {0} /\ (a + 1) - 1 = a
    BY EntryType
  <1>2. \A j \in AcesOf(text, a) : a < j /\ j \in Nat
    BY AcesOfType
  <1>3. AcesOf(text, a) \cap 1..a = {}
    BY <1>1, <1>2
  <1>4. Count(AcesOf(text, a), a) = 0
    BY <1>3, FS_EmptySet DEF Count
  <1>5. \A j \in AcesOf(text, a) : ~(j < a + 1)
    BY <1>1, <1>2
  <1> QED
    BY <1>1, <1>4, <1>5 DEF AcesFilled

LEMMA AcesFilledEntry ==
    ASSUME NEW text, Coherent(text), NEW a \in EntriesOf(text, "ACL"),
           NEW n \in AcesOf(text, a), NEW aces \in Seq(AceEntry),
           AcesFilled(text, a, n, aces)
    PROVE  AcesFilled(text, a, n + 1, Append(aces, BlankAce))
  <1> DEFINE A == AcesOf(text, a)
             new == Append(aces, BlankAce)
  <1>1. /\ n \in Nat /\ n - 1 \in Nat /\ (n - 1) + 1 = n /\ (n + 1) - 1 = n
        /\ n \in DOMAIN text /\ n \in 1..Len(text) + 1 /\ text[n].is = "element"
    BY AcesOfType, EntryType
  <1>2. Count(A, n) = Count(A, n - 1) + 1 /\ Count(A, n - 1) \in Nat
    BY AcesOfType
  <1>3. BlankAce \in AceEntry
    BY DEF BlankAce, AceEntry, AceType, Stored
  <1>4. /\ Len(new) = Len(aces) + 1 /\ new[Len(aces) + 1] = BlankAce
        /\ \A k \in 1..Len(aces) : new[k] = aces[k]
    BY <1>3, AppendProperties
  <1>5. Len(aces) = Count(A, n - 1)
    BY DEF AcesFilled
  <1>6. ASSUME NEW j \in A, j < n + 1
        PROVE  AceFilled(text, j, n + 1, new[Count(A, j)])
    <2>1. j \in Nat /\ j \in DOMAIN text
      BY AcesOfType
    <2>2. CASE j = n
      <3>1. new[Count(A, j)] = BlankAce
        BY <1>2, <1>4, <1>5, <2>2
      <3> QED
        BY <1>1, <2>2, <3>1, AceBlank
    <2>3. CASE j # n
      <3>1. j < n
        BY <1>1, <1>6, <2>1, <2>3
      <3>2. Count(A, j) \in 1..Len(aces)
        BY <1>1, <1>5, <3>1, AceNumber
      <3>3. AceFilled(text, j, n, aces[Count(A, j)])
        BY <3>1 DEF AcesFilled
      <3>4. n \notin AceTokens(text, j)
        BY <1>1, AceTokenType
      <3>5. AceFilled(text, j, n + 1, aces[Count(A, j)])
        BY <1>1, <2>1, <3>3, <3>4, AceFilledOther
      <3> QED
        BY <1>4, <3>2, <3>5
    <2> QED
      BY <2>2, <2>3
  <1>7. Len(new) = Count(A, n)
    BY <1>2, <1>4, <1>5
  <1> HIDE DEF new
  <1> QED
    BY <1>1, <1>6, <1>7 DEF AcesFilled, new

(* What a token inside of an ACE finds as the last one stored is that ACE.  *)
LEMMA LastAceIs ==
    ASSUME NEW text, Coherent(text), NEW a \in EntriesOf(text, "ACL"),
           NEW n \in DOMAIN text, NEW j \in AcesOf(text, a), Encloses(Depth(text), j, n),
           NEW aces, AcesFilled(text, a, n, aces)
    PROVE  /\ Len(aces) \in Nat \ {0} /\ Len(aces) \in 1..Len(aces)
           /\ Count(AcesOf(text, a), j) = Len(aces)
           /\ \A k \in AcesOf(text, a) :
                 k # j /\ k < n => /\ Count(AcesOf(text, a), k) \in 1..Len(aces)
                                   /\ Count(AcesOf(text, a), k) # Len(aces)
           /\ j < n
           /\ AceFilled(text, j, n, aces[Len(aces)])
  <1> DEFINE A == AcesOf(text, a)
  <1>1. n \in 1..Len(text) + 1 /\ n \in Nat /\ n - 1 \in Nat
    BY LenProperties DEF Coherent
  <1>2. j \in EntriesOf(text, "ACES") /\ j \in Nat \ {0} /\ A \subseteq EntriesOf(text, "ACES")
    BY AcesOfType
  <1>3. j < n /\ \A i \in EntriesOf(text, "ACES") : i < n => i <= j
    BY <1>1, <1>2, LastEntry DEF List
  <1>4. Count(A, j) = Count(A, n - 1)
    <2>1. \A i \in A : i \in Nat
      BY AcesOfType
    <2>2. \A i \in A : ~(j < i /\ i <= n - 1)
      BY <1>1, <1>2, <1>3, <2>1
    <2>3. j <= n - 1
      BY <1>1, <1>2, <1>3
    <2> QED
      BY <1>1, <1>2, <2>2, <2>3, CountSame
  <1>5. Count(A, j) \in 1..Count(A, n - 1)
    BY <1>1, <1>3, AceNumber
  <1>6. Count(A, j) = Len(aces) /\ Len(aces) \in Nat \ {0} /\ Len(aces) \in 1..Len(aces)
    <2>1. Len(aces) = Count(A, n - 1)
      BY DEF AcesFilled
    <2>2. Count(A, j - 1) \in Nat /\ Count(A, j) = Count(A, j - 1) + 1
      BY AcesOfType
    <2> HIDE DEF A
    <2> QED
      BY <1>4, <1>5, <2>1, <2>2
  <1>7. ASSUME NEW k \in A, k # j, k < n
        PROVE  Count(A, k) \in 1..Len(aces) /\ Count(A, k) # Len(aces)
    <2>1. k \in Nat /\ k <= j
      BY <1>2, <1>3, <1>7, AcesOfType
    <2>2. k < j
      BY <1>2, <1>7, <2>1
    <2>3. Count(A, k) < Count(A, j)
      BY <1>2, <2>1, <2>2, CountOrder
    <2>4. Count(A, k) \in 1..Count(A, n - 1)
      BY <1>1, <1>7, AceNumber
    <2> QED
      BY <1>4, <1>6, <2>3, <2>4
  <1>8. AceFilled(text, j, n, aces[Len(aces)])
    BY <1>3, <1>6 DEF AcesFilled
  <1> QED
    BY <1>3, <1>6, <1>7, <1>8

LEMMA AcesFilledInside ==
    ASSUME NEW text, Coherent(text), NEW a \in EntriesOf(text, "ACL"),
           NEW n \in DOMAIN text, text[n].is # "element",
           NEW j \in AcesOf(text, a), Encloses(Depth(text), j, n),
           NEW aces \in Seq(AceEntry), AcesFilled(text, a, n, aces),
           NEW ace \in AceEntry, AceFilled(text, j, n + 1, ace)
    PROVE  AcesFilled(text, a, n + 1, [aces EXCEPT ![Len(aces)] = ace])
  <1> DEFINE A == AcesOf(text, a)
             new == [aces EXCEPT ![Len(aces)] = ace]
  <1>1. n \in Nat /\ n - 1 \in Nat /\ (n - 1) + 1 = n /\ (n + 1) - 1 = n
           /\ n \in 1..Len(text) + 1
    BY LenProperties DEF Coherent
  <1>2. /\ Len(aces) \in 1..Len(aces) /\ Count(A, j) = Len(aces)
        /\ \A k \in A : k # j /\ k < n => /\ Count(A, k) \in 1..Len(aces)
                                          /\ Count(A, k) # Len(aces)
    BY LastAceIs
  <1>3. /\ Len(new) = Len(aces) /\ new[Len(aces)] = ace
        /\ \A k \in 1..Len(aces) : k # Len(aces) => new[k] = aces[k]
    BY <1>2, ExceptSeq
  <1>4. n \notin A
    BY AcesOfType, EntryType
  <1>5. Count(A, n) = Count(A, n - 1)
    BY <1>1, <1>4, CountNext
  <1>6. ASSUME NEW k \in A, k < n + 1
        PROVE  AceFilled(text, k, n + 1, new[Count(A, k)])
    <2>1. k < n /\ k \in DOMAIN text
      BY <1>1, <1>4, <1>6, AcesOfType
    <2>2. CASE k = j
      BY <1>2, <1>3, <2>2
    <2>3. CASE k # j
      <3>1. n \notin AceTokens(text, k)
        <4>1. k \in EntriesOf(text, "ACES") /\ j \in EntriesOf(text, "ACES")
          BY AcesOfType
        <4>2. ~Encloses(Depth(text), k, n)
          BY <1>1, <2>3, <4>1, OneEntry DEF List
        <4> QED
          BY <4>2, AceTokenType
      <3>2. AceFilled(text, k, n, aces[Count(A, k)])
        BY <2>1 DEF AcesFilled
      <3>3. AceFilled(text, k, n + 1, aces[Count(A, k)])
        BY <2>1, <3>1, <3>2, AceFilledOther
      <3> QED
        BY <1>2, <1>3, <2>1, <2>3, <3>3
    <2> QED
      BY <2>2, <2>3
  <1>7. Len(new) = Count(A, n)
    BY <1>3, <1>5 DEF AcesFilled
  <1> HIDE DEF new
  <1> QED
    BY <1>1, <1>6, <1>7 DEF AcesFilled, new

-----------------------------------------------------------------------------
(* The ACLs.                                                                *)

AclNames(acls) == [i \in 1..Len(acls) |-> acls[i].aclName]

AclsFilled(text, n, acls) ==
    /\ Filled(text, "ACL", n, AclNames(acls))
    /\ \A a \in EntriesOf(text, "ACL") :
          a < n => AcesFilled(text, a, n, acls[Count(EntriesOf(text, "ACL"), a)].aceList)

LEMMA AclNamesType ==
    ASSUME NEW acls \in Seq(AclEntry)
    PROVE  /\ AclNames(acls) \in Seq(Stored)
           /\ Len(AclNames(acls)) = Len(acls) /\ Len(acls) \in Nat
  <1>1. Len(acls) \in Nat /\ \A i \in 1..Len(acls) : acls[i] \in AclEntry
    BY LenProperties, ElementOfSeq
  <1>2. \A i \in 1..Len(acls) : acls[i].aclName \in Stored
    BY <1>1 DEF AclEntry
  <1> QED
    BY <1>1, <1>2 DEF AclNames

LEMMA InOnlyOne ==
    ASSUME NEW text, Coherent(text), NEW s \in Section, NEW r \in Section, NEW i,
           i \in In(text, Depth(text), s), i \in In(text, Depth(text), r)
    PROVE  s = r
  <1>1. i \in DOMAIN text
    BY DEF In
  <1> QED
    BY <1>1, InIsState DEF Coherent

LEMMA EntryOnlyOne ==
    ASSUME NEW text, Coherent(text), NEW s \in List, NEW r \in List,
           NEW i \in EntriesOf(text, s), i \in EntriesOf(text, r)
    PROVE  s = r
  BY InOnlyOne DEF EntriesOf, Entries, List, Section

LEMMA AclsFilledOther ==
    ASSUME NEW text, Coherent(text), NEW n \in DOMAIN text, NEW acls,
           AclsFilled(text, n, acls),
           n \notin EntriesOf(text, "ACL"), n \notin EntriesOf(text, "ACES"),
           n \notin Names(text, Depth(text), "ACL"),
           n \notin Names(text, Depth(text), "ACES"),
           n \notin Strings(text, AceKeys)
    PROVE  AclsFilled(text, n + 1, acls)
  <1>1. Filled(text, "ACL", n + 1, AclNames(acls))
    BY FilledOther DEF AclsFilled, List
  <1>2. ASSUME NEW a \in EntriesOf(text, "ACL"), a < n + 1
        PROVE  AcesFilled(text, a, n + 1, acls[Count(EntriesOf(text, "ACL"), a)].aceList)
    <2>1. n \in Nat /\ a \in Nat
      BY EntryType, LenProperties DEF Coherent
    <2>2. a < n
      BY <1>2, <2>1
    <2>3. AcesFilled(text, a, n, acls[Count(EntriesOf(text, "ACL"), a)].aceList)
      BY <2>2 DEF AclsFilled
    <2>4. n \notin AcesOf(text, a) /\ \A j : n \notin AceTokens(text, j)
      BY AceTokenType DEF AcesOf, Inside
    <2> QED
      BY <2>3, <2>4, AcesFilledOther
  <1> QED
    BY <1>1, <1>2 DEF AclsFilled

LEMMA AclsFilledName ==
    ASSUME NEW text, Coherent(text), NEW n \in Names(text, Depth(text), "ACL"),
           NEW acls \in Seq(AclEntry), AclsFilled(text, n, acls)
    PROVE  /\ Len(acls) \in Nat \ {0}
           /\ AclsFilled(text, n + 1, [acls EXCEPT ![Len(acls)].aclName = text[n].val])
  <1> DEFINE new == [acls EXCEPT ![Len(acls)].aclName = text[n].val]
             names == AclNames(acls)
             E == EntriesOf(text, "ACL")
  <1>1. /\ n \in DOMAIN text /\ n \in Nat /\ n \in 1..Len(text) + 1 /\ text[n].is = "string"
        /\ text[n].key \in NameKeys /\ text[n].val \in Val
    <2>1. n \in DOMAIN text /\ text[n].is = "string" /\ text[n].key \in NameKeys
      BY DEF Names, Strings
    <2>2. n \in 1..Len(text) /\ Len(text) \in Nat /\ text[n] \in Token
      BY <2>1, LenProperties, ElementOfSeq DEF Coherent
    <2> QED
      BY <2>1, <2>2 DEF Token
  <1>2. names \in Seq(Stored) /\ Len(names) = Len(acls) /\ text[n].val \in Stored
    BY <1>1, AclNamesType DEF Stored
  <1>3. /\ Len(names) \in Nat \ {0}
        /\ Filled(text, "ACL", n + 1, [names EXCEPT ![Len(names)] = text[n].val])
    BY <1>2, FilledName DEF AclsFilled, List
  <1>4. /\ Len(acls) \in 1..Len(acls) /\ Len(acls) \in Nat
        /\ \A i \in 1..Len(acls) : acls[i] \in AclEntry
    BY <1>2, <1>3, ElementOfSeq
  <1>5. /\ Len(new) = Len(acls)
        /\ \A i \in 1..Len(acls) :
              /\ new[i].aceList = acls[i].aceList
              /\ new[i].aclName = IF i = Len(acls) THEN text[n].val ELSE acls[i].aclName
    BY <1>4 DEF AclEntry
  <1>6. AclNames(new) = [names EXCEPT ![Len(names)] = text[n].val]
    <2> HIDE DEF new
    <2> QED
      BY <1>2, <1>5 DEF AclNames
  <1> HIDE DEF new
  <1>7. n \notin E /\ n \notin EntriesOf(text, "ACES")
    BY <1>1, EntryType
  <1>8. n \notin Strings(text, AceKeys) /\ n \notin Names(text, Depth(text), "ACES")
    <2>1. n \notin Strings(text, AceKeys)
      BY <1>1 DEF Strings, NameKeys, AceKeys, DnsNameKeys
    <2> QED
      BY <2>1, InOnlyOne DEF Names, Section
  <1>9. ASSUME NEW a \in E, a < n + 1
        PROVE  AcesFilled(text, a, n + 1, new[Count(E, a)].aceList)
    <2>1. a < n
      BY <1>1, <1>7, <1>9, EntryType
    <2>2. Count(E, a) \in 1..Len(acls)
      BY <1>1, <1>2, <2>1, EntryNumber DEF AclsFilled, Filled
    <2>3. AcesFilled(text, a, n, acls[Count(E, a)].aceList)
      BY <2>1 DEF AclsFilled
    <2>4. n \notin AcesOf(text, a) /\ \A j : n \notin AceTokens(text, j)
      BY <1>7, <1>8, AceTokenType DEF AcesOf, Inside
    <2>5. AcesFilled(text, a, n + 1, acls[Count(E, a)].aceList)
      BY <1>1, <2>3, <2>4, AcesFilledOther
    <2> QED
      BY <1>5, <2>2, <2>5
  <1> QED
    BY <1>2, <1>3, <1>6, <1>9 DEF AclsFilled, new

LEMMA AclsFilledEntry ==
    ASSUME NEW text, Coherent(text), NEW n \in EntriesOf(text, "ACL"),
           NEW acls \in Seq(AclEntry), AclsFilled(text, n, acls)
    PROVE  AclsFilled(text, n + 1, Append(acls, [aclName |-> Null, aceList |-> <<>>]))
  <1> DEFINE blank == [aclName |-> Null, aceList |-> <<>>]
             new == Append(acls, blank)
             names == AclNames(acls)
             E == EntriesOf(text, "ACL")
  <1>1. /\ n \in DOMAIN text /\ n \in Nat /\ n \in 1..Len(text) + 1 /\ text[n].is = "element"
    BY EntryType, LenProperties DEF Coherent
  <1>2. names \in Seq(Stored) /\ Len(names) = Len(acls) /\ Null \in Stored /\ Len(acls) \in Nat
    BY AclNamesType DEF Stored
  <1>3. Filled(text, "ACL", n + 1, Append(names, Null))
    BY <1>2, FilledEntry DEF AclsFilled, List
  <1>4. blank \in AclEntry
    BY DEF AclEntry, Stored
  <1>5. /\ Len(new) = Len(acls) + 1 /\ new[Len(acls) + 1] = blank
        /\ \A i \in 1..Len(acls) : new[i] = acls[i]
    BY <1>4, AppendProperties
  <1>6. AclNames(new) = Append(names, Null)
    <2>1. /\ Len(Append(names, Null)) = Len(names) + 1
          /\ Append(names, Null)[Len(names) + 1] = Null
          /\ \A i \in 1..Len(names) : Append(names, Null)[i] = names[i]
          /\ Append(names, Null) \in Seq(Stored)
      BY <1>2, AppendProperties
    <2>2. blank.aclName = Null
      OBVIOUS
    <2> HIDE DEF new, blank
    <2>3. Append(names, Null) = [i \in 1..Len(acls) + 1 |-> Append(names, Null)[i]]
      <3>1. Append(names, Null) \in [1..Len(acls) + 1 -> Stored]
        BY <1>2, <2>1, LenProperties
      <3> QED
        BY <3>1
    <2>4. \A i \in 1..Len(acls) : names[i] = acls[i].aclName
      BY DEF AclNames
    <2>5. \A i \in 1..Len(acls) + 1 : new[i].aclName = Append(names, Null)[i]
      <3> SUFFICES ASSUME NEW i \in 1..Len(acls) + 1
                   PROVE  new[i].aclName = Append(names, Null)[i]
        OBVIOUS
      <3>1. CASE i = Len(acls) + 1
        BY <1>2, <1>5, <2>1, <2>2, <3>1
      <3>2. CASE i # Len(acls) + 1
        <4>1. i \in 1..Len(acls)
          BY <1>2, <3>2
        <4> QED
          BY <1>2, <1>5, <2>1, <2>4, <4>1
      <3> QED
        BY <3>1, <3>2
    <2>6. AclNames(new) = [i \in 1..Len(acls) + 1 |-> new[i].aclName]
      BY <1>5 DEF AclNames
    <2> QED
      BY <2>3, <2>5, <2>6
  <1>7. Count(E, n) = Len(acls) + 1
    <2>1. Len(names) = Count(E, n - 1)
      BY DEF AclsFilled, Filled
    <2> QED
      BY <1>2, <2>1, EntryType
  <1>8. blank.aceList = <<>>
    OBVIOUS
  <1> HIDE DEF new, blank
  <1>9. ASSUME NEW a \in E, a < n + 1
        PROVE  AcesFilled(text, a, n + 1, new[Count(E, a)].aceList)
    <2>1. CASE a = n
      BY <1>5, <1>7, <1>8, <2>1, AcesFilledNone
    <2>2. CASE a # n
      <3>1. a < n
        BY <1>1, <1>9, <2>2, EntryType
      <3>2. Count(E, a) \in 1..Len(acls)
        BY <1>1, <1>2, <3>1, EntryNumber DEF AclsFilled, Filled
      <3>3. AcesFilled(text, a, n, acls[Count(E, a)].aceList)
        BY <3>1 DEF AclsFilled
      <3>4. n \notin EntriesOf(text, "ACES")
        BY EntryOnlyOne DEF List
      <3>5. n \notin AcesOf(text, a) /\ \A j : n \notin AceTokens(text, j)
        BY <1>1, <3>4, AceTokenType DEF AcesOf, Inside
      <3>6. AcesFilled(text, a, n + 1, acls[Count(E, a)].aceList)
        BY <1>1, <3>3, <3>5, AcesFilledOther
      <3> QED
        BY <1>5, <3>2, <3>6
    <2> QED
      BY <2>1, <2>2
  <1> QED
    BY <1>3, <1>6, <1>9 DEF AclsFilled, new, blank

(* What a token inside of an ACL finds as the last one stored is that ACL.  *)
LEMMA LastAclIs ==
    ASSUME NEW text, Coherent(text), NEW a \in EntriesOf(text, "ACL"),
           NEW n \in DOMAIN text, Encloses(Depth(text), a, n),
           NEW acls \in Seq(AclEntry), AclsFilled(text, n, acls)
    PROVE  /\ Len(acls) \in Nat \ {0} /\ Len(acls) \in 1..Len(acls)
           /\ Count(EntriesOf(text, "ACL"), a) = Len(acls)
           /\ \A b \in EntriesOf(text, "ACL") :
                 b # a /\ b < n => /\ Count(EntriesOf(text, "ACL"), b) \in 1..Len(acls)
                                   /\ Count(EntriesOf(text, "ACL"), b) # Len(acls)
           /\ AcesFilled(text, a, n, acls[Len(acls)].aceList)
  <1> DEFINE E == EntriesOf(text, "ACL")
  <1>1. n \in 1..Len(text) + 1 /\ n \in Nat /\ n - 1 \in Nat
    BY LenProperties DEF Coherent
  <1>2. /\ a < n /\ Count(E, a) = Count(E, n - 1)
        /\ \A b \in E : b < n => b <= a
    BY <1>1, LastEntry DEF List
  <1>3. a \in Nat /\ Count(E, a) = Count(E, a - 1) + 1 /\ Count(E, a - 1) \in Nat
    BY EntryType
  <1>4. Len(acls) = Count(E, n - 1)
    BY AclNamesType DEF AclsFilled, Filled
  <1>5. Len(acls) \in Nat \ {0} /\ Len(acls) \in 1..Len(acls) /\ Count(E, a) = Len(acls)
    <2> HIDE DEF E
    <2> QED
      BY <1>2, <1>3, <1>4
  <1>6. ASSUME NEW b \in E, b # a, b < n
        PROVE  Count(E, b) \in 1..Len(acls) /\ Count(E, b) # Len(acls)
    <2>1. b \in Nat /\ b <= a
      BY <1>2, <1>6, EntryType
    <2>2. Count(E, b) < Count(E, a)
      BY <1>3, <1>6, <2>1, CountOrder
    <2>3. Count(E, b) \in 1..Count(E, n - 1)
      BY <1>1, <1>6, EntryNumber
    <2> QED
      BY <1>4, <1>5, <2>2, <2>3
  <1>7. AcesFilled(text, a, n, acls[Len(acls)].aceList)
    BY <1>2, <1>5 DEF AclsFilled
  <1> QED
    BY <1>5, <1>6, <1>7

(* The ACEs of the last ACL change. *)
LEMMA AclsFilledInside ==
    ASSUME NEW text, Coherent(text), NEW a \in EntriesOf(text, "ACL"),
           NEW n \in DOMAIN text, Encloses(Depth(text), a, n),
           n \notin EntriesOf(text, "ACL"), n \notin Names(text, Depth(text), "ACL"),
           NEW acls \in Seq(AclEntry), AclsFilled(text, n, acls),
           NEW aces, AcesFilled(text, a, n + 1, aces)
    PROVE  AclsFilled(text, n + 1, [acls EXCEPT ![Len(acls)].aceList = aces])
  <1> DEFINE new == [acls EXCEPT ![Len(acls)].aceList = aces]
             E == EntriesOf(text, "ACL")
  <1>1. n \in 1..Len(text) + 1 /\ n \in Nat /\ n - 1 \in Nat
    BY LenProperties DEF Coherent
  <1>2. /\ Len(acls) \in Nat /\ Len(acls) \in 1..Len(acls)
        /\ Count(E, a) = Len(acls)
        /\ \A b \in E : b # a /\ b < n => /\ Count(E, b) \in 1..Len(acls)
                                          /\ Count(E, b) # Len(acls)
    BY LastAclIs
  <1>3. \A i \in 1..Len(acls) : acls[i] \in AclEntry
    BY ElementOfSeq
  <1>4. /\ Len(new) = Len(acls)
        /\ new[Len(acls)].aceList = aces
        /\ \A i \in 1..Len(acls) :
              /\ new[i].aclName = acls[i].aclName
              /\ i # Len(acls) => new[i].aceList = acls[i].aceList
    BY <1>2, <1>3 DEF AclEntry
  <1> HIDE DEF new
  <1>5. AclNames(new) = AclNames(acls)
    BY <1>4 DEF AclNames
  <1>6. Filled(text, "ACL", n + 1, AclNames(new))
    BY <1>5, FilledOther DEF AclsFilled, List
  <1>7. ASSUME NEW b \in E, b < n + 1
        PROVE  AcesFilled(text, b, n + 1, new[Count(E, b)].aceList)
    <2>1. b < n
      BY <1>1, <1>7, EntryType
    <2>2. CASE b = a
      BY <1>2, <1>4, <2>2
    <2>3. CASE b # a
      <3>1. ~Encloses(Depth(text), b, n)
        BY <1>1, <2>3, OneEntry DEF List
      <3>2. n \notin AcesOf(text, b)
        BY <3>1 DEF AcesOf, Inside
      <3>3. ASSUME NEW j \in AcesOf(text, b), n \in AceTokens(text, j)
            PROVE  FALSE
        <4>1. /\ Encloses(Depth(text), b, j) /\ Encloses(Depth(text), j, n)
              /\ j \in Opening(text) /\ b \in Opening(text)
          BY <3>3, AcesOfType, EntryType, AceTokenType
        <4> QED
          BY <1>1, <3>1, <4>1, EnclosesThrough DEF Coherent
      <3>4. AcesFilled(text, b, n, acls[Count(E, b)].aceList)
        BY <2>1 DEF AclsFilled
      <3>5. AcesFilled(text, b, n + 1, acls[Count(E, b)].aceList)
        BY <3>2, <3>3, <3>4, AcesFilledOther
      <3> QED
        BY <1>2, <1>4, <2>1, <2>3, <3>5
    <2> QED
      BY <2>2, <2>3
  <1> QED
    BY <1>6, <1>7 DEF AclsFilled, new

(* A token inside of an ACE changes at most that ACE. *)
LEMMA AclsFilledAce ==
    ASSUME NEW text, Coherent(text), NEW j \in EntriesOf(text, "ACES"),
           NEW n \in DOMAIN text, Encloses(Depth(text), j, n), text[n].is # "element",
           n \notin Names(text, Depth(text), "ACL"),
           NEW acls \in Seq(AclEntry), AclsFilled(text, n, acls)
    PROVE  /\ Len(acls) \in 1..Len(acls)
           /\ Len(acls[Len(acls)].aceList) \in 1..Len(acls[Len(acls)].aceList)
           /\ AceFilled(text, j, n, acls[Len(acls)].aceList[Len(acls[Len(acls)].aceList)])
           /\ \A ace \in AceEntry : AceFilled(text, j, n + 1, ace) =>
                 AclsFilled(text, n + 1,
                            [acls EXCEPT ![Len(acls)].aceList[Len(acls[Len(acls)].aceList)] = ace])
  <1> DEFINE last == acls[Len(acls)]
             aces == last.aceList
  <1>1. PICK a \in EntriesOf(text, "ACL") : Encloses(Depth(text), a, j)
    BY DEF Coherent
  <1>2. n \in 1..Len(text) + 1 /\ j \in Opening(text) /\ a \in Opening(text)
    <2>1. j \in Opening(text) /\ a \in Opening(text)
      BY EntryType
    <2>2. n \in 1..Len(text) /\ Len(text) \in Nat
      BY LenProperties DEF Coherent
    <2> QED
      BY <2>1, <2>2
  <1>3. Encloses(Depth(text), a, n)
    BY <1>1, <1>2, EnclosesThrough DEF Coherent
  <1>4. j \in AcesOf(text, a)
    BY <1>1 DEF AcesOf, Inside
  <1>5. Len(acls) \in 1..Len(acls) /\ AcesFilled(text, a, n, aces)
    BY <1>3, LastAclIs
  <1>6. last \in AclEntry /\ aces \in Seq(AceEntry)
    <2>1. acls[Len(acls)] \in AclEntry
      BY <1>5, ElementOfSeq
    <2> QED
      BY <2>1 DEF AclEntry
  <1>7. Len(aces) \in 1..Len(aces) /\ AceFilled(text, j, n, aces[Len(aces)])
    BY <1>4, <1>5, LastAceIs
  <1>8. n \notin EntriesOf(text, "ACL")
    BY EntryType
  <1>9. ASSUME NEW ace \in AceEntry, AceFilled(text, j, n + 1, ace)
        PROVE  AclsFilled(text, n + 1, [acls EXCEPT ![Len(acls)].aceList[Len(aces)] = ace])
    <2> DEFINE changed == [aces EXCEPT ![Len(aces)] = ace]
    <2>1. AcesFilled(text, a, n + 1, changed)
      BY <1>4, <1>5, <1>6, <1>9, AcesFilledInside
    <2>2. [acls EXCEPT ![Len(acls)].aceList[Len(aces)] = ace]
            = [acls EXCEPT ![Len(acls)].aceList = changed]
      BY <1>5, <1>6 DEF AclEntry
    <2> HIDE DEF changed
    <2>3. AclsFilled(text, n + 1, [acls EXCEPT ![Len(acls)].aceList = changed])
      BY <1>3, <1>8, <2>1, AclsFilledInside
    <2> QED
      BY <2>2, <2>3
  <1> QED
    BY <1>5, <1>7, <1>9

LEMMA AclsFilledAceEntry ==
    ASSUME NEW text, Coherent(text), NEW n \in EntriesOf(text, "ACES"),
           NEW acls \in Seq(AclEntry), AclsFilled(text, n, acls)
    PROVE  /\ \E a \in EntriesOf(text, "ACL") :
                 /\ n \in AcesOf(text, a)
                 /\ Len(acls[Len(acls)].aceList) = Count(AcesOf(text, a), n - 1)
           /\ Len(acls) \in 1..Len(acls)
           /\ AclsFilled(text, n + 1, [acls EXCEPT ![Len(acls)].aceList = Append(@, BlankAce)])
  <1> DEFINE aces == acls[Len(acls)].aceList
  <1>1. PICK a \in EntriesOf(text, "ACL") : Encloses(Depth(text), a, n)
    BY DEF Coherent
  <1>2. n \in DOMAIN text /\ text[n].is = "element"
    BY EntryType
  <1>3. n \in AcesOf(text, a)
    BY <1>1 DEF AcesOf, Inside
  <1>4. Len(acls) \in 1..Len(acls) /\ AcesFilled(text, a, n, aces)
    BY <1>1, <1>2, LastAclIs
  <1>5. acls[Len(acls)] \in AclEntry /\ aces \in Seq(AceEntry)
    <2>1. acls[Len(acls)] \in AclEntry
      BY <1>4, ElementOfSeq
    <2> QED
      BY <2>1 DEF AclEntry
  <1>6. AcesFilled(text, a, n + 1, Append(aces, BlankAce))
    BY <1>3, <1>4, <1>5, AcesFilledEntry
  <1>7. n \notin EntriesOf(text, "ACL") /\ n \notin Names(text, Depth(text), "ACL")
    BY <1>2, EntryOnlyOne DEF List, Names, Strings
  <1>8. AclsFilled(text, n + 1, [acls EXCEPT ![Len(acls)].aceList = Append(aces, BlankAce)])
    BY <1>1, <1>2, <1>6, <1>7, AclsFilledInside
  <1>9. [acls EXCEPT ![Len(acls)].aceList = Append(@, BlankAce)]
          = [acls EXCEPT ![Len(acls)].aceList = Append(aces, BlankAce)]
    OBVIOUS
  <1>10. Len(aces) = Count(AcesOf(text, a), n - 1)
    BY <1>4 DEF AcesFilled
  <1> QED
    BY <1>3, <1>4, <1>8, <1>9, <1>10

-----------------------------------------------------------------------------
(* The whole structure, when the tokens before n have been stored.          *)

MfiFilled(text, n, m) ==
    /\ Filled(text, "FROM_DEVICE_POLICY", n, m.from)
    /\ Filled(text, "TO_DEVICE_POLICY", n, m.to)
    /\ AclsFilled(text, n, m.acls)

LEMMA MfiFilledOther ==
    ASSUME NEW text, Coherent(text), NEW n \in DOMAIN text, NEW m, MfiFilled(text, n, m),
           \A s \in List : n \notin EntriesOf(text, s),
           \A s \in List : n \notin Names(text, Depth(text), s),
           n \notin Strings(text, AceKeys)
    PROVE  MfiFilled(text, n + 1, m)
  <1>1. "FROM_DEVICE_POLICY" \in List \ {"ACES"} /\ "TO_DEVICE_POLICY" \in List \ {"ACES"}
           /\ "ACL" \in List \ {"ACES"} /\ "ACES" \in List
    BY DEF List
  <1>2. Filled(text, "FROM_DEVICE_POLICY", n + 1, m.from)
    BY <1>1, FilledOther DEF MfiFilled
  <1>3. Filled(text, "TO_DEVICE_POLICY", n + 1, m.to)
    BY <1>1, FilledOther DEF MfiFilled
  <1>4. AclsFilled(text, n + 1, m.acls)
    BY <1>1, AclsFilledOther DEF MfiFilled
  <1> QED
    BY <1>2, <1>3, <1>4 DEF MfiFilled

LEMMA HasAceIs ==
    ASSUME Len(mfi.acls) \in 1..Len(mfi.acls),
           Len(mfi.acls[Len(mfi.acls)].aceList) \in 1..Len(mfi.acls[Len(mfi.acls)].aceList)
    PROVE  /\ HasAce /\ mfi.acls # <<>>
           /\ Last(mfi.acls) = mfi.acls[Len(mfi.acls)]
           /\ Last(Last(mfi.acls).aceList)
                 = mfi.acls[Len(mfi.acls)].aceList[Len(mfi.acls[Len(mfi.acls)].aceList)]
  <1>1. \A q : Len(q) \in 1..Len(q) => q # <<>>
    <2>1. Len(<<>>) = 0
      BY EmptySeq
    <2> QED
      BY <2>1
  <1> QED
    BY <1>1 DEF HasAce, Last

(* A name or a type finds the entry it belongs to. *)
LEMMA EntryIsThere ==
    ASSUME NEW text, Coherent(text), NEW n \in Strings(text, NameKeys \cup TypeKeys),
           MfiFilled(text, n, mfi), mfi \in MudFileInfo
    PROVE  HasEntry(StateAt(text, n))
  <1>1. /\ n \in DOMAIN text /\ n \in 1..Len(text) + 1 /\ n \in 1..Len(text)
        /\ text[n].is = "string"
        /\ text[n].key \in NameKeys \cup TypeKeys
    <2>1. n \in DOMAIN text /\ text[n].is = "string" /\ text[n].key \in NameKeys \cup TypeKeys
      BY DEF Strings
    <2>2. n \in 1..Len(text) /\ Len(text) \in Nat
      BY <2>1, LenProperties DEF Coherent
    <2> QED
      BY <2>1, <2>2
  <1>2. ASSUME NEW s \in List, StateAt(text, n) = s
        PROVE  \E j \in EntriesOf(text, s) :
                  /\ Encloses(Depth(text), j, n)
                  /\ Count(EntriesOf(text, s), n - 1) # 0
    <2>1. n \in In(text, Depth(text), s)
      BY <1>1, <1>2, InIsState DEF Coherent, List, Section
    <2>2. PICK j \in EntriesOf(text, s) : Encloses(Depth(text), j, n)
      BY <2>1 DEF Coherent, IsList, EntriesOf
    <2>3. j < n
      BY <2>2 DEF Encloses
    <2>4. Count(EntriesOf(text, s), j) \in 1..Count(EntriesOf(text, s), n - 1)
      BY <1>1, <2>3, EntryNumber
    <2> QED
      BY <2>2, <2>4
  <1>3. CASE StateAt(text, n) = "FROM_DEVICE_POLICY"
    <2>1. Len(mfi.from) # 0
      BY <1>2, <1>3 DEF MfiFilled, Filled, List
    <2>2. mfi.from # <<>>
      BY <2>1, EmptySeq
    <2> QED
      BY <1>3, <2>2 DEF HasEntry
  <1>4. CASE StateAt(text, n) = "TO_DEVICE_POLICY"
    <2>1. Len(mfi.to) # 0
      BY <1>2, <1>4 DEF MfiFilled, Filled, List
    <2>2. mfi.to # <<>>
      BY <2>1, EmptySeq
    <2> QED
      BY <1>4, <2>2 DEF HasEntry
  <1>5. CASE StateAt(text, n) = "ACL"
    <2>1. Len(AclNames(mfi.acls)) # 0
      BY <1>2, <1>5 DEF MfiFilled, AclsFilled, Filled, List
    <2>2. mfi.acls # <<>>
      <3>1. mfi.acls \in Seq(AclEntry)
        BY DEF MudFileInfo
      <3>2. Len(mfi.acls) # 0
        BY <2>1, <3>1, AclNamesType
      <3> QED
        BY <3>2, EmptySeq
    <2> QED
      BY <1>5, <2>2 DEF HasEntry
  <1>6. CASE StateAt(text, n) = "ACES"
    <2>1. PICK j \in EntriesOf(text, "ACES") : Encloses(Depth(text), j, n)
      BY <1>2, <1>6 DEF List
    <2>2. n \notin Names(text, Depth(text), "ACL")
      BY <1>1, <1>6, InIsState DEF Coherent, Names, Section
    <2>3. mfi.acls \in Seq(AclEntry) /\ text[n].is # "element"
      BY <1>1 DEF MudFileInfo
    <2>4. /\ Len(mfi.acls) \in 1..Len(mfi.acls)
          /\ Len(mfi.acls[Len(mfi.acls)].aceList) \in 1..Len(mfi.acls[Len(mfi.acls)].aceList)
      BY <1>1, <2>1, <2>2, <2>3, AclsFilledAce DEF MfiFilled
    <2> QED
      BY <1>6, <2>4, HasAceIs DEF HasEntry
  <1>7. CASE StateAt(text, n) \notin List
    BY <1>7 DEF HasEntry, List
  <1> QED
    BY <1>3, <1>4, <1>5, <1>6, <1>7 DEF List

-----------------------------------------------------------------------------
(* The limits.                                                              *)

LEMMA EntriesWithin ==
    ASSUME NEW text, Coherent(text), NEW S \in SUBSET (1..Len(text)), NEW n \in S
    PROVE  Count(S, n - 1) + 1 <= Cardinality(S) /\ Cardinality(S) \in Nat
  <1>1. n \in Nat \ {0} /\ Len(text) \in Nat /\ n <= Len(text) /\ n \in Nat
    BY LenProperties DEF Coherent
  <1>2. Count(S, n) = Count(S, n - 1) + 1
    BY <1>1, CountMember
  <1>3. Count(S, n) <= Count(S, Len(text)) /\ Count(S, Len(text)) \in Nat
    BY <1>1, CountGrows
  <1>4. Count(S, Len(text)) = Cardinality(S)
    BY <1>1, CountAll
  <1> QED
    BY <1>2, <1>3, <1>4

LEMMA EntriesInside ==
    ASSUME NEW text, Coherent(text), NEW s
    PROVE  EntriesOf(text, s) \in SUBSET (1..Len(text))
  BY EntryType

LEMMA AcesInside ==
    ASSUME NEW text, Coherent(text), NEW a \in EntriesOf(text, "ACL")
    PROVE  AcesOf(text, a) \in SUBSET (1..Len(text))
  BY AcesOfType

-----------------------------------------------------------------------------
(* The inductive invariant. *)

(* Each document is written in the known keys. *)
DocumentsSay == \A doc \in Documents : Says(doc.text, doc.file)

WalkInv ==
    /\ TypeInv
    /\ StackInv
    /\ pc \in {"walk", "done"} => MfiFilled(document.text, next, mfi)
    /\ pc = "done" => next = Len(document.text) + 1
    /\ StoresStayInside

LEMMA DocumentCoherent ==
    ASSUME DocumentsSay, NEW doc \in Documents
    PROVE  /\ Coherent(doc.text) /\ doc.text \in Seq(Token) /\ Len(doc.text) \in Nat
           /\ Says(doc.text, doc.file) /\ IsMudFileInfo(doc.file)
  BY DocumentType, SaysCoherent, ParserAssumption DEF DocumentsSay

LEMMA WalkInit ==
    ASSUME DocumentsSay, Init
    PROVE  WalkInv
  <1>1. /\ document \in Documents /\ next = 1 /\ pc = "walk"
        /\ mfi = [from |-> <<>>, to |-> <<>>, acls |-> <<>>]
    BY DEF Init
  <1>2. Coherent(document.text)
    BY <1>1, DocumentCoherent
  <1>3. next - 1 = 0
    BY <1>1
  <1>4. ASSUME NEW s
        PROVE  Filled(document.text, s, next, <<>>)
    <2>1. Count(EntriesOf(document.text, s), next - 1) = 0
      BY <1>3, CountNone
    <2>2. \A j \in EntriesOf(document.text, s) : \A i \in NamesOf(document.text, s, j) : ~(i < 1)
      <3> SUFFICES ASSUME NEW j \in EntriesOf(document.text, s),
                          NEW i \in NamesOf(document.text, s, j)
                   PROVE  ~(i < 1)
        OBVIOUS
      <3>1. i \in 1..Len(document.text)
        BY <1>2, NamesType
      <3> QED
        BY <3>1
    <2> QED
      BY <1>1, <2>1, <2>2 DEF Filled
  <1>5. AclNames(<<>>) = <<>>
    BY DEF AclNames
  <1>6. \A a \in EntriesOf(document.text, "ACL") : ~(a < 1)
    <2> SUFFICES ASSUME NEW a \in EntriesOf(document.text, "ACL")
                 PROVE  ~(a < 1)
      OBVIOUS
    <2>1. a \in Nat \ {0}
      BY <1>2, EntryType
    <2> QED
      BY <2>1
  <1>7. AclsFilled(document.text, next, <<>>)
    BY <1>1, <1>4, <1>5, <1>6 DEF AclsFilled
  <1>8. MfiFilled(document.text, next, mfi)
    BY <1>1, <1>4, <1>7 DEF MfiFilled
  <1> QED
    BY <1>1, <1>8, InitType, StackInit DEF WalkInv, StoresStayInside

(* What every action but Return does. *)
LEMMA WalkStep ==
    ASSUME WalkInv, NEW kind, At(kind), StackStep(kind), TypeInv',
           \/ mfi' = mfi /\ pc' = "astray" /\ ~WithinLimits(document.file)
           \/ pc' = "crashed"
           \/ pc' = "walk" /\ MfiFilled(document.text, next + 1, mfi')
    PROVE  WalkInv'
  <1>1. StackInv'
    BY StackNext DEF WalkInv
  <1>2. document' = document /\ next' = next + 1 /\ pc = "walk"
    BY DEF At
  <1>3. WithinLimits(document.file)' = WithinLimits(document.file)
    BY <1>2 DEF WithinLimits
  <1> QED
    BY <1>1, <1>2, <1>3 DEF WalkInv, StoresStayInside

LEMMA WalkToken ==
    ASSUME DocumentsSay, WalkInv, NEW kind, At(kind)
    PROVE  /\ Coherent(document.text) /\ next \in DOMAIN document.text
           /\ document.text[next] = token /\ token.is = kind /\ token \in Token
           /\ token.val \in Val
           /\ state = StateAt(document.text, next)
           /\ \A s \in Section : next \in In(document.text, Depth(document.text), s) <=> state = s
           /\ MfiFilled(document.text, next, mfi)
           /\ mfi \in MudFileInfo /\ WithinArrays(mfi) /\ pc = "walk"
           /\ Says(document.text, document.file)
  <1>1. document \in Documents /\ pc = "walk" /\ TypeInv /\ StackInv /\ token.is = kind
           /\ next <= Len(document.text)
    BY DEF WalkInv, TypeInv, At
  <1>2. Coherent(document.text) /\ Says(document.text, document.file)
    BY <1>1, DocumentCoherent
  <1>3. next \in DOMAIN document.text /\ token \in Token
    BY <1>1, TokenType
  <1>4. token.val \in Val
    BY <1>3 DEF Token
  <1>5. state = StateAt(document.text, next)
    BY <1>1, StateIsRight
  <1>6. \A s \in Section : next \in In(document.text, Depth(document.text), s) <=> state = s
    BY <1>2, <1>3, <1>5, InIsState DEF Coherent
  <1>7. MfiFilled(document.text, next, mfi)
    BY <1>1 DEF WalkInv
  <1>8. mfi \in MudFileInfo /\ WithinArrays(mfi)
    BY <1>1 DEF TypeInv, TypeOK, WithinArrays
  <1> QED
    BY <1>1, <1>2, <1>3, <1>4, <1>5, <1>6, <1>7, <1>8 DEF token

(* A change to the ACE that the token is inside of. *)
LEMMA WalkAce ==
    ASSUME DocumentsSay, WalkInv, NEW kind, At(kind), kind # "element",
           \A s \in List \ {"ACES"} :
              next \notin Names(document.text, Depth(document.text), s),
           NEW j \in EntriesOf(document.text, "ACES"),
           Encloses(Depth(document.text), j, next)
    PROVE  /\ HasAce
           /\ Last(Last(mfi.acls).aceList) \in AceEntry
           /\ AceFilled(document.text, j, next, Last(Last(mfi.acls).aceList))
           /\ \A ace \in AceEntry :
                 AceFilled(document.text, j, next + 1, ace)
                     => MfiFilled(document.text, next + 1, WithAce(ace))
  <1> DEFINE text == document.text
             n == next
             acls == mfi.acls
             aces == acls[Len(acls)].aceList
  <1>1. /\ Coherent(text) /\ n \in DOMAIN text /\ text[n] = token /\ token.is = kind
        /\ MfiFilled(text, n, mfi) /\ mfi \in MudFileInfo /\ WithinArrays(mfi)
    BY WalkToken
  <1>2. /\ \A s : n \notin EntriesOf(text, s)
        /\ \A s \in List \ {"ACES"} : n \notin Names(text, Depth(text), s)
    BY <1>1, EntryType
  <1>3. acls \in Seq(AclEntry) /\ AclsFilled(text, n, acls) /\ text[n].is # "element"
    BY <1>1 DEF MudFileInfo, MfiFilled
  <1>4. /\ Len(acls) \in 1..Len(acls) /\ Len(aces) \in 1..Len(aces)
        /\ AceFilled(text, j, n, aces[Len(aces)])
        /\ \A ace \in AceEntry : AceFilled(text, j, n + 1, ace) =>
              AclsFilled(text, n + 1, [acls EXCEPT ![Len(acls)].aceList[Len(aces)] = ace])
    BY <1>1, <1>2, <1>3, AclsFilledAce DEF List
  <1>5. HasAce /\ Last(Last(mfi.acls).aceList) = aces[Len(aces)]
    BY <1>4, HasAceIs
  <1>6. Last(Last(mfi.acls).aceList) \in AceEntry
    BY <1>1, <1>5, LastAceType
  <1>7. ASSUME NEW ace \in AceEntry, AceFilled(text, j, n + 1, ace)
        PROVE  MfiFilled(text, n + 1, WithAce(ace))
    <2> DEFINE new == [acls EXCEPT ![Len(acls)].aceList[Len(aces)] = ace]
    <2>1. WithAce(ace) = [mfi EXCEPT !.acls = new]
      BY <1>1 DEF WithAce, MudFileInfo
    <2>2. AclsFilled(text, n + 1, new)
      BY <1>4, <1>7
    <2>3. /\ Filled(text, "FROM_DEVICE_POLICY", n + 1, mfi.from)
          /\ Filled(text, "TO_DEVICE_POLICY", n + 1, mfi.to)
      BY <1>1, <1>2, FilledOther DEF MfiFilled, List
    <2> HIDE DEF new
    <2>4. /\ WithAce(ace).acls = new
          /\ WithAce(ace).from = mfi.from /\ WithAce(ace).to = mfi.to
      BY <1>1, <2>1 DEF MudFileInfo
    <2> QED
      BY <2>2, <2>3, <2>4 DEF MfiFilled
  <1> QED
    BY <1>4, <1>5, <1>6, <1>7

LEMMA WalkName ==
    ASSUME DocumentsSay, WalkInv, ProcessName
    PROVE  pc' = "walk" /\ MfiFilled(document.text, next + 1, mfi')
  <1> DEFINE text == document.text
             n == next
  <1>1. /\ At("string") /\ token.key \in NameKeys
        /\ Store(HasEntry(state), Named(state, token.val))
    BY DEF ProcessName
  <1>2. /\ Coherent(text) /\ n \in DOMAIN text /\ text[n] = token /\ token.is = "string"
        /\ token.val \in Val /\ state = StateAt(text, n)
        /\ \A s \in Section : n \in In(text, Depth(text), s) <=> state = s
        /\ MfiFilled(text, n, mfi) /\ mfi \in MudFileInfo /\ pc = "walk"
    BY <1>1, WalkToken
  <1> HIDE DEF text, n
  <1>3. n \in Strings(text, NameKeys) /\ n \in Strings(text, NameKeys \cup TypeKeys)
           /\ n \notin Strings(text, AceKeys)
    BY <1>1, <1>2 DEF Strings, NameKeys, AceKeys, DnsNameKeys
  <1>4. HasEntry(state)
    BY <1>2, <1>3, EntryIsThere
  <1>5. pc' = "walk" /\ mfi' = Named(state, token.val)
    BY <1>1, <1>2, <1>4 DEF Store
  <1>6. /\ \A s \in List : n \notin EntriesOf(text, s)
        /\ \A s \in Section : n \in Names(text, Depth(text), s) <=> state = s
    BY <1>2, <1>3, EntryType DEF Names
  <1>7. /\ "FROM_DEVICE_POLICY" \in List \ {"ACES"} /\ "TO_DEVICE_POLICY" \in List \ {"ACES"}
        /\ "ACL" \in List \ {"ACES"} /\ List \subseteq Section /\ "ACES" \in List
    BY DEF List, Section
  <1>8. /\ Filled(text, "FROM_DEVICE_POLICY", n, mfi.from)
        /\ Filled(text, "TO_DEVICE_POLICY", n, mfi.to)
        /\ AclsFilled(text, n, mfi.acls)
        /\ mfi.from \in Seq(Stored) /\ mfi.to \in Seq(Stored) /\ mfi.acls \in Seq(AclEntry)
        /\ token.val \in Stored
    BY <1>2 DEF MfiFilled, MudFileInfo, Stored
  <1>9. /\ state # "FROM_DEVICE_POLICY" => Filled(text, "FROM_DEVICE_POLICY", n + 1, mfi.from)
        /\ state # "TO_DEVICE_POLICY" => Filled(text, "TO_DEVICE_POLICY", n + 1, mfi.to)
        /\ state \notin {"ACL", "ACES"} => AclsFilled(text, n + 1, mfi.acls)
    BY <1>2, <1>3, <1>6, <1>7, <1>8, FilledOther, AclsFilledOther
  <1>10. CASE state = "FROM_DEVICE_POLICY"
    <2> DEFINE new == [mfi.from EXCEPT ![Len(mfi.from)] = token.val]
    <2>1. Filled(text, "FROM_DEVICE_POLICY", n + 1, new)
      BY <1>2, <1>6, <1>7, <1>8, <1>10, FilledName
    <2>2. Named(state, token.val) = [mfi EXCEPT !.from = new]
      BY <1>10 DEF Named
    <2> HIDE DEF new
    <2>3. mfi'.from = new /\ mfi'.to = mfi.to /\ mfi'.acls = mfi.acls
      BY <1>2, <1>5, <2>2 DEF MudFileInfo
    <2> QED
      BY <1>5, <1>9, <1>10, <2>1, <2>3 DEF MfiFilled, n, text
  <1>11. CASE state = "TO_DEVICE_POLICY"
    <2> DEFINE new == [mfi.to EXCEPT ![Len(mfi.to)] = token.val]
    <2>1. Filled(text, "TO_DEVICE_POLICY", n + 1, new)
      BY <1>2, <1>6, <1>7, <1>8, <1>11, FilledName
    <2>2. Named(state, token.val) = [mfi EXCEPT !.to = new]
      BY <1>11 DEF Named
    <2> HIDE DEF new
    <2>3. mfi'.to = new /\ mfi'.from = mfi.from /\ mfi'.acls = mfi.acls
      BY <1>2, <1>5, <2>2 DEF MudFileInfo
    <2> QED
      BY <1>5, <1>9, <1>11, <2>1, <2>3 DEF MfiFilled, n, text
  <1>12. CASE state = "ACL"
    <2> DEFINE new == [mfi.acls EXCEPT ![Len(mfi.acls)].aclName = token.val]
    <2>1. AclsFilled(text, n + 1, new)
      BY <1>2, <1>6, <1>7, <1>8, <1>12, AclsFilledName
    <2>2. Named(state, token.val) = [mfi EXCEPT !.acls = new]
      BY <1>12 DEF Named
    <2> HIDE DEF new
    <2>3. mfi'.acls = new /\ mfi'.from = mfi.from /\ mfi'.to = mfi.to
      BY <1>2, <1>5, <2>2 DEF MudFileInfo
    <2> QED
      BY <1>5, <1>9, <1>12, <2>1, <2>3 DEF MfiFilled, n, text
  <1>13. CASE state = "ACES"
    <2> DEFINE old == Last(Last(mfi.acls).aceList)
               new == [old EXCEPT !.ruleName = token.val]
    <2>1. n \in In(text, Depth(text), "ACES")
      BY <1>2, <1>7, <1>13
    <2>2. PICK j \in EntriesOf(text, "ACES") : Encloses(Depth(text), j, n)
      BY <1>2, <1>3, <1>7, <2>1 DEF Coherent, IsList, EntriesOf
    <2>3. \A s \in List \ {"ACES"} : n \notin Names(text, Depth(text), s)
      BY <1>6, <1>7, <1>13
    <2>4. /\ old \in AceEntry /\ AceFilled(text, j, n, old)
          /\ \A ace \in AceEntry :
                AceFilled(text, j, n + 1, ace) => MfiFilled(text, n + 1, WithAce(ace))
      BY <1>1, <2>2, <2>3, WalkAce DEF text, n
    <2>5. n \in NamesOf(text, "ACES", j)
      BY <1>3, <2>1, <2>2 DEF NamesOf, Inside, Names
    <2> HIDE DEF old
    <2>6. AceFilled(text, j, n + 1, new)
      BY <1>2, <2>4, <2>5, AceNamed
    <2>7. new \in AceEntry
      BY <1>8, <2>4 DEF AceEntry
    <2>8. mfi' = WithAce(new)
      BY <1>5, <1>13 DEF Named, old
    <2> HIDE DEF new
    <2> QED
      BY <1>5, <2>4, <2>6, <2>7, <2>8 DEF n, text
  <1>14. CASE state \notin {"FROM_DEVICE_POLICY", "TO_DEVICE_POLICY", "ACL", "ACES"}
    <2>1. mfi' = mfi
      BY <1>5, <1>14 DEF Named
    <2> QED
      BY <1>5, <1>9, <1>14, <2>1 DEF MfiFilled, n, text
  <1> QED
    BY <1>10, <1>11, <1>12, <1>13, <1>14

(* Tokens that store nothing in the arrays. *)
LEMMA WalkOn ==
    ASSUME DocumentsSay, WalkInv, NEW kind, At(kind),
           kind # "element",
           kind = "string" => token.key \notin NameKeys \cup AceKeys,
           mfi' = mfi
    PROVE  MfiFilled(document.text, next + 1, mfi')
  <1>1. /\ Coherent(document.text) /\ next \in DOMAIN document.text
        /\ document.text[next] = token /\ token.is = kind
        /\ MfiFilled(document.text, next, mfi)
    BY WalkToken
  <1>2. \A s : next \notin EntriesOf(document.text, s)
    BY <1>1, EntryType
  <1>3. /\ \A s : next \notin Names(document.text, Depth(document.text), s)
        /\ next \notin Strings(document.text, AceKeys)
    BY <1>1 DEF Names, Strings
  <1> QED
    BY <1>1, <1>2, <1>3, MfiFilledOther

LEMMA WalkType ==
    ASSUME DocumentsSay, WalkInv, ProcessType
    PROVE  pc' = "walk" /\ MfiFilled(document.text, next + 1, mfi')
  <1>1. /\ At("string") /\ token.key \in TypeKeys
        /\ Store(state = "ACES" \/ HasEntry(state), mfi)
    BY DEF ProcessType
  <1>2. /\ Coherent(document.text) /\ next \in DOMAIN document.text
        /\ document.text[next] = token /\ token.is = "string"
        /\ state = StateAt(document.text, next)
        /\ MfiFilled(document.text, next, mfi) /\ mfi \in MudFileInfo /\ pc = "walk"
    BY <1>1, WalkToken
  <1>3. next \in Strings(document.text, NameKeys \cup TypeKeys)
    BY <1>1, <1>2 DEF Strings
  <1>4. HasEntry(state)
    BY <1>2, <1>3, EntryIsThere
  <1>5. pc' = "walk" /\ mfi' = mfi
    BY <1>1, <1>2, <1>4 DEF Store
  <1>6. token.key \notin NameKeys \cup AceKeys
    BY <1>1 DEF NameKeys, TypeKeys, AceKeys, DnsNameKeys
  <1> QED
    BY <1>1, <1>5, <1>6, WalkOn

LEMMA WalkAceString ==
    ASSUME DocumentsSay, WalkInv, ProcessAceString
    PROVE  pc' = "walk" /\ MfiFilled(document.text, next + 1, mfi')
  <1> DEFINE old == Last(Last(mfi.acls).aceList)
             new == StoredInAce(old, token.key, token.val)
  <1>1. At("string") /\ token.key \in AceKeys /\ Store(HasAce, WithAce(new))
    BY DEF ProcessAceString
  <1>2. /\ Coherent(document.text) /\ next \in DOMAIN document.text
        /\ document.text[next] = token /\ token.is = "string" /\ token.val \in Val
        /\ mfi \in MudFileInfo /\ WithinArrays(mfi) /\ pc = "walk"
    BY <1>1, WalkToken
  <1>3. next \in Strings(document.text, AceKeys)
    BY <1>1, <1>2 DEF Strings
  <1>4. PICK j \in EntriesOf(document.text, "ACES") : Encloses(Depth(document.text), j, next)
    BY <1>2, <1>3 DEF Coherent
  <1>5. \A s : next \notin Names(document.text, Depth(document.text), s)
    BY <1>1, <1>2 DEF Names, Strings, AceKeys, NameKeys, DnsNameKeys
  <1>6. /\ HasAce /\ old \in AceEntry /\ AceFilled(document.text, j, next, old)
        /\ \A ace \in AceEntry :
              AceFilled(document.text, j, next + 1, ace)
                  => MfiFilled(document.text, next + 1, WithAce(ace))
    BY <1>1, <1>4, <1>5, WalkAce
  <1>7. next \in StringsOf(document.text, j, AceKeys)
    BY <1>3, <1>4 DEF StringsOf, Inside
  <1> HIDE DEF old
  <1>8. AceFilled(document.text, j, next + 1, new)
    BY <1>2, <1>6, <1>7, AceString
  <1>9. new \in AceEntry
    BY <1>2, <1>6, StoredInAceType
  <1> HIDE DEF new
  <1> QED
    BY <1>1, <1>2, <1>6, <1>8, <1>9 DEF Store

LEMMA WalkArray ==
    ASSUME DocumentsSay, WalkInv, NEW kind \in {"array", "nulls"}, At(kind), ArrayMember
    PROVE  pc' = "walk" /\ MfiFilled(document.text, next + 1, mfi')
  <1>1. /\ Coherent(document.text) /\ next \in DOMAIN document.text
        /\ document.text[next] = token /\ token.is = kind
        /\ mfi \in MudFileInfo /\ WithinArrays(mfi) /\ pc = "walk"
    BY WalkToken
  <1>2. CASE token.key \in ArrayKeys
    <2> DEFINE old == Last(Last(mfi.acls).aceList)
               new == [old EXCEPT !.aceType = TypeOfArray(token.key)]
    <2>1. Store(HasAce, WithAce(new))
      BY <1>2 DEF ArrayMember
    <2>2. next \in Arrays(document.text)
      BY <1>1, <1>2 DEF Arrays
    <2>3. PICK j \in EntriesOf(document.text, "ACES") :
              Encloses(Depth(document.text), j, next)
      BY <1>1, <2>2 DEF Coherent
    <2>4. /\ HasAce /\ old \in AceEntry /\ AceFilled(document.text, j, next, old)
          /\ \A ace \in AceEntry :
                AceFilled(document.text, j, next + 1, ace)
                    => MfiFilled(document.text, next + 1, WithAce(ace))
      <3>1. \A s : next \notin Names(document.text, Depth(document.text), s)
        BY <1>1 DEF Names, Strings
      <3> QED
        BY <2>3, <3>1, WalkAce
    <2>5. next \in Inside(Depth(document.text), j, Arrays(document.text))
      BY <2>2, <2>3 DEF Inside
    <2> HIDE DEF old
    <2>6. AceFilled(document.text, j, next + 1, new)
      BY <1>1, <2>4, <2>5, AceArray
    <2>7. new \in AceEntry
      BY <1>2, <2>4, TypeOfArrayType DEF AceEntry
    <2> HIDE DEF new
    <2> QED
      BY <1>1, <2>1, <2>4, <2>6, <2>7 DEF Store
  <1>3. CASE token.key \notin ArrayKeys
    <2>1. mfi' = mfi /\ pc' = pc
      BY <1>3 DEF ArrayMember
    <2> QED
      BY <1>1, <2>1, WalkOn
  <1> QED
    BY <1>2, <1>3

-----------------------------------------------------------------------------
(* An entry more. *)

LEMMA ListLimit ==
    ASSUME NEW text, Coherent(text), NEW s, NEW S, NEW list \in Seq(S),
           ListSays(text, Depth(text), s, list),
           NEW n \in EntriesOf(text, s), NEW names, Filled(text, s, n, names)
    PROVE  Len(names) + 1 <= Len(list) /\ Len(names) \in Nat /\ Len(list) \in Nat
  <1>1. Cardinality(EntriesOf(text, s)) = Len(list)
    BY DEF ListSays, EntriesOf
  <1>2. EntriesOf(text, s) \in SUBSET (1..Len(text))
    BY EntriesInside
  <1>3. Count(EntriesOf(text, s), n - 1) + 1 <= Cardinality(EntriesOf(text, s))
    BY <1>2, EntriesWithin
  <1>4. Count(EntriesOf(text, s), n - 1) \in Nat
    BY EntryType
  <1> QED
    BY <1>1, <1>3, <1>4, LenProperties DEF Filled

LEMMA FileType ==
    ASSUME NEW f, IsMudFileInfo(f)
    PROVE  /\ f.from \in Seq(AclName) /\ f.to \in Seq(AclName)
           /\ DOMAIN f.acls \subseteq AclName
           /\ \A name \in DOMAIN f.acls : f.acls[name] \in Seq(Ace)
  BY DEF IsMudFileInfo

LEMMA WalkEntry ==
    ASSUME DocumentsSay, WalkInv, OpenElement
    PROVE  \/ mfi' = mfi /\ pc' = "astray" /\ ~WithinLimits(document.file)
           \/ pc' = "walk" /\ MfiFilled(document.text, next + 1, mfi')
  <1> DEFINE text == document.text
             n == next
             f == document.file
  <1>1. At("element") /\ IncrementState
    BY DEF OpenElement
  <1>2. /\ Coherent(text) /\ n \in DOMAIN text /\ text[n] = token /\ token.is = "element"
        /\ \A s \in Section : n \in In(text, Depth(text), s) <=> state = s
        /\ MfiFilled(text, n, mfi) /\ mfi \in MudFileInfo /\ pc = "walk"
        /\ Says(text, f)
    BY <1>1, WalkToken
  <1>3. IsMudFileInfo(f)
    BY DEF WalkInv, TypeInv, TypeOK
  <1> HIDE DEF text, n, f
  <1>4. /\ "FROM_DEVICE_POLICY" \in List /\ "TO_DEVICE_POLICY" \in List /\ "ACL" \in List
        /\ "ACES" \in List /\ List \subseteq Section
    BY DEF List, Section
  <1>5. /\ \A s \in Section : n \in EntriesOf(text, s) <=> state = s
        /\ \A s : n \notin Names(text, Depth(text), s)
        /\ n \notin Strings(text, AceKeys)
    BY <1>2 DEF EntriesOf, Entries, Names, Strings
  <1>6. /\ Filled(text, "FROM_DEVICE_POLICY", n, mfi.from)
        /\ Filled(text, "TO_DEVICE_POLICY", n, mfi.to)
        /\ AclsFilled(text, n, mfi.acls)
        /\ mfi.from \in Seq(Stored) /\ mfi.to \in Seq(Stored) /\ mfi.acls \in Seq(AclEntry)
        /\ Null \in Stored
    BY <1>2 DEF MfiFilled, MudFileInfo, Stored
  <1>7. /\ state # "FROM_DEVICE_POLICY" => Filled(text, "FROM_DEVICE_POLICY", n + 1, mfi.from)
        /\ state # "TO_DEVICE_POLICY" => Filled(text, "TO_DEVICE_POLICY", n + 1, mfi.to)
        /\ state \notin {"ACL", "ACES"} => AclsFilled(text, n + 1, mfi.acls)
    BY <1>2, <1>4, <1>5, <1>6, FilledOther, AclsFilledOther
  <1>8. /\ MaxPolicies \in Nat /\ MaxAcls \in Nat /\ MaxAces \in Nat
    BY ParserAssumption
  <1>9. /\ f.from \in Seq(AclName) /\ f.to \in Seq(AclName)
        /\ \A name \in DOMAIN f.acls : f.acls[name] \in Seq(Ace)
    BY <1>3, FileType
  <1>10. /\ ListSays(text, Depth(text), "FROM_DEVICE_POLICY", f.from)
         /\ ListSays(text, Depth(text), "TO_DEVICE_POLICY", f.to)
         /\ AclsSay(text, Depth(text), f.acls)
    BY <1>2 DEF Says
  <1>11. CASE state = "FROM_DEVICE_POLICY"
    <2> DEFINE new == Append(mfi.from, Null)
    <2>1. Store(Len(mfi.from) < MaxPolicies, [mfi EXCEPT !.from = new])
      BY <1>1, <1>11 DEF IncrementState
    <2>2. n \in EntriesOf(text, "FROM_DEVICE_POLICY")
      BY <1>4, <1>5, <1>11
    <2>3. Filled(text, "FROM_DEVICE_POLICY", n + 1, new)
      BY <1>2, <1>4, <1>6, <2>2, FilledEntry
    <2>4. ~(Len(mfi.from) < MaxPolicies) => ~WithinLimits(f)
      <3>1. Len(mfi.from) + 1 <= Len(f.from) /\ Len(mfi.from) \in Nat /\ Len(f.from) \in Nat
        BY <1>2, <1>6, <1>9, <1>10, <2>2, ListLimit
      <3> QED
        BY <1>8, <3>1 DEF WithinLimits
    <2> HIDE DEF new
    <2>5. LET m == [mfi EXCEPT !.from = new]
          IN  m.from = new /\ m.to = mfi.to /\ m.acls = mfi.acls
      BY <1>2 DEF MudFileInfo
    <2>6. MfiFilled(text, n + 1, [mfi EXCEPT !.from = new])
      BY <1>7, <1>11, <2>3, <2>5 DEF MfiFilled
    <2> QED
      BY <1>2, <2>1, <2>4, <2>6 DEF Store, n, text, f
  <1>12. CASE state = "TO_DEVICE_POLICY"
    <2> DEFINE new == Append(mfi.to, Null)
    <2>1. Store(Len(mfi.to) < MaxPolicies, [mfi EXCEPT !.to = new])
      BY <1>1, <1>12 DEF IncrementState
    <2>2. n \in EntriesOf(text, "TO_DEVICE_POLICY")
      BY <1>4, <1>5, <1>12
    <2>3. Filled(text, "TO_DEVICE_POLICY", n + 1, new)
      BY <1>2, <1>4, <1>6, <2>2, FilledEntry
    <2>4. ~(Len(mfi.to) < MaxPolicies) => ~WithinLimits(f)
      <3>1. Len(mfi.to) + 1 <= Len(f.to) /\ Len(mfi.to) \in Nat /\ Len(f.to) \in Nat
        BY <1>2, <1>6, <1>9, <1>10, <2>2, ListLimit
      <3> QED
        BY <1>8, <3>1 DEF WithinLimits
    <2> HIDE DEF new
    <2>5. LET m == [mfi EXCEPT !.to = new]
          IN  m.to = new /\ m.from = mfi.from /\ m.acls = mfi.acls
      BY <1>2 DEF MudFileInfo
    <2>6. MfiFilled(text, n + 1, [mfi EXCEPT !.to = new])
      BY <1>7, <1>12, <2>3, <2>5 DEF MfiFilled
    <2> QED
      BY <1>2, <2>1, <2>4, <2>6 DEF Store, n, text, f
  <1>13. CASE state = "ACL"
    <2> DEFINE new == Append(mfi.acls, [aclName |-> Null, aceList |-> <<>>])
    <2>1. Store(Len(mfi.acls) < MaxAcls, [mfi EXCEPT !.acls = new])
      BY <1>1, <1>13 DEF IncrementState
    <2>2. n \in EntriesOf(text, "ACL")
      BY <1>4, <1>5, <1>13
    <2>3. AclsFilled(text, n + 1, new)
      BY <1>2, <1>6, <2>2, AclsFilledEntry
    <2>4. ~(Len(mfi.acls) < MaxAcls) => ~WithinLimits(f)
      <3>1. EntriesOf(text, "ACL") \in SUBSET (1..Len(text))
        BY <1>2, EntriesInside
      <3>2. /\ Count(EntriesOf(text, "ACL"), n - 1) + 1 <= Cardinality(EntriesOf(text, "ACL"))
            /\ Cardinality(EntriesOf(text, "ACL")) \in Nat
        BY <1>2, <2>2, <3>1, EntriesWithin
      <3>3. Cardinality(EntriesOf(text, "ACL")) = Cardinality(DOMAIN f.acls)
        BY <1>10 DEF AclsSay, EntriesOf
      <3>4. Len(mfi.acls) = Count(EntriesOf(text, "ACL"), n - 1) /\ Len(mfi.acls) \in Nat
        BY <1>6, AclNamesType DEF AclsFilled, Filled
      <3> QED
        BY <1>8, <3>2, <3>3, <3>4 DEF WithinLimits
    <2> HIDE DEF new
    <2>5. LET m == [mfi EXCEPT !.acls = new]
          IN  m.to = mfi.to /\ m.from = mfi.from /\ m.acls = new
      BY <1>2 DEF MudFileInfo
    <2>6. MfiFilled(text, n + 1, [mfi EXCEPT !.acls = new])
      BY <1>7, <1>13, <2>3, <2>5 DEF MfiFilled
    <2> QED
      BY <1>2, <2>1, <2>4, <2>6 DEF Store, n, text, f
  <1>14. CASE state = "ACES"
    <2> DEFINE new == [mfi.acls EXCEPT ![Len(mfi.acls)].aceList = Append(@, BlankAce)]
               aces == mfi.acls[Len(mfi.acls)].aceList
    <2>1. Store(mfi.acls # <<>> /\ Len(Last(mfi.acls).aceList) < MaxAces,
                [mfi EXCEPT !.acls = new])
      <3>1. [mfi EXCEPT !.acls[Len(mfi.acls)].aceList = Append(@, BlankAce)]
              = [mfi EXCEPT !.acls = new]
        BY <1>2 DEF MudFileInfo
      <3> QED
        BY <1>1, <1>14, <3>1 DEF IncrementState
    <2>2. n \in EntriesOf(text, "ACES")
      BY <1>4, <1>5, <1>14
    <2>3. /\ \E a \in EntriesOf(text, "ACL") :
                n \in AcesOf(text, a) /\ Len(aces) = Count(AcesOf(text, a), n - 1)
          /\ Len(mfi.acls) \in 1..Len(mfi.acls)
          /\ AclsFilled(text, n + 1, new)
      BY <1>2, <1>6, <2>2, AclsFilledAceEntry
    <2>4. mfi.acls # <<>> /\ Last(mfi.acls).aceList = aces
      <3>1. Len(<<>>) = 0
        BY EmptySeq
      <3> QED
        BY <2>3, <3>1 DEF Last
    <2>5. ~(Len(aces) < MaxAces) => ~WithinLimits(f)
      <3>1. PICK a \in EntriesOf(text, "ACL") :
                n \in AcesOf(text, a) /\ Len(aces) = Count(AcesOf(text, a), n - 1)
        BY <2>3
      <3>2. PICK name \in DOMAIN f.acls :
                AclSays(text, Depth(text), AcesOf(text, a), f.acls[name])
        BY <1>10, EntryDefines
      <3>3. Cardinality(AcesOf(text, a)) = Len(f.acls[name])
        BY <3>2 DEF AclSays
      <3>4. AcesOf(text, a) \in SUBSET (1..Len(text))
        BY <1>2, AcesInside
      <3>5. /\ Count(AcesOf(text, a), n - 1) + 1 <= Cardinality(AcesOf(text, a))
            /\ Cardinality(AcesOf(text, a)) \in Nat
        BY <1>2, <3>1, <3>4, EntriesWithin
      <3>6. Count(AcesOf(text, a), n - 1) \in Nat
        BY <1>2, <3>1, AcesOfType
      <3> QED
        BY <1>8, <3>1, <3>3, <3>5, <3>6 DEF WithinLimits
    <2> HIDE DEF new
    <2>6. LET m == [mfi EXCEPT !.acls = new]
          IN  m.to = mfi.to /\ m.from = mfi.from /\ m.acls = new
      BY <1>2 DEF MudFileInfo
    <2>7. MfiFilled(text, n + 1, [mfi EXCEPT !.acls = new])
      BY <1>7, <1>14, <2>3, <2>6 DEF MfiFilled
    <2> QED
      BY <1>2, <2>1, <2>4, <2>5, <2>7 DEF Store, n, text, f
  <1>15. CASE state \notin List
    <2>1. mfi' = mfi /\ pc' = pc
      BY <1>1, <1>15 DEF IncrementState, List
    <2>2. MfiFilled(text, n + 1, mfi)
      BY <1>4, <1>7, <1>15 DEF MfiFilled, List
    <2> QED
      BY <1>2, <2>1, <2>2 DEF n, text
  <1> QED
    BY <1>11, <1>12, <1>13, <1>14, <1>15 DEF List

LEMMA WalkNext ==
    ASSUME DocumentsSay, WalkInv, [Next]_vars
    PROVE  WalkInv'
  <1>1. TypeInv'
    BY NextType DEF WalkInv
  <1>2. CASE ProcessName
    <2>1. At("string") /\ StackStep("string")
      BY <1>2 DEF ProcessName, StackStep
    <2> QED
      BY <1>1, <1>2, <2>1, WalkName, WalkStep
  <1>3. CASE ProcessType
    <2>1. At("string") /\ StackStep("string")
      BY <1>3 DEF ProcessType, StackStep
    <2> QED
      BY <1>1, <1>3, <2>1, WalkType, WalkStep
  <1>4. CASE ProcessAceString
    <2>1. At("string") /\ StackStep("string")
      BY <1>4 DEF ProcessAceString, StackStep
    <2> QED
      BY <1>1, <1>4, <2>1, WalkAceString, WalkStep
  <1>5. CASE ProcessOtherString
    <2>1. /\ At("string") /\ StackStep("string") /\ mfi' = mfi /\ pc' = "walk"
          /\ token.key \notin NameKeys \cup AceKeys
      BY <1>5 DEF ProcessOtherString, StackStep, At
    <2> QED
      BY <1>1, <2>1, WalkOn, WalkStep
  <1>6. ASSUME NEW kind \in {"object", "close"}, At(kind), StackStep(kind),
               mfi' = mfi, pc' = pc
        PROVE  WalkInv'
    <2>1. pc' = "walk"
      BY <1>6 DEF At
    <2> QED
      BY <1>1, <1>6, <2>1, WalkOn, WalkStep
  <1>7. CASE OpenObject
    BY <1>6, <1>7 DEF OpenObject, StackStep
  <1>8. CASE Close
    BY <1>6, <1>8 DEF Close, StackStep
  <1>9. CASE OpenArray
    <2>1. At("array") /\ StackStep("array") /\ ArrayMember
      BY <1>9 DEF OpenArray, StackStep
    <2> QED
      BY <1>1, <2>1, WalkArray, WalkStep
  <1>10. CASE SkipNullArray
    <2>1. At("nulls") /\ StackStep("nulls") /\ ArrayMember
      BY <1>10 DEF SkipNullArray, StackStep
    <2> QED
      BY <1>1, <2>1, WalkArray, WalkStep
  <1>11. CASE OpenElement
    <2>1. At("element") /\ StackStep("element")
      BY <1>11 DEF OpenElement, StackStep
    <2> QED
      BY <1>1, <1>11, <2>1, WalkEntry, WalkStep
  <1>12. CASE CrashOnScalar
    <2>1. At("scalar") /\ StackStep("scalar") /\ pc' = "crashed"
      BY <1>12 DEF CrashOnScalar, StackStep
    <2> QED
      BY <1>1, <2>1, WalkStep
  <1>13. CASE Return
    <2>1. /\ UNCHANGED <<document, next, stack, mfi>> /\ pc = "walk" /\ pc' = "done"
          /\ next > Len(document.text)
      BY <1>13 DEF Return
    <2>2. next = Len(document.text) + 1
      <3>1. Len(document.text) \in Nat
        BY DocumentType DEF WalkInv, TypeInv
      <3> QED
        BY <2>1, <3>1 DEF WalkInv, TypeInv, TypeOK
    <2>3. StackInv' /\ MfiFilled(document.text, next, mfi)'
      BY <2>1 DEF WalkInv, StackInv
    <2> QED
      BY <1>1, <2>1, <2>2, <2>3 DEF WalkInv, StoresStayInside
  <1>14. CASE UNCHANGED vars
    <2>1. UNCHANGED <<document, next, stack, mfi, pc>>
      BY <1>14 DEF vars
    <2>2. StackInv' /\ StoresStayInside'
      BY <2>1 DEF WalkInv, StackInv, StoresStayInside, WithinLimits
    <2> QED
      BY <1>1, <2>1, <2>2 DEF WalkInv
  <1> QED
    BY <1>2, <1>3, <1>4, <1>5, <1>7, <1>8, <1>9, <1>10, <1>11, <1>12, <1>13, <1>14 DEF Next

(* For every document that says its MUD file in the known keys: a store     *)
(* leaves the arrays only when the file has more entries than they hold.   *)
THEOREM StaysInsideCorrect ==
    ASSUME DocumentsSay
    PROVE  Spec => []StoresStayInside
  <1>1. Init => WalkInv
    BY WalkInit
  <1>2. WalkInv /\ [Next]_vars => WalkInv'
    BY WalkNext
  <1>3. WalkInv => StoresStayInside
    BY DEF WalkInv
  <1> QED
    BY <1>1, <1>2, <1>3, PTL DEF Spec

-----------------------------------------------------------------------------
(* What the whole document has left in the structure.                       *)

LEMMA SequenceIs ==
    ASSUME NEW S, NEW T, NEW p \in Seq(S), NEW q \in Seq(T), Len(p) = Len(q),
           \A k \in 1..Len(p) : p[k] = q[k]
    PROVE  p = q
  <1>1. p \in [1..Len(p) -> S] /\ q \in [1..Len(q) -> T]
    BY LenProperties
  <1> QED
    BY <1>1

LEMMA ListIsWritten ==
    ASSUME NEW text, Coherent(text), NEW s, NEW list,
           ListSays(text, Depth(text), s, list),
           NEW names \in Seq(Stored), NEW S, list \in Seq(S),
           Filled(text, s, Len(text) + 1, names)
    PROVE  names = list
  <1> DEFINE E == EntriesOf(text, s)
  <1>1. Len(text) \in Nat /\ (Len(text) + 1) - 1 = Len(text)
    BY LenProperties DEF Coherent
  <1>2. E \in SUBSET (1..Len(text))
    BY EntriesInside
  <1>3. Count(E, Len(text)) = Cardinality(E)
    BY <1>1, <1>2, CountAll
  <1>4. Cardinality(E) = Len(list)
    BY DEF ListSays, EntriesOf
  <1>5. Len(names) = Count(E, Len(text))
    BY <1>1 DEF Filled
  <1>6. ASSUME NEW k \in 1..Len(names)
        PROVE  names[k] = list[k]
    <2>1. PICK j \in E : Count(E, j) = k
      BY <1>1, <1>5, CountReaches
    <2>2. Vals(text, NamesOf(text, s, j)) = {list[k]}
      BY <2>1, ListAlike
    <2>3. PICK i \in NamesOf(text, s, j) : text[i].val = list[k]
      BY <2>2 DEF Vals
    <2>4. i < Len(text) + 1
      BY <1>1, NamesType
    <2>5. names[Count(E, j)] = text[i].val
      BY <2>4 DEF Filled
    <2> QED
      BY <2>1, <2>3, <2>5
  <1> QED
    BY <1>3, <1>4, <1>5, <1>6, SequenceIs

LEMMA AceIsWritten ==
    ASSUME NEW text, Coherent(text), NEW j \in EntriesOf(text, "ACES"),
           NEW said \in Ace, AceSays(text, Depth(text), j, said),
           NEW ace, AceFilled(text, j, Len(text) + 1, ace)
    PROVE  SameAce(ace, said)
  <1> DEFINE dns == StringsOf(text, j, DnsNameKeys)
             low == StringsOf(text, j, {"port", "lower-port"})
             up  == StringsOf(text, j, {"port", "upper-port"})
             fwd == StringsOf(text, j, {"forwarding"})
  <1>1. ASSUME NEW keys
        PROVE  Seen(text, j, Len(text) + 1, keys) = StringsOf(text, j, keys)
    <2>1. \A i \in StringsOf(text, j, keys) : i < Len(text) + 1
      <3> SUFFICES ASSUME NEW i \in StringsOf(text, j, keys)
                   PROVE  i < Len(text) + 1
        OBVIOUS
      <3>1. i \in DOMAIN text
        BY EntryType, StringsOfType
      <3>2. i \in 1..Len(text) /\ Len(text) \in Nat
        BY <3>1, LenProperties DEF Coherent
      <3> QED
        BY <3>2
    <2> QED
      BY <2>1 DEF Seen
  <1>2. /\ (ace.aceType = "ACLDNS") = (dns # {})
        /\ \A i \in dns : ace.dnsName = text[i].val
        /\ (ace.lowerPort # Null) = (low # {})
        /\ (ace.upperPort # Null) = (up # {})
        /\ \A i \in fwd : ace.actionsForwarding = text[i].val
    BY <1>1 DEF AceFilled
  <1>3. /\ said.dns = (dns # {})
        /\ Vals(text, dns) \subseteq {said.domain}
        /\ said.ports = (low # {} /\ up # {})
        /\ Vals(text, fwd) = {Forwarding(said.target)}
    BY DEF AceSays, StringsOf
  <1>8. (ace.ruleName # Null) = said.named
    <2>1. NamesSeen(text, j, Len(text) + 1) = NamesOf(text, "ACES", j)
      <3>1. \A i \in NamesOf(text, "ACES", j) : i < Len(text) + 1
        <4> SUFFICES ASSUME NEW i \in NamesOf(text, "ACES", j)
                     PROVE  i < Len(text) + 1
          OBVIOUS
        <4>1. i \in 1..Len(text) /\ Len(text) \in Nat
          BY NamesType, LenProperties DEF Coherent
        <4> QED
          BY <4>1
      <3> QED
        BY <3>1 DEF NamesSeen
    <2>2. said.named = (NamesOf(text, "ACES", j) # {})
      BY DEF AceSays, NamesOf
    <2> QED
      BY <2>1, <2>2 DEF AceFilled
  <1> HIDE DEF dns, low, up, fwd
  <1>4. (ace.aceType = "ACLDNS") = said.dns
    BY <1>2, <1>3
  <1>5. said.dns => ace.dnsName = said.domain
    <2>1. \A i \in dns : text[i].val = said.domain
      BY <1>3 DEF Vals
    <2> QED
      BY <1>2, <1>3, <2>1
  <1>6. (Null \notin {ace.lowerPort, ace.upperPort}) = said.ports
    BY <1>2, <1>3
  <1>7. GetActionString(ace.actionsForwarding) = said.target
    <2>1. PICK i \in fwd : text[i].val = Forwarding(said.target)
      BY <1>3 DEF Vals
    <2>2. ace.actionsForwarding = Forwarding(said.target)
      BY <1>2, <2>1
    <2>3. said.target \in Target
      BY DEF Ace
    <2> QED
      BY <2>2, <2>3 DEF GetActionString, Forwarding, Target
  <1> QED
    BY <1>4, <1>5, <1>6, <1>7, <1>8 DEF SameAce

LEMMA AcesAreWritten ==
    ASSUME NEW text, Coherent(text), NEW a \in EntriesOf(text, "ACL"),
           NEW said \in Seq(Ace), AclSays(text, Depth(text), AcesOf(text, a), said),
           NEW aces \in Seq(AceEntry), AcesFilled(text, a, Len(text) + 1, aces)
    PROVE  /\ Len(aces) = Len(said)
           /\ \A k \in DOMAIN aces : SameAce(aces[k], said[k])
  <1> DEFINE A == AcesOf(text, a)
  <1>1. Len(text) \in Nat /\ (Len(text) + 1) - 1 = Len(text)
    BY LenProperties DEF Coherent
  <1>2. A \in SUBSET (1..Len(text))
    BY AcesInside
  <1>3. Count(A, Len(text)) = Cardinality(A)
    BY <1>1, <1>2, CountAll
  <1>4. Cardinality(A) = Len(said) /\ \A j \in A : AceSays(text, Depth(text), j, said[Count(A, j)])
    BY DEF AclSays
  <1>5. Len(aces) = Count(A, Len(text))
    BY <1>1 DEF AcesFilled
  <1>6. DOMAIN aces = 1..Len(aces)
    BY LenProperties
  <1>7. ASSUME NEW k \in 1..Len(aces)
        PROVE  SameAce(aces[k], said[k])
    <2>1. PICK j \in A : Count(A, j) = k
      BY <1>1, <1>5, CountReaches
    <2>2. j \in EntriesOf(text, "ACES") /\ j \in 1..Len(text)
      BY AcesOfType
    <2>3. j < Len(text) + 1
      BY <1>1, <2>2
    <2>4. AceFilled(text, j, Len(text) + 1, aces[k])
      BY <2>1, <2>3 DEF AcesFilled
    <2>5. said[k] \in Ace
      BY <1>3, <1>4, <1>5, ElementOfSeq
    <2>6. AceSays(text, Depth(text), j, said[k])
      BY <1>4, <2>1
    <2> QED
      BY <2>2, <2>4, <2>5, <2>6, AceIsWritten
  <1> QED
    BY <1>3, <1>4, <1>5, <1>6, <1>7

(* The ACL that an entry has left in the structure. *)
LEMMA AclIsWritten ==
    ASSUME NEW text, Coherent(text), NEW f, IsMudFileInfo(f),
           AclsSay(text, Depth(text), f.acls),
           NEW acls \in Seq(AclEntry), AclsFilled(text, Len(text) + 1, acls),
           NEW a \in EntriesOf(text, "ACL"), NEW k \in 1..Len(acls),
           Count(EntriesOf(text, "ACL"), a) = k
    PROVE  /\ Vals(text, NamesOf(text, "ACL", a)) = {acls[k].aclName}
           /\ SameAcl(acls[k], f)
  <1>1. Len(text) \in Nat /\ a \in 1..Len(text) /\ a < Len(text) + 1
    BY EntryType, LenProperties DEF Coherent
  <1>2. PICK name \in DOMAIN f.acls :
            /\ Vals(text, NamesOf(text, "ACL", a)) = {name}
            /\ AclSays(text, Depth(text), AcesOf(text, a), f.acls[name])
    BY EntryDefines
  <1>3. PICK i \in NamesOf(text, "ACL", a) : text[i].val = name
    BY <1>2 DEF Vals
  <1>4. i < Len(text) + 1
    BY <1>1, NamesType
  <1>5. AclNames(acls)[k] = name
    BY <1>3, <1>4 DEF AclsFilled, Filled
  <1>6. acls[k].aclName = name
    BY <1>5 DEF AclNames
  <1>7. AcesFilled(text, a, Len(text) + 1, acls[k].aceList)
    BY <1>1 DEF AclsFilled
  <1>8. acls[k].aceList \in Seq(AceEntry)
    <2>1. acls[k] \in AclEntry
      BY ElementOfSeq
    <2> QED
      BY <2>1 DEF AclEntry
  <1>9. f.acls[name] \in Seq(Ace)
    BY FileType
  <1>10. /\ Len(acls[k].aceList) = Len(f.acls[name])
         /\ \A j \in DOMAIN acls[k].aceList : SameAce(acls[k].aceList[j], f.acls[name][j])
    BY <1>2, <1>7, <1>8, <1>9, AcesAreWritten
  <1> QED
    BY <1>2, <1>6, <1>10 DEF SameAcl, HasAcl, GetMudFileAcl

LEMMA FilledIsWritten ==
    ASSUME NEW text, Coherent(text), NEW f, IsMudFileInfo(f), Says(text, f),
           NEW m \in MudFileInfo, MfiFilled(text, Len(text) + 1, m)
    PROVE  /\ m.from = f.from
           /\ m.to = f.to
           /\ Len(m.acls) = Cardinality(DOMAIN f.acls)
           /\ \A i \in DOMAIN m.acls : SameAcl(m.acls[i], f)
           /\ {m.acls[i].aclName : i \in DOMAIN m.acls} = DOMAIN f.acls
  <1> DEFINE E == EntriesOf(text, "ACL")
             acls == m.acls
  <1>1. /\ ListSays(text, Depth(text), "FROM_DEVICE_POLICY", f.from)
        /\ ListSays(text, Depth(text), "TO_DEVICE_POLICY", f.to)
        /\ AclsSay(text, Depth(text), f.acls)
    BY DEF Says
  <1>2. /\ Filled(text, "FROM_DEVICE_POLICY", Len(text) + 1, m.from)
        /\ Filled(text, "TO_DEVICE_POLICY", Len(text) + 1, m.to)
        /\ AclsFilled(text, Len(text) + 1, acls)
        /\ m.from \in Seq(Stored) /\ m.to \in Seq(Stored) /\ acls \in Seq(AclEntry)
    BY DEF MfiFilled, MudFileInfo
  <1>3. f.from \in Seq(AclName) /\ f.to \in Seq(AclName)
    BY FileType
  <1>4. m.from = f.from
    BY <1>1, <1>2, <1>3, ListIsWritten
  <1>5. m.to = f.to
    BY <1>1, <1>2, <1>3, ListIsWritten
  <1>6. Len(text) \in Nat /\ (Len(text) + 1) - 1 = Len(text) /\ E \in SUBSET (1..Len(text))
    BY EntriesInside, LenProperties DEF Coherent
  <1>7. Count(E, Len(text)) = Cardinality(E)
    BY <1>6, CountAll
  <1>8. Len(acls) = Count(E, Len(text)) /\ DOMAIN acls = 1..Len(acls) /\ Len(acls) \in Nat
    BY <1>2, <1>6, AclNamesType, LenProperties DEF AclsFilled, Filled
  <1>9. Cardinality(E) = Cardinality(DOMAIN f.acls)
    BY <1>1 DEF AclsSay, EntriesOf
  <1> HIDE DEF acls, E
  <1>10. ASSUME NEW k \in 1..Len(acls)
         PROVE  \E a \in E : Count(E, a) = k
    BY <1>6, <1>8, CountReaches
  <1>11. ASSUME NEW a \in E, NEW k \in 1..Len(acls), Count(E, a) = k
         PROVE  Vals(text, NamesOf(text, "ACL", a)) = {acls[k].aclName} /\ SameAcl(acls[k], f)
    BY <1>1, <1>2, <1>11, AclIsWritten DEF E
  <1>12. \A k \in 1..Len(acls) : SameAcl(acls[k], f)
    BY <1>10, <1>11
  <1>13. ASSUME NEW name \in DOMAIN f.acls
         PROVE  \E k \in 1..Len(acls) : acls[k].aclName = name
    <2> DEFINE all == {Vals(text, NamesOf(text, "ACL", a)) : a \in E}
    <2>1. all = {{x} : x \in DOMAIN f.acls}
      BY <1>1 DEF AclsSay, EntriesOf, NamesOf, E
    <2>2. {name} \in all
      BY <2>1
    <2>3. PICK a \in E : Vals(text, NamesOf(text, "ACL", a)) = {name}
      BY <2>2
    <2>4. a \in 1..Len(text) /\ a < Len(text) + 1
      BY <1>6, EntryType DEF E
    <2>5. Len(text) + 1 \in 1..Len(text) + 1
      BY <1>6
    <2>6. Count(E, a) \in 1..Count(E, (Len(text) + 1) - 1)
      BY <2>4, <2>5, EntryNumber DEF E
    <2>7. Count(E, a) \in 1..Len(acls)
      BY <1>6, <1>8, <2>6
    <2>8. Vals(text, NamesOf(text, "ACL", a)) = {acls[Count(E, a)].aclName}
      BY <1>11, <2>7
    <2> QED
      BY <2>3, <2>7, <2>8
  <1>14. \A k \in 1..Len(acls) : acls[k].aclName \in DOMAIN f.acls
    BY <1>12 DEF SameAcl, HasAcl
  <1>15. {acls[i].aclName : i \in DOMAIN acls} = DOMAIN f.acls
    BY <1>8, <1>13, <1>14
  <1> QED
    BY <1>4, <1>5, <1>7, <1>8, <1>9, <1>12, <1>15 DEF acls

(* For every document that says its MUD file in the known keys, in whatever *)
(* order and style: if the walk returns, the structure it returns is the   *)
(* file, entry for entry.                                                  *)
THEOREM ParsedCorrect ==
    ASSUME DocumentsSay
    PROVE  Spec => []ParsedIsWritten
  <1>1. Init => WalkInv
    BY WalkInit
  <1>2. WalkInv /\ [Next]_vars => WalkInv'
    BY WalkNext
  <1>3. WalkInv => ParsedIsWritten
    <2> SUFFICES ASSUME WalkInv, pc = "done"
                 PROVE  ParsedIsWritten
      BY DEF ParsedIsWritten
    <2>1. document \in Documents /\ mfi \in MudFileInfo
      BY DEF WalkInv, TypeInv
    <2>2. /\ Coherent(document.text) /\ IsMudFileInfo(document.file)
          /\ Says(document.text, document.file)
      BY <2>1, DocumentCoherent
    <2>3. MfiFilled(document.text, Len(document.text) + 1, mfi)
      BY DEF WalkInv
    <2> QED
      BY <2>1, <2>2, <2>3, FilledIsWritten DEF ParsedIsWritten
  <1> QED
    BY <1>1, <1>2, <1>3, PTL DEF Spec
===============================================================================
