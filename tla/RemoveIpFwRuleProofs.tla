------------------------- MODULE RemoveIpFwRuleProofs -------------------------
(***************************************************************************)
(* remove_ip_fw_rule.sh does what its header says, for every address and   *)
(* every configuration of at most ten rule sections, when addresses match  *)
(* exactly and no redirect section is involved (ScriptIsExact).            *)
(***************************************************************************)
EXTENDS RemoveIpFwRule, FirewallProofs

(* The staged rules are the original ones at increasing positions, and all  *)
(* those that do not involve the device are among them.                    *)
OriginInv ==
    /\ Len(origin) = Len(staged)
    /\ \A i \in DOMAIN staged :
          origin[i] \in DOMAIN original /\ staged[i] = original[origin[i]]
    /\ \A i, k \in DOMAIN staged : i < k => origin[i] < origin[k]
    /\ \A j \in DOMAIN original :
          ~Involves(original[j], device) => \E i \in DOMAIN staged : origin[i] = j

(* The inductive invariant. *)
IInv ==
    /\ TypeOK
    /\ Len(staged) <= MaxRules
    /\ NoRuleToItself(staged)
    /\ RemainingLines
    /\ pc = "done" => MatchingLines(staged, device) = {}
    /\ OriginInv

InitialRulesOK == \A cfg \in InitialConfigs : NoRuleToItself(cfg)

-----------------------------------------------------------------------------

(* The history variable follows the same shape. *)
LEMMA ForgetType ==
    ASSUME origin \in Seq(Nat), NEW n \in Nat
    PROVE  Forget(n) \in Seq(Nat)
  <1>1. CASE n < Len(origin)
    <2>1. n + 1 \in 1..Len(origin)
      BY <1>1, LenProperties
    <2> QED
      BY <1>1, <2>1, RemoveAtElements DEF Forget
  <1>2. CASE ~(n < Len(origin))
    BY <1>2 DEF Forget
  <1> QED
    BY <1>1, <1>2

(* Every step of the script keeps the variables in their types; this needs  *)
(* no condition on patterns, redirects or the number of rules.             *)
THEOREM TypeCorrect == Spec => []TypeOK
  <1>1. Init => TypeOK
    <2> SUFFICES ASSUME Init
                 PROVE  TypeOK
      OBVIOUS
    <2>1. original \in Config
      BY InitialAssumption DEF Init
    <2>2. origin \in Seq(Nat)
      BY <2>1 DEF Init, Config
    <2> QED
      BY <2>1, <2>2 DEF Init, TypeOK, UciTypeOK
  <1>2. TypeOK /\ [Next]_vars => TypeOK'
    <2> SUFFICES ASSUME TypeOK, [Next]_vars
                 PROVE  TypeOK'
      OBVIOUS
    <2> USE DEF TypeOK, UciTypeOK
    <2>1. CASE Start
      BY <2>1, MatchingLinesType DEF Start, ShowMatching
    <2>2. CASE Delete
      <3>1. PICK line \in lines : DeleteLine(line) /\ origin' = Forget(line.num)
        BY <2>2 DEF Delete
      <3>2. line.num \in Nat
        BY <3>1 DEF Line
      <3> QED
        BY <2>2, <3>1, <3>2, DeleteRuleType, ForgetType DEF Delete, DeleteLine
    <2>3. CASE Finish
      BY <2>3 DEF Finish
    <2>4. CASE UNCHANGED vars
      BY <2>4 DEF vars
    <2> QED
      BY <2>1, <2>2, <2>3, <2>4 DEF Next
  <1> QED
    BY <1>1, <1>2, PTL DEF Spec

-----------------------------------------------------------------------------

LEMMA InitIInv ==
    ASSUME InitialRulesOK, Init
    PROVE  IInv
  <1>1. original \in Config /\ Len(original) <= MaxRules
    BY InitialAssumption DEF Init
  <1>2. DOMAIN original = 1..Len(original) /\ Len(original) \in Nat
    BY <1>1, LenProperties DEF Config
  <1>3. /\ origin \in Seq(Nat)
        /\ Len(origin) = Len(original)
        /\ \A i \in 1..Len(original) : origin[i] = i
    BY <1>1, <1>2 DEF Init
  <1>4. TypeOK
    BY <1>1, <1>3 DEF Init, TypeOK, UciTypeOK
  <1>5. OriginInv
    BY <1>2, <1>3 DEF Init, OriginInv
  <1> QED
    BY <1>1, <1>4, <1>5 DEF Init, IInv, InitialRulesOK, RemainingLines

(* The step that matters: deleting the section of the first line printed. *)
LEMMA DeleteIInv ==
    ASSUME ScriptIsExact, IInv, Delete, TypeOK'
    PROVE  IInv'
  <1> USE DEF IInv, TypeOK, UciTypeOK
  <1>1. PICK line \in lines : DeleteLine(line) /\ origin' = Forget(line.num)
    BY DEF Delete
  <1>2. lines = MatchingLines(staged, device) /\ pc = "deleting"
    BY DEF Delete, RemainingLines
  <1>3. Len(staged) \in Nat /\ DOMAIN staged = 1..Len(staged) /\ Len(staged) <= 10
    BY LenProperties, BoundAssumption DEF Config, ScriptIsExact
  <1>4. /\ line.num \in Nat
        /\ line.num < Len(staged)
        /\ Involves(staged[line.num + 1], device)
        /\ MatchingLines(DeleteRule(staged, line.num), device)
             = MatchingLines(staged, device) \ {line}
    BY <1>1, <1>2, <1>3, DeleteFirstLine DEF DeleteLine
  <1>5. PICK n \in 1..Len(staged) : n = line.num + 1
    BY <1>3, <1>4
  <1>6. /\ staged' \in Config
        /\ Len(staged') = Len(staged) - 1
        /\ \A i \in 1..Len(staged) - 1 :
              staged'[i] = IF i <= n - 1 THEN staged[i] ELSE staged[i + 1]
    BY <1>1, <1>4, <1>5, DeleteRuleElements DEF DeleteLine
  <1>7. DOMAIN staged' = 1..Len(staged) - 1
    BY <1>6 DEF Config
  <1>8. UNCHANGED <<device, original, pc>>
    BY DEF Delete
  <1>9. /\ Len(origin') = Len(staged) - 1
        /\ \A i \in 1..Len(staged) - 1 :
              origin'[i] = IF i < n THEN origin[i] ELSE origin[i + 1]
    <2>1. Len(origin) = Len(staged) /\ origin \in Seq(Nat)
      BY DEF OriginInv
    <2>2. n \in 1..Len(origin)
      BY <2>1
    <2>3. origin' = RemoveAt(origin, n)
      BY <1>1, <1>4, <1>5, <2>1 DEF Forget
    <2>4. /\ Len(origin') = Len(origin) - 1
          /\ \A i \in 1..Len(origin) - 1 :
                origin'[i] = IF i < n THEN origin[i] ELSE origin[i + 1]
      BY <2>1, <2>2, <2>3, RemoveAtElements
    <2> QED
      BY <2>1, <2>4
  (* Where a rule that is still staged was before the step. *)
  <1> DEFINE old(i) == IF i < n THEN i ELSE i + 1
  <1>a. \A i \in DOMAIN staged' :
           /\ old(i) \in DOMAIN staged
           /\ staged'[i] = staged[old(i)]
           /\ origin'[i] = origin[old(i)]
    <2> SUFFICES ASSUME NEW i \in DOMAIN staged'
                 PROVE  /\ old(i) \in DOMAIN staged
                        /\ staged'[i] = staged[old(i)]
                        /\ origin'[i] = origin[old(i)]
      OBVIOUS
    <2>1. i \in 1..Len(staged) - 1 /\ (i < n <=> i <= n - 1)
      BY <1>3, <1>7
    <2>2. old(i) \in DOMAIN staged
      BY <1>3, <2>1
    <2>3. staged'[i] = staged[old(i)]
      BY <1>6, <2>1
    <2>4. origin'[i] = origin[old(i)]
      BY <1>9, <2>1
    <2> QED
      BY <2>2, <2>3, <2>4
  <1>b. \A i, k \in DOMAIN staged' : i < k => old(i) < old(k)
    BY <1>3, <1>7
  <1>c. \A i \in DOMAIN staged : i # n => \E k \in DOMAIN staged' : old(k) = i
    <2> SUFFICES ASSUME NEW i \in DOMAIN staged, i # n
                 PROVE  \E k \in DOMAIN staged' : old(k) = i
      OBVIOUS
    <2>1. CASE i < n
      <3>1. i \in DOMAIN staged' /\ old(i) = i
        BY <1>3, <1>7, <2>1
      <3> QED
        BY <3>1
    <2>2. CASE i > n
      <3>1. i - 1 \in DOMAIN staged' /\ old(i - 1) = i
        BY <1>3, <1>7, <2>2
      <3> QED
        BY <3>1
    <2> QED
      BY <1>3, <2>1, <2>2
  <1> HIDE DEF old
  <1>10. NoRuleToItself(staged')
    BY <1>a DEF NoRuleToItself
  <1>11. RemainingLines'
    BY <1>1, <1>2, <1>4, <1>8 DEF RemainingLines, DeleteLine
  <1>12. OriginInv'
    <2>1. Len(origin') = Len(staged')
      BY <1>6, <1>9
    <2>2. \A i \in DOMAIN staged' :
             origin'[i] \in DOMAIN original' /\ staged'[i] = original'[origin'[i]]
      BY <1>8, <1>a DEF OriginInv
    <2>3. \A i, k \in DOMAIN staged' : i < k => origin'[i] < origin'[k]
      BY <1>a, <1>b DEF OriginInv
    <2>4. ASSUME NEW j \in DOMAIN original', ~Involves(original'[j], device')
          PROVE  \E i \in DOMAIN staged' : origin'[i] = j
      <3>1. PICK i \in DOMAIN staged : origin[i] = j
        BY <1>8, <2>4 DEF OriginInv
      <3>2. staged[i] = original[j]
        BY <3>1 DEF OriginInv
      <3>3. i # n
        BY <1>4, <1>5, <1>8, <2>4, <3>2
      <3> QED
        BY <1>a, <1>c, <3>1, <3>3
    <2> QED
      BY <2>1, <2>2, <2>3, <2>4 DEF OriginInv
  <1>13. Len(staged') <= MaxRules
    BY <1>3, <1>6, BoundAssumption
  <1>14. pc' # "done"
    BY <1>2, <1>8
  <1> QED
    BY <1>10, <1>11, <1>12, <1>13, <1>14

LEMMA NextIInv ==
    ASSUME ScriptIsExact, IInv, [Next]_vars, TypeOK'
    PROVE  IInv'
  <1> USE DEF IInv, RemainingLines, OriginInv
  <1>1. CASE Start
    BY <1>1 DEF Start, ShowMatching
  <1>2. CASE Delete
    BY <1>2, DeleteIInv
  <1>3. CASE Finish
    BY <1>3 DEF Finish
  <1>4. CASE UNCHANGED vars
    BY <1>4 DEF vars
  <1> QED
    BY <1>1, <1>2, <1>3, <1>4 DEF Next

LEMMA Inductive ==
    ASSUME ScriptIsExact, InitialRulesOK
    PROVE  Spec => []IInv
  <1>1. Init => IInv
    BY InitIInv
  <1>2. IInv /\ TypeOK' /\ [Next]_vars => IInv'
    BY NextIInv
  <1> QED
    BY <1>1, <1>2, TypeCorrect, PTL DEF Spec

(* The numbers computed before the first delete stay right to the end. *)
THEOREM RemainingLinesCorrect ==
    ASSUME ScriptIsExact, InitialRulesOK
    PROVE  Spec => []RemainingLines
  <1>1. IInv => RemainingLines
    BY DEF IInv
  <1> QED
    BY <1>1, Inductive, PTL

(* When the script ends, no rule involving the address is left. *)
THEOREM RemovesAllCorrect ==
    ASSUME ScriptIsExact, InitialRulesOK
    PROVE  Spec => []RemovesAll
  <1>1. IInv => RemovesAll
    BY NoLinesMeansNoRules DEF IInv, TypeOK, UciTypeOK, RemovesAll
  <1> QED
    BY <1>1, Inductive, PTL

(* When the script ends, every other rule is there, in the same order. *)
THEOREM KeepsOthersCorrect ==
    ASSUME ScriptIsExact, InitialRulesOK
    PROVE  Spec => []KeepsOthers
  <1>1. IInv => KeepsOthers
    <2> SUFFICES ASSUME IInv
                 PROVE  KeepsOthers
      OBVIOUS
    <2>1. DOMAIN origin = DOMAIN staged
      BY LenProperties DEF IInv, TypeOK, UciTypeOK, OriginInv, Config
    <2> QED
      BY <2>1 DEF IInv, OriginInv, KeepsOthers, ToSet
  <1> QED
    BY <1>1, Inductive, PTL
===============================================================================
