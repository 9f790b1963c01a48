---------------------------- MODULE FirewallProofs ----------------------------
(***************************************************************************)
(* Lemmas about the operators of FirewallConfig: what deleting one section *)
(* does to a configuration; that the loop of remove_ip_fw_rule.sh deletes  *)
(* the last rule that involves the address, which leaves the numbers of    *)
(* the others as they were computed; and what adding or deleting a rule    *)
(* does to the rules of each device.                                       *)
(***************************************************************************)
EXTENDS FirewallConfig, Integers, SequenceTheorems, WellFoundedInduction, TLAPS

(***************************************************************************)
(* The conditions under which the script does what its header says: an     *)
(* address matches only itself as a pattern, no redirect section is there  *)
(* to be mistaken for a rule, and every section's number has one digit, so *)
(* that `sort -r` is a numeric sort.                                       *)
(***************************************************************************)
ScriptIsExact ==
    /\ \A d \in DeviceIp : Pattern[d] = {d}
    /\ Redirects = <<>>
    /\ MaxRules <= 10

(* No rule is printed twice by `uci show | awk`. *)
NoRuleToItself(cfg) ==
    \A i \in DOMAIN cfg : cfg[i].src \in DeviceIp => cfg[i].src # cfg[i].dst

-----------------------------------------------------------------------------

(* RemoveAt removes one element and moves the later ones up. *)
LEMMA RemoveAtElements ==
    ASSUME NEW S, NEW s \in Seq(S), NEW n \in 1..Len(s)
    PROVE  /\ RemoveAt(s, n) \in Seq(S)
           /\ Len(RemoveAt(s, n)) = Len(s) - 1
           /\ \A i \in 1..Len(s) - 1 :
                 RemoveAt(s, n)[i] = IF i < n THEN s[i] ELSE s[i + 1]
  <1>1. Len(s) \in Nat /\ n \in Nat
    BY LenProperties
  <1>2. PICK a : a = SubSeq(s, 1, n - 1)
    OBVIOUS
  <1>3. PICK b : b = SubSeq(s, n + 1, Len(s))
    OBVIOUS
  <1>4. a \in Seq(S) /\ Len(a) = n - 1 /\ \A i \in 1..n-1 : a[i] = s[i]
    <2>1. \A i \in 1..n-1 : i \in 1..Len(s)
      BY <1>1
    <2> QED
      BY <1>1, <1>2, <2>1, SMT
  <1>5. /\ b \in Seq(S)
        /\ Len(b) = Len(s) - n
        /\ \A i \in 1..Len(s) - n : b[i] = s[n + i]
    BY <1>1, <1>3, SMT
  <1>6. /\ a \o b \in Seq(S)
        /\ Len(a \o b) = Len(s) - 1
        /\ \A i \in 1..Len(s) - 1 :
              (a \o b)[i] = IF i <= n - 1 THEN a[i] ELSE b[i - (n - 1)]
    BY <1>1, <1>4, <1>5, SMT
  <1>7. RemoveAt(s, n) = a \o b
    BY <1>2, <1>3 DEF RemoveAt
  <1>8. \A i \in 1..Len(s) - 1 : (a \o b)[i] = IF i < n THEN s[i] ELSE s[i + 1]
    BY <1>1, <1>4, <1>5, <1>6, SMT
  <1> QED
    BY <1>6, <1>7, <1>8

(* `uci delete` of a section that exists. *)
LEMMA DeleteRuleElements ==
    ASSUME NEW cfg \in Config, NEW n \in Nat, n < Len(cfg)
    PROVE  /\ DeleteRule(cfg, n) \in Config
           /\ Len(DeleteRule(cfg, n)) = Len(cfg) - 1
           /\ \A i \in 1..Len(cfg) - 1 :
                 DeleteRule(cfg, n)[i] = IF i <= n THEN cfg[i] ELSE cfg[i + 1]
  <1>1. Len(cfg) \in Nat /\ cfg \in Seq(Rule)
    BY LenProperties DEF Config
  <1>2. n + 1 \in 1..Len(cfg)
    BY <1>1
  <1>3. DeleteRule(cfg, n) = RemoveAt(cfg, n + 1)
    BY DEF DeleteRule
  <1>4. /\ RemoveAt(cfg, n + 1) \in Seq(Rule)
        /\ Len(RemoveAt(cfg, n + 1)) = Len(cfg) - 1
        /\ \A i \in 1..Len(cfg) - 1 :
              RemoveAt(cfg, n + 1)[i] = IF i < n + 1 THEN cfg[i] ELSE cfg[i + 1]
    BY <1>1, <1>2, RemoveAtElements
  <1>5. \A i \in 1..Len(cfg) - 1 : i < n + 1 <=> i <= n
    BY <1>1
  <1> QED
    BY <1>3, <1>4, <1>5 DEF Config

(* A delete leaves a configuration, whether or not the section is there. *)
LEMMA DeleteRuleType ==
    ASSUME NEW cfg \in Config, NEW n \in Nat
    PROVE  DeleteRule(cfg, n) \in Config
  <1>1. CASE n < Len(cfg)
    BY <1>1, DeleteRuleElements
  <1>2. CASE ~(n < Len(cfg))
    BY <1>2 DEF DeleteRule
  <1> QED
    BY <1>1, <1>2

(* A delete changes neither the rules that stay nor their order: a rule     *)
(* comes from one that was there, and what followed it still does.         *)
LEMMA DeleteRuleOrder ==
    ASSUME NEW cfg \in Config, NEW n \in Nat, n < Len(cfg)
    PROVE  /\ \A i, k \in DOMAIN DeleteRule(cfg, n) : i < k =>
                 \E a, b \in DOMAIN cfg :
                    /\ a < b
                    /\ DeleteRule(cfg, n)[i] = cfg[a]
                    /\ DeleteRule(cfg, n)[k] = cfg[b]
           /\ \A i \in DOMAIN DeleteRule(cfg, n) :
                 \E a \in DOMAIN cfg :
                    /\ DeleteRule(cfg, n)[i] = cfg[a]
                    /\ \A b \in DOMAIN cfg : b >= a /\ b # n + 1 =>
                          \E k \in DOMAIN DeleteRule(cfg, n) :
                             i <= k /\ DeleteRule(cfg, n)[k] = cfg[b]
  <1> DEFINE new == DeleteRule(cfg, n)
             old(i) == IF i <= n THEN i ELSE i + 1
             pos(b) == IF b <= n THEN b ELSE b - 1
  <1>1. Len(cfg) \in Nat /\ DOMAIN cfg = 1..Len(cfg)
    BY LenProperties DEF Config
  <1>2. /\ new \in Config
        /\ Len(new) = Len(cfg) - 1
        /\ \A i \in 1..Len(cfg) - 1 : new[i] = IF i <= n THEN cfg[i] ELSE cfg[i + 1]
    BY DeleteRuleElements
  <1>3. DOMAIN new = 1..Len(cfg) - 1
    BY <1>2 DEF Config
  <1> HIDE DEF new
  <1>4. \A i \in DOMAIN new : old(i) \in DOMAIN cfg /\ new[i] = cfg[old(i)]
    BY <1>1, <1>2, <1>3
  <1>5. \A i, k \in DOMAIN new : i < k => old(i) < old(k)
    BY <1>1, <1>3
  <1>6. \A b \in DOMAIN cfg : b # n + 1 => pos(b) \in DOMAIN new /\ old(pos(b)) = b
    BY <1>1, <1>3
  <1>7. \A i \in DOMAIN new, b \in DOMAIN cfg : b >= old(i) /\ b # n + 1 => i <= pos(b)
    BY <1>1, <1>3
  <1> HIDE DEF old, pos
  <1>8. \A i, k \in DOMAIN new : i < k =>
           \E a, b \in DOMAIN cfg : a < b /\ new[i] = cfg[a] /\ new[k] = cfg[b]
    BY <1>4, <1>5
  <1>9. ASSUME NEW i \in DOMAIN new
        PROVE  \E a \in DOMAIN cfg :
                  /\ new[i] = cfg[a]
                  /\ \A b \in DOMAIN cfg : b >= a /\ b # n + 1 =>
                        \E k \in DOMAIN new : i <= k /\ new[k] = cfg[b]
    <2>1. old(i) \in DOMAIN cfg /\ new[i] = cfg[old(i)]
      BY <1>4, <1>9
    <2>2. ASSUME NEW b \in DOMAIN cfg, b >= old(i), b # n + 1
          PROVE  \E k \in DOMAIN new : i <= k /\ new[k] = cfg[b]
      <3>1. pos(b) \in DOMAIN new /\ i <= pos(b)
        BY <1>6, <1>7, <1>9, <2>2
      <3>2. new[pos(b)] = cfg[b]
        BY <1>4, <1>6, <2>2, <3>1
      <3> QED
        BY <3>1, <3>2
    <2> QED
      BY <2>1, <2>2
  <1> QED
    BY <1>8, <1>9 DEF new

(* Every line the pipeline prints belongs to Line. *)
LEMMA MatchingLinesType ==
    ASSUME NEW cfg \in Config, NEW d \in DeviceIp
    PROVE  MatchingLines(cfg, d) \subseteq Line
  <1>1. DOMAIN cfg = 1..Len(cfg) /\ DOMAIN Redirects = 1..Len(Redirects)
    BY SystemAssumption DEF Config
  <1>2. \A i \in DOMAIN cfg \cup DOMAIN Redirects : i - 1 \in Nat
    BY <1>1, SystemAssumption, LenProperties DEF Config
  <1> QED
    BY <1>2 DEF MatchingLines, Line

(* With an exact pattern and no redirects, a line stands for one address    *)
(* option of one rule, and the option is the device's address.             *)
LEMMA MatchingLinesExact ==
    ASSUME ScriptIsExact, NEW cfg \in Config, NEW d \in DeviceIp, NEW l
    PROVE  l \in MatchingLines(cfg, d) <=>
             \E i \in DOMAIN cfg :
                \/ l = [num |-> i - 1, option |-> "src_ip"] /\ cfg[i].src = d
                \/ l = [num |-> i - 1, option |-> "dest_ip"] /\ cfg[i].dst = d
  <1>1. Pattern[d] = {d} /\ DOMAIN Redirects = {}
    BY DEF ScriptIsExact
  <1> QED
    BY <1>1 DEF MatchingLines

(* The script sees a rule exactly if the rule involves the device. *)
LEMMA NoLinesMeansNoRules ==
    ASSUME ScriptIsExact, NEW cfg \in Config, NEW d \in DeviceIp,
           MatchingLines(cfg, d) = {}
    PROVE  \A i \in DOMAIN cfg : ~Involves(cfg[i], d)
  <1> SUFFICES ASSUME NEW i \in DOMAIN cfg, Involves(cfg[i], d)
               PROVE  FALSE
    OBVIOUS
  <1>1. \/ [num |-> i - 1, option |-> "src_ip"] \in MatchingLines(cfg, d)
        \/ [num |-> i - 1, option |-> "dest_ip"] \in MatchingLines(cfg, d)
    BY MatchingLinesExact DEF Involves
  <1> QED
    BY <1>1

(* For numbers of one digit the textual order is the numeric one. *)
LEMMA OneDigitOrder ==
    ASSUME NEW m \in 0..9, NEW n \in 0..9
    PROVE  SortsBefore(m, n) <=> m > n
  BY DEF SortsBefore, LeadingDigit

(* One iteration of the loop: the line printed first is that of the last    *)
(* rule involving the device, and deleting this rule takes away its line    *)
(* and no other.                                                           *)
LEMMA DeleteFirstLine ==
    ASSUME ScriptIsExact,
           NEW cfg \in Config, Len(cfg) <= 10, NoRuleToItself(cfg),
           NEW d \in DeviceIp,
           NEW line \in MatchingLines(cfg, d),
           IsFirst(line, MatchingLines(cfg, d))
    PROVE  /\ line.num \in Nat
           /\ line.num < Len(cfg)
           /\ Involves(cfg[line.num + 1], d)
           /\ \A j \in DOMAIN cfg : j > line.num + 1 => ~Involves(cfg[j], d)
           /\ MatchingLines(DeleteRule(cfg, line.num), d)
                = MatchingLines(cfg, d) \ {line}
  <1>1. Len(cfg) \in Nat /\ DOMAIN cfg = 1..Len(cfg)
    BY LenProperties DEF Config
  <1>2. PICK n \in DOMAIN cfg :
            \/ line = [num |-> n - 1, option |-> "src_ip"] /\ cfg[n].src = d
            \/ line = [num |-> n - 1, option |-> "dest_ip"] /\ cfg[n].dst = d
    BY MatchingLinesExact
  <1>3. line.num = n - 1 /\ n - 1 \in 0..9 /\ n - 1 \in Nat /\ n - 1 < Len(cfg)
    BY <1>1, <1>2
  <1>4. Involves(cfg[n], d)
    BY <1>2 DEF Involves
  <1>5. \A j \in DOMAIN cfg : Involves(cfg[j], d) => j <= n
    <2> SUFFICES ASSUME NEW j \in DOMAIN cfg, Involves(cfg[j], d)
                 PROVE  j <= n
      OBVIOUS
    <2>1. PICK l \in MatchingLines(cfg, d) : l.num = j - 1
      <3>1. \/ [num |-> j - 1, option |-> "src_ip"] \in MatchingLines(cfg, d)
            \/ [num |-> j - 1, option |-> "dest_ip"] \in MatchingLines(cfg, d)
        BY MatchingLinesExact DEF Involves
      <3> QED
        BY <3>1
    <2>2. ~SortsBefore(j - 1, n - 1)
      BY <1>3, <2>1 DEF IsFirst
    <2>3. j - 1 \in 0..9
      BY <1>1
    <2>4. ~(j - 1 > n - 1)
      BY <1>3, <2>2, <2>3, OneDigitOrder
    <2> QED
      BY <1>1, <2>4
  <1> DEFINE rest == DeleteRule(cfg, n - 1)
  <1>6. /\ rest \in Config
        /\ Len(rest) = Len(cfg) - 1
        /\ \A i \in 1..Len(cfg) - 1 :
              rest[i] = IF i <= n - 1 THEN cfg[i] ELSE cfg[i + 1]
    BY <1>3, DeleteRuleElements
  <1>7. DOMAIN rest = 1..Len(cfg) - 1
    BY <1>6 DEF Config
  <1> HIDE DEF rest
  (* A line of what is left is an earlier line, and not the deleted one. *)
  <1>8. ASSUME NEW l \in MatchingLines(rest, d)
        PROVE  l \in MatchingLines(cfg, d) \ {line}
    <2>1. PICK i \in DOMAIN rest :
              \/ l = [num |-> i - 1, option |-> "src_ip"] /\ rest[i].src = d
              \/ l = [num |-> i - 1, option |-> "dest_ip"] /\ rest[i].dst = d
      BY <1>6, MatchingLinesExact
    <2>2. i \in 1..Len(cfg) - 1 /\ i \in DOMAIN cfg /\ i + 1 \in DOMAIN cfg
      BY <1>1, <1>7
    <2>3. Involves(rest[i], d)
      BY <2>1 DEF Involves
    <2>4. i <= n - 1
      <3> SUFFICES ASSUME ~(i <= n - 1)
                   PROVE  FALSE
        OBVIOUS
      <3>1. rest[i] = cfg[i + 1]
        BY <1>6, <2>2
      <3>2. i + 1 <= n
        BY <1>5, <2>2, <2>3, <3>1
      <3> QED
        BY <1>1, <2>2, <3>2
    <2>5. rest[i] = cfg[i]
      BY <1>6, <2>2, <2>4
    <2>6. l \in MatchingLines(cfg, d)
      BY <2>1, <2>2, <2>5, MatchingLinesExact
    <2>7. l.num # line.num
      BY <1>1, <1>3, <2>1, <2>2, <2>4
    <2> QED
      BY <2>6, <2>7
  (* Every other line is still there: no rule before the deleted one moved. *)
  <1>9. ASSUME NEW l \in MatchingLines(cfg, d), l # line
        PROVE  l \in MatchingLines(rest, d)
    <2>1. PICK i \in DOMAIN cfg :
              \/ l = [num |-> i - 1, option |-> "src_ip"] /\ cfg[i].src = d
              \/ l = [num |-> i - 1, option |-> "dest_ip"] /\ cfg[i].dst = d
      BY MatchingLinesExact
    <2>2. i <= n
      BY <1>5, <2>1 DEF Involves
    <2>3. i # n
      <3> SUFFICES ASSUME i = n
                   PROVE  FALSE
        OBVIOUS
      <3>1. l.option # line.option
        BY <1>2, <1>9, <2>1
      <3>2. cfg[n].src = d /\ cfg[n].dst = d
        BY <1>2, <2>1, <3>1
      <3> QED
        BY <3>2 DEF NoRuleToItself
    <2>4. i \in 1..Len(cfg) - 1 /\ i <= n - 1
      BY <1>1, <2>2, <2>3
    <2>5. rest[i] = cfg[i] /\ i \in DOMAIN rest
      BY <1>6, <1>7, <2>4
    <2> QED
      BY <1>6, <2>1, <2>5, MatchingLinesExact
  <1>10. MatchingLines(rest, d) = MatchingLines(cfg, d) \ {line}
    BY <1>8, <1>9
  <1>11. n = line.num + 1
    BY <1>1, <1>3
  <1>12. \A j \in DOMAIN cfg : j > line.num + 1 => ~Involves(cfg[j], d)
    BY <1>1, <1>5, <1>11
  <1> QED
    BY <1>3, <1>4, <1>10, <1>11, <1>12 DEF rest

(* The same of a script that is to delete more than the device's rules:     *)
(* what it deletes first is no earlier than the last of them.              *)
LEMMA DeleteFirstKeepsLines ==
    ASSUME ScriptIsExact, NEW cfg \in Config, NEW d \in DeviceIp,
           NEW lines, \A l \in lines : l.num \in 0..9,
           MatchingLines(cfg, d) \subseteq lines,
           NEW line \in lines, IsFirst(line, lines)
    PROVE  MatchingLines(DeleteRule(cfg, line.num), d) \subseteq lines \ {line}
  <1> DEFINE n == line.num
             rest == DeleteRule(cfg, n)
  <1>1. n \in 0..9 /\ n \in Nat /\ Len(cfg) \in Nat /\ DOMAIN cfg = 1..Len(cfg)
    BY LenProperties DEF Config
  <1>2. \A j \in DOMAIN cfg : Involves(cfg[j], d) => j <= n + 1
    <2> SUFFICES ASSUME NEW j \in DOMAIN cfg, Involves(cfg[j], d)
                 PROVE  j <= n + 1
      OBVIOUS
    <2>1. PICK l \in MatchingLines(cfg, d) : l.num = j - 1
      <3>1. \/ [num |-> j - 1, option |-> "src_ip"] \in MatchingLines(cfg, d)
            \/ [num |-> j - 1, option |-> "dest_ip"] \in MatchingLines(cfg, d)
        BY MatchingLinesExact DEF Involves
      <3> QED
        BY <3>1
    <2>2. j - 1 \in 0..9 /\ ~SortsBefore(j - 1, n)
      <3>1. l \in lines
        OBVIOUS
      <3>2. l.num \in 0..9 /\ ~SortsBefore(l.num, n)
        BY <3>1 DEF IsFirst
      <3> QED
        BY <2>1, <3>2
    <2>3. ~(j - 1 > n)
      BY <1>1, <2>2, OneDigitOrder
    <2> QED
      BY <1>1, <2>3
  <1> SUFFICES ASSUME NEW l \in MatchingLines(rest, d)
               PROVE  l \in MatchingLines(cfg, d) /\ l.num # n
    OBVIOUS
  <1>3. rest \in Config
    BY <1>1, DeleteRuleType
  <1>4. CASE n < Len(cfg)
    <2>1. \A i \in 1..Len(cfg) - 1 : rest[i] = IF i <= n THEN cfg[i] ELSE cfg[i + 1]
      BY <1>1, <1>4, DeleteRuleElements
    <2>2. DOMAIN rest = 1..Len(cfg) - 1
      BY <1>1, <1>4, DeleteRuleElements DEF Config
    <2> HIDE DEF rest
    <2>3. PICK i \in DOMAIN rest :
             \/ l = [num |-> i - 1, option |-> "src_ip"] /\ rest[i].src = d
             \/ l = [num |-> i - 1, option |-> "dest_ip"] /\ rest[i].dst = d
      BY <1>3, MatchingLinesExact
    <2>4. i \in 1..Len(cfg) - 1 /\ i \in DOMAIN cfg /\ i + 1 \in DOMAIN cfg
      BY <1>1, <2>2
    <2>5. i <= n
      <3> SUFFICES ASSUME ~(i <= n)
                   PROVE  FALSE
        OBVIOUS
      <3>1. Involves(cfg[i + 1], d)
        BY <2>1, <2>3, <2>4 DEF Involves
      <3> QED
        BY <1>1, <1>2, <2>4, <3>1
    <2>6. rest[i] = cfg[i]
      BY <2>1, <2>4, <2>5
    <2>7. l \in MatchingLines(cfg, d)
      BY <2>3, <2>4, <2>6, MatchingLinesExact
    <2>8. l.num # n
      BY <1>1, <2>3, <2>4, <2>5
    <2> QED
      BY <2>7, <2>8
  <1>5. CASE ~(n < Len(cfg))
    <2>1. rest = cfg
      BY <1>5 DEF DeleteRule
    <2>2. PICK i \in DOMAIN cfg :
             \/ l = [num |-> i - 1, option |-> "src_ip"] /\ cfg[i].src = d
             \/ l = [num |-> i - 1, option |-> "dest_ip"] /\ cfg[i].dst = d
      BY <2>1, MatchingLinesExact
    <2> QED
      BY <1>1, <1>5, <2>1, <2>2
  <1> QED
    BY <1>4, <1>5

-----------------------------------------------------------------------------
(* Induction, stated for sets so that it can be cited. *)

(* A non-empty set of numbers has a least one: < is well-founded. *)
LEMMA LeastNumber ==
    ASSUME NEW T \in SUBSET Nat, T # {}
    PROVE  \E n \in T : \A m \in T : n <= m
  <1> DEFINE R == {ss \in Nat \X Nat : ss[1] < ss[2]}
  <1>1. IsWellFoundedOn(R, Nat)
    BY NatLessThanWellFounded DEF OpToRel
  <1>2. PICK n \in T : \A m \in T : <<m, n>> \notin R
    <2> HIDE DEF R
    <2> QED
      BY <1>1, WFMin
  <1>3. \A m \in T : m < n => <<m, n>> \in R
    OBVIOUS
  <1>4. \A m \in T : ~(m < n)
    BY <1>2, <1>3
  <1> QED
    BY <1>4

(* Induction, for a set of numbers: else the least number outside is no     *)
(* successor of one inside.                                                *)
LEMMA NumberInduction ==
    ASSUME NEW T \in SUBSET Nat, 0 \in T, \A n \in T : n + 1 \in T
    PROVE  T = Nat
  <1> SUFFICES ASSUME Nat \ T # {}
               PROVE  FALSE
    OBVIOUS
  <1>1. Nat \ T \in SUBSET Nat
    OBVIOUS
  <1>2. PICK n \in Nat \ T : \A m \in Nat \ T : n <= m
    BY <1>1, LeastNumber
  <1>3. n - 1 \in Nat /\ ~(n <= n - 1)
    OBVIOUS
  <1> QED
    BY <1>2, <1>3

(* Induction for a set of sequences, on their length. *)
LEMMA SequenceInduction ==
    ASSUME NEW S, NEW T \in SUBSET Seq(S), <<>> \in T,
           \A s \in T, e \in S : Append(s, e) \in T
    PROVE  T = Seq(S)
  <1> DEFINE N == {n \in Nat : \A s \in Seq(S) : Len(s) = n => s \in T}
  <1>1. 0 \in N
    BY EmptySeq
  <1>2. ASSUME NEW n \in N
        PROVE  n + 1 \in N
    <2> SUFFICES ASSUME NEW s \in Seq(S), Len(s) = n + 1
                 PROVE  s \in T
      OBVIOUS
    <2>1. s # <<>>
      BY EmptySeq
    <2>2. PICK f \in Seq(S), e \in S : s = Append(f, e)
      BY <2>1, SequenceEmptyOrAppend
    <2>3. Len(f) = n
      BY <2>2, AppendProperties, LenProperties
    <2> QED
      BY <2>2, <2>3
  <1>3. N = Nat
    <2> HIDE DEF N
    <2>1. N \in SUBSET Nat
      BY DEF N
    <2> QED
      BY <1>1, <1>2, <2>1, NumberInduction
  <1> QED
    BY <1>3, LenProperties

-----------------------------------------------------------------------------
(* FlattenSeq: concatenating the sequences of a sequence.  It is defined    *)
(* by a recursive function, so its value is known once such a function is  *)
(* shown to exist and to be the only one.                                  *)

(* The recursive function in FlattenSeq, of SequencesExt. *)
IsFlattening(f, ss) ==
    f = [i \in 1..Len(ss) |-> IF i = 1 THEN ss[i] ELSE f[i - 1] \o ss[i]]

(* There is at most one such function: two of them agree on each prefix. *)
LEMMA FlatteningUnique ==
    ASSUME NEW S, NEW ss \in Seq(Seq(S)), NEW f, NEW g,
           IsFlattening(f, ss), IsFlattening(g, ss)
    PROVE  f = g
  <1> DEFINE N == {n \in Nat : n \in 1..Len(ss) => f[n] = g[n]}
  <1>1. 0 \in N
    OBVIOUS
  <1>2. ASSUME NEW n \in N
        PROVE  n + 1 \in N
    <2>1. ASSUME NEW h, IsFlattening(h, ss), n + 1 \in 1..Len(ss)
          PROVE  h[n + 1] = IF n = 0 THEN ss[1] ELSE h[n] \o ss[n + 1]
      <3>1. \A i \in 1..Len(ss) : h[i] = IF i = 1 THEN ss[i] ELSE h[i - 1] \o ss[i]
        BY <2>1, Zenon DEF IsFlattening
      <3>2. (n + 1) - 1 = n /\ (n + 1 = 1 <=> n = 0)
        OBVIOUS
      <3> QED
        BY <2>1, <3>1, <3>2
    <2>2. n + 1 \in 1..Len(ss) => n = 0 \/ n \in 1..Len(ss)
      BY LenProperties
    <2> QED
      BY <2>1, <2>2
  <1>3. N = Nat
    <2> HIDE DEF N
    <2>1. N \in SUBSET Nat
      BY DEF N
    <2> QED
      BY <1>1, <1>2, <2>1, NumberInduction
  <1>4. \A i \in 1..Len(ss) : f[i] = g[i]
    BY <1>3
  <1>5. /\ f = [i \in 1..Len(ss) |-> f[i]]
        /\ g = [i \in 1..Len(ss) |-> g[i]]
    BY DEF IsFlattening
  <1> QED
    BY <1>4, <1>5

LEMMA FlattenSeqOne ==
    ASSUME NEW S, NEW e \in Seq(S)
    PROVE  FlattenSeq(<<e>>) = e
  <1> DEFINE f == [i \in 1..1 |-> e]
  <1>1. <<e>> \in Seq(Seq(S)) /\ Len(<<e>>) = 1 /\ <<e>>[1] = e
    OBVIOUS
  <1>2. IsFlattening(f, <<e>>)
    BY <1>1 DEF IsFlattening
  <1> HIDE DEF f
  <1>3. (CHOOSE g : IsFlattening(g, <<e>>)) = f
    BY <1>1, <1>2, FlatteningUnique
  <1>4. FlattenSeq(<<e>>) = (CHOOSE g : IsFlattening(g, <<e>>))[1]
    BY <1>1 DEF FlattenSeq, IsFlattening
  <1>5. f[1] = e
    BY DEF f
  <1> QED
    BY <1>3, <1>4, <1>5

LEMMA FlatteningAt ==
    ASSUME NEW S, NEW ss \in Seq(Seq(S)), NEW f, IsFlattening(f, ss), ss # <<>>
    PROVE  FlattenSeq(ss) = f[Len(ss)]
  <1>1. (CHOOSE g : IsFlattening(g, ss)) = f
    BY FlatteningUnique
  <1>2. Len(ss) # 0
    BY EmptySeq
  <1>3. FlattenSeq(ss) = (CHOOSE g : IsFlattening(g, ss))[Len(ss)]
    BY <1>2 DEF FlattenSeq, IsFlattening
  <1> QED
    BY <1>1, <1>3

(* One more sequence: the flattening of the others, and it at the end. *)
LEMMA FlatteningAppend ==
    ASSUME NEW S, NEW ss \in Seq(Seq(S)), ss # <<>>, NEW e \in Seq(S),
           NEW f \in [1..Len(ss) -> Seq(S)], IsFlattening(f, ss)
    PROVE  LET g == [i \in 1..Len(ss) + 1 |->
                        IF i = Len(ss) + 1 THEN f[Len(ss)] \o e ELSE f[i]]
           IN  /\ IsFlattening(g, Append(ss, e))
               /\ g \in [1..Len(Append(ss, e)) -> Seq(S)]
  <1> DEFINE n == Len(ss)
             new == Append(ss, e)
             g == [i \in 1..n + 1 |-> IF i = n + 1 THEN f[n] \o e ELSE f[i]]
  <1>1. n \in Nat /\ n > 0 /\ Len(new) = n + 1 /\ new[n + 1] = e
    BY AppendProperties, EmptySeq, LenProperties
  <1>2. \A i \in 1..n : new[i] = ss[i]
    BY AppendProperties
  <1>3. \A i \in 1..n : f[i] = IF i = 1 THEN ss[i] ELSE f[i - 1] \o ss[i]
    BY Zenon DEF IsFlattening
  <1>4. \A i \in 1..n + 1 : g[i] = IF i = 1 THEN new[i] ELSE g[i - 1] \o new[i]
    <2> SUFFICES ASSUME NEW i \in 1..n + 1
                 PROVE  g[i] = IF i = 1 THEN new[i] ELSE g[i - 1] \o new[i]
      OBVIOUS
    <2>1. CASE i = n + 1
      <3>1. i - 1 \in 1..n /\ i # 1 /\ i - 1 # n + 1 /\ i - 1 = n /\ i - 1 \in 1..n + 1
        BY <1>1, <2>1
      <3>2. g[i] = f[n] \o e /\ g[i - 1] = f[n]
        BY <2>1, <3>1
      <3> QED
        BY <1>1, <2>1, <3>1, <3>2
    <2>2. CASE i # n + 1
      <3>1. i \in 1..n /\ (i # 1 => i - 1 \in 1..n /\ i - 1 # n + 1)
        BY <1>1, <2>2
      <3>2. g[i] = f[i] /\ (i # 1 => g[i - 1] = f[i - 1])
        BY <2>2, <3>1
      <3> QED
        BY <1>2, <1>3, <3>1, <3>2
    <2> QED
      BY <2>1, <2>2
  <1>5. g = [i \in 1..n + 1 |-> g[i]]
    OBVIOUS
  <1>6. IsFlattening(g, new)
    <2> HIDE DEF g
    <2> QED
      BY <1>1, <1>4, <1>5 DEF IsFlattening
  <1>7. g \in [1..n + 1 -> Seq(S)]
    BY <1>1, ConcatProperties
  <1> QED
    BY <1>1, <1>6, <1>7

(* There is one, built one sequence at a time. *)
LEMMA FlatteningExists ==
    ASSUME NEW S, NEW ss \in Seq(Seq(S)), ss # <<>>
    PROVE  \E f \in [1..Len(ss) -> Seq(S)] : IsFlattening(f, ss)
  <1> DEFINE T == {s \in Seq(Seq(S)) :
                      s # <<>> => \E f \in [1..Len(s) -> Seq(S)] : IsFlattening(f, s)}
  <1>1. <<>> \in T
    OBVIOUS
  <1>2. ASSUME NEW s \in T, NEW e \in Seq(S)
        PROVE  Append(s, e) \in T
    <2>1. CASE s = <<>>
      <3>1. Append(s, e) \in Seq(Seq(S)) /\ Len(Append(s, e)) = 1 /\ Append(s, e)[1] = e
        BY <2>1
      <3>2. IsFlattening([i \in 1..1 |-> e], Append(s, e))
        BY <3>1 DEF IsFlattening
      <3> QED
        BY <3>1, <3>2
    <2>2. CASE s # <<>>
      <3>1. PICK f \in [1..Len(s) -> Seq(S)] : IsFlattening(f, s)
        BY <2>2
      <3>2. Append(s, e) \in Seq(Seq(S))
        BY AppendProperties
      <3> QED
        BY <2>2, <3>1, <3>2, FlatteningAppend
    <2> QED
      BY <2>1, <2>2
  <1>3. T = Seq(Seq(S))
    <2> HIDE DEF T
    <2>1. T \in SUBSET Seq(Seq(S))
      BY DEF T
    <2> QED
      BY <1>1, <1>2, <2>1, SequenceInduction
  <1> QED
    BY <1>3

LEMMA FlattenSeqEmpty == FlattenSeq(<<>>) = <<>>
  BY DEF FlattenSeq

LEMMA FlattenSeqType ==
    ASSUME NEW S, NEW ss \in Seq(Seq(S))
    PROVE  FlattenSeq(ss) \in Seq(S)
  <1>1. CASE ss = <<>>
    <2>1. FlattenSeq(ss) = <<>>
      BY <1>1, FlattenSeqEmpty
    <2> QED
      BY <2>1, EmptySeq
  <1>2. CASE ss # <<>>
    <2>1. PICK f \in [1..Len(ss) -> Seq(S)] : IsFlattening(f, ss)
      BY <1>2, FlatteningExists
    <2>2. FlattenSeq(ss) = f[Len(ss)] /\ Len(ss) \in 1..Len(ss)
      BY <1>2, <2>1, FlatteningAt, EmptySeq, LenProperties
    <2> QED
      BY <2>2
  <1> QED
    BY <1>1, <1>2

LEMMA FlattenSeqAppend ==
    ASSUME NEW S, NEW ss \in Seq(Seq(S)), NEW e \in Seq(S)
    PROVE  FlattenSeq(Append(ss, e)) = FlattenSeq(ss) \o e
  <1>1. CASE ss = <<>>
    <2>1. Append(ss, e) = <<e>>
      BY <1>1
    <2> QED
      BY <1>1, <2>1, FlattenSeqEmpty, FlattenSeqOne, ConcatEmptySeq
  <1>2. CASE ss # <<>>
    <2>1. PICK f \in [1..Len(ss) -> Seq(S)] : IsFlattening(f, ss)
      BY <1>2, FlatteningExists
    <2> DEFINE g == [i \in 1..Len(ss) + 1 |->
                        IF i = Len(ss) + 1 THEN f[Len(ss)] \o e ELSE f[i]]
    <2>2. IsFlattening(g, Append(ss, e))
      BY <1>2, <2>1, FlatteningAppend
    <2>3. Append(ss, e) \in Seq(Seq(S)) /\ Append(ss, e) # <<>>
             /\ Len(Append(ss, e)) = Len(ss) + 1 /\ Len(ss) \in Nat
      BY AppendProperties, LenProperties, EmptySeq
    <2>4. g[Len(ss) + 1] = f[Len(ss)] \o e
      BY <2>3
    <2> HIDE DEF g
    <2>5. FlattenSeq(Append(ss, e)) = g[Len(ss) + 1]
      BY <2>2, <2>3, FlatteningAt
    <2>6. FlattenSeq(ss) = f[Len(ss)]
      BY <1>2, <2>1, FlatteningAt
    <2> QED
      BY <2>4, <2>5, <2>6
  <1> QED
    BY <1>1, <1>2

LEMMA FlattenSeqConcat ==
    ASSUME NEW S, NEW ss \in Seq(Seq(S)), NEW tt \in Seq(Seq(S))
    PROVE  FlattenSeq(ss \o tt) = FlattenSeq(ss) \o FlattenSeq(tt)
  <1> DEFINE T == {t \in Seq(Seq(S)) : FlattenSeq(ss \o t) = FlattenSeq(ss) \o FlattenSeq(t)}
  <1>1. <<>> \in T
    BY FlattenSeqEmpty, FlattenSeqType, ConcatEmptySeq
  <1>2. ASSUME NEW t \in T, NEW e \in Seq(S)
        PROVE  Append(t, e) \in T
    <2>1. ss \o t \in Seq(Seq(S)) /\ Append(t, e) \in Seq(Seq(S))
      BY ConcatProperties, AppendProperties
    <2>2. ss \o Append(t, e) = Append(ss \o t, e)
      OBVIOUS
    <2>3. /\ FlattenSeq(ss) \in Seq(S)
          /\ FlattenSeq(t) \in Seq(S)
      BY FlattenSeqType
    <2>4. (FlattenSeq(ss) \o FlattenSeq(t)) \o e = FlattenSeq(ss) \o (FlattenSeq(t) \o e)
      BY <2>3, ConcatAssociative
    <2>5. /\ FlattenSeq(Append(t, e)) = FlattenSeq(t) \o e
          /\ FlattenSeq(Append(ss \o t, e)) = FlattenSeq(ss \o t) \o e
      BY <2>1, FlattenSeqAppend
    <2>6. FlattenSeq(ss \o Append(t, e)) = FlattenSeq(ss) \o FlattenSeq(Append(t, e))
      BY <2>2, <2>4, <2>5
    <2> QED
      BY <2>1, <2>6
  <1>3. T = Seq(Seq(S))
    <2> HIDE DEF T
    <2>1. T \in SUBSET Seq(Seq(S))
      BY DEF T
    <2> QED
      BY <1>1, <1>2, <2>1, SequenceInduction
  <1> QED
    BY <1>3

LEMMA FlattenSeqCons ==
    ASSUME NEW S, NEW ss \in Seq(Seq(S)), ss # <<>>
    PROVE  FlattenSeq(ss) = Head(ss) \o FlattenSeq(Tail(ss))
  <1>1. Head(ss) \in Seq(S) /\ Tail(ss) \in Seq(Seq(S)) /\ <<Head(ss)>> \in Seq(Seq(S))
    BY HeadTailProperties
  <1>2. ss = <<Head(ss)>> \o Tail(ss)
    BY HeadTailProperties
  <1>3. FlattenSeq(<<Head(ss)>> \o Tail(ss)) = FlattenSeq(<<Head(ss)>>) \o FlattenSeq(Tail(ss))
    BY <1>1, FlattenSeqConcat
  <1> QED
    BY <1>1, <1>2, <1>3, FlattenSeqOne

-----------------------------------------------------------------------------
(* The rules of one device in a configuration. *)

(* The sequences that RulesOf flattens. *)
OwnRules(cfg, d) ==
    [i \in DOMAIN cfg |-> IF Involves(cfg[i], d) THEN <<cfg[i]>> ELSE <<>>]

LEMMA OwnRulesType ==
    ASSUME NEW cfg \in Config, NEW d
    PROVE  /\ OwnRules(cfg, d) \in Seq(Config)
           /\ DOMAIN cfg = 1..Len(cfg)
           /\ Len(OwnRules(cfg, d)) = Len(cfg)
  <1>1. DOMAIN cfg = 1..Len(cfg) /\ Len(cfg) \in Nat
    BY LenProperties DEF Config
  <1>2. \A i \in 1..Len(cfg) : cfg[i] \in Rule
    BY ElementOfSeq DEF Config
  <1>3. \A i \in 1..Len(cfg) : (IF Involves(cfg[i], d) THEN <<cfg[i]>> ELSE <<>>) \in Config
    BY <1>2, EmptySeq DEF Config
  <1> QED
    BY <1>1, <1>3, IsASeq, LenProperties DEF OwnRules

LEMMA RulesOfType ==
    ASSUME NEW cfg \in Config, NEW d
    PROVE  RulesOf(cfg, d) \in Config
  BY OwnRulesType, FlattenSeqType DEF RulesOf, OwnRules, Config

(* The rules of a device in a concatenation are those in its two parts. *)
LEMMA RulesOfConcat ==
    ASSUME NEW s \in Config, NEW t \in Config, NEW d
    PROVE  RulesOf(s \o t, d) = RulesOf(s, d) \o RulesOf(t, d)
  <1>1. s \o t \in Config /\ Len(s \o t) = Len(s) + Len(t)
    BY ConcatProperties DEF Config
  <1>2. Len(s) \in Nat /\ Len(t) \in Nat
    BY LenProperties DEF Config
  <1>3. /\ OwnRules(s, d) \in Seq(Config)
        /\ OwnRules(t, d) \in Seq(Config)
        /\ OwnRules(s \o t, d) \in Seq(Config)
        /\ Len(OwnRules(s, d)) = Len(s)
        /\ Len(OwnRules(t, d)) = Len(t)
        /\ Len(OwnRules(s \o t, d)) = Len(s) + Len(t)
    BY <1>1, OwnRulesType
  <1>4. /\ OwnRules(s, d) \o OwnRules(t, d) \in Seq(Config)
        /\ Len(OwnRules(s, d) \o OwnRules(t, d)) = Len(s) + Len(t)
    <2>1. PICK a \in Seq(Config) : a = OwnRules(s, d)
      BY <1>3
    <2>2. PICK b \in Seq(Config) : b = OwnRules(t, d)
      BY <1>3
    <2>3. a \o b \in Seq(Config) /\ Len(a \o b) = Len(a) + Len(b)
      BY ConcatProperties
    <2> QED
      BY <1>3, <2>1, <2>2, <2>3
  <1>5. \A i \in 1..Len(s) + Len(t) :
           OwnRules(s \o t, d)[i] = (OwnRules(s, d) \o OwnRules(t, d))[i]
    <2> SUFFICES ASSUME NEW i \in 1..Len(s) + Len(t)
                 PROVE  OwnRules(s \o t, d)[i] = (OwnRules(s, d) \o OwnRules(t, d))[i]
      OBVIOUS
    <2>1. (s \o t)[i] = IF i <= Len(s) THEN s[i] ELSE t[i - Len(s)]
      BY ConcatProperties DEF Config
    <2>2. (OwnRules(s, d) \o OwnRules(t, d))[i]
             = IF i <= Len(s) THEN OwnRules(s, d)[i] ELSE OwnRules(t, d)[i - Len(s)]
      BY <1>3, ConcatProperties
    <2>3. DOMAIN s = 1..Len(s) /\ DOMAIN t = 1..Len(t) /\ DOMAIN (s \o t) = 1..Len(s) + Len(t)
      BY <1>1, OwnRulesType
    <2>4. CASE i <= Len(s)
      <3>1. i \in DOMAIN s
        BY <1>2, <2>3, <2>4
      <3> QED
        BY <2>1, <2>2, <2>3, <2>4, <3>1 DEF OwnRules
    <2>5. CASE ~(i <= Len(s))
      <3>1. i - Len(s) \in DOMAIN t
        BY <1>2, <2>3, <2>5
      <3> QED
        BY <2>1, <2>2, <2>3, <2>5, <3>1 DEF OwnRules
    <2> QED
      BY <2>4, <2>5
  <1>6. OwnRules(s \o t, d) = OwnRules(s, d) \o OwnRules(t, d)
    BY <1>3, <1>4, <1>5, SeqEqual
  <1>7. /\ RulesOf(s, d) = FlattenSeq(OwnRules(s, d))
        /\ RulesOf(t, d) = FlattenSeq(OwnRules(t, d))
        /\ RulesOf(s \o t, d) = FlattenSeq(OwnRules(s \o t, d))
    BY DEF RulesOf, OwnRules
  <1>8. FlattenSeq(OwnRules(s, d) \o OwnRules(t, d))
           = FlattenSeq(OwnRules(s, d)) \o FlattenSeq(OwnRules(t, d))
    BY <1>3, FlattenSeqConcat DEF Config
  <1> QED
    BY <1>6, <1>7, <1>8

LEMMA RulesOfOne ==
    ASSUME NEW r \in Rule, NEW d
    PROVE  RulesOf(<<r>>, d) = IF Involves(r, d) THEN <<r>> ELSE <<>>
  <1>1. OwnRules(<<r>>, d) = <<IF Involves(r, d) THEN <<r>> ELSE <<>>>>
    BY DEF OwnRules
  <1>2. (IF Involves(r, d) THEN <<r>> ELSE <<>>) \in Config
    BY EmptySeq DEF Config
  <1> QED
    BY <1>1, <1>2, FlattenSeqOne DEF RulesOf, OwnRules, Config

LEMMA RulesOfAppend ==
    ASSUME NEW cfg \in Config, NEW r \in Rule, NEW d
    PROVE  RulesOf(Append(cfg, r), d)
             = IF Involves(r, d) THEN Append(RulesOf(cfg, d), r) ELSE RulesOf(cfg, d)
  <1>1. <<r>> \in Config /\ Append(cfg, r) = cfg \o <<r>>
    BY AppendIsConcat DEF Config
  <1>2. RulesOf(cfg \o <<r>>, d) = RulesOf(cfg, d) \o RulesOf(<<r>>, d)
    BY <1>1, RulesOfConcat
  <1>3. /\ RulesOf(cfg, d) \in Seq(Rule)
        /\ RulesOf(cfg, d) \o <<r>> = Append(RulesOf(cfg, d), r)
        /\ RulesOf(cfg, d) \o <<>> = RulesOf(cfg, d)
    BY RulesOfType, AppendIsConcat, ConcatEmptySeq DEF Config
  <1> QED
    BY <1>1, <1>2, <1>3, RulesOfOne

(* A device that no rule involves has none. *)
LEMMA RulesOfNone ==
    ASSUME NEW cfg \in Config, NEW d, \A i \in DOMAIN cfg : ~Involves(cfg[i], d)
    PROVE  RulesOf(cfg, d) = <<>>
  <1> DEFINE T == {s \in Seq(Rule) :
                      (\A i \in DOMAIN s : ~Involves(s[i], d)) => RulesOf(s, d) = <<>>}
  <1>1. <<>> \in T
    <2>1. RulesOf(<<>>, d) = <<>>
      BY FlattenSeqEmpty DEF RulesOf
    <2> QED
      BY <2>1, EmptySeq
  <1>2. ASSUME NEW s \in T, NEW r \in Rule
        PROVE  Append(s, r) \in T
    <2> SUFFICES ASSUME \A i \in DOMAIN Append(s, r) : ~Involves(Append(s, r)[i], d)
                 PROVE  RulesOf(Append(s, r), d) = <<>>
      BY AppendProperties
    <2>1. /\ DOMAIN s = 1..Len(s) /\ Len(s) \in Nat
          /\ DOMAIN Append(s, r) = 1..Len(s) + 1
          /\ Append(s, r)[Len(s) + 1] = r
          /\ \A i \in 1..Len(s) : Append(s, r)[i] = s[i]
      BY AppendProperties, LenProperties
    <2>2. ~Involves(r, d) /\ \A i \in DOMAIN s : ~Involves(s[i], d)
      BY <2>1
    <2>3. RulesOf(Append(s, r), d) = RulesOf(s, d)
      BY <2>2, RulesOfAppend DEF Config
    <2> QED
      BY <2>2, <2>3
  <1>3. T = Seq(Rule)
    <2> HIDE DEF T
    <2>1. T \in SUBSET Seq(Rule)
      BY DEF T
    <2> QED
      BY <1>1, <1>2, <2>1, SequenceInduction
  <1> QED
    BY <1>3 DEF Config

(* A sequence is what is before an element, the element, and what is after it. *)
LEMMA CutAround ==
    ASSUME NEW S, NEW s \in Seq(S), NEW n \in Nat, n < Len(s)
    PROVE  /\ SubSeq(s, 1, n) \in Seq(S)
           /\ SubSeq(s, n + 2, Len(s)) \in Seq(S)
           /\ s[n + 1] \in S
           /\ s = SubSeq(s, 1, n) \o (<<s[n + 1]>> \o SubSeq(s, n + 2, Len(s)))
  <1>1. Len(s) \in Nat
    BY LenProperties
  <1>2. SubSeq(s, 1, n) \in Seq(S) /\ SubSeq(s, n + 2, Len(s)) \in Seq(S)
    BY <1>1, ElementOfSeq, SubSeqProperties
  <1>3. SubSeq(s, n + 1, Len(s)) = <<s[n + 1]>> \o SubSeq(s, (n + 1) + 1, Len(s))
    BY <1>1, SubSeqRecursiveFirst
  <1>4. SubSeq(s, 1, n) \o SubSeq(s, n + 1, Len(s)) = SubSeq(s, 1, Len(s))
    <2>1. 1 \in 1..Len(s) + 1 /\ n \in 1 - 1..Len(s) /\ Len(s) \in n..Len(s)
      BY <1>1
    <2> QED
      BY <2>1, ConcatAdjacentSubSeq
  <1>5. SubSeq(s, 1, Len(s)) = s /\ (n + 1) + 1 = n + 2
    BY <1>1, SubSeqFull
  <1>6. s[n + 1] \in S
    BY <1>1, ElementOfSeq
  <1>7. s = SubSeq(s, 1, n) \o (<<s[n + 1]>> \o SubSeq(s, n + 2, Len(s)))
    BY <1>3, <1>4, <1>5, Zenon
  <1> QED
    BY <1>2, <1>6, <1>7

LEMMA RulesOfWithout ==
    ASSUME NEW s \in Config, NEW r \in Rule, NEW t \in Config, NEW d, ~Involves(r, d)
    PROVE  RulesOf(s \o (<<r>> \o t), d) = RulesOf(s \o t, d)
  <1>1. PICK u : u = <<r>>
    OBVIOUS
  <1>2. u \in Config
    BY <1>1 DEF Config
  <1>3. u \o t \in Config
    BY <1>2, ConcatProperties DEF Config
  <1>4. RulesOf(s \o (u \o t), d) = RulesOf(s, d) \o RulesOf(u \o t, d)
    BY <1>3, RulesOfConcat
  <1>5. RulesOf(u \o t, d) = RulesOf(u, d) \o RulesOf(t, d)
    BY <1>2, RulesOfConcat
  <1>6. RulesOf(u, d) = <<>>
    BY <1>1, RulesOfOne
  <1>7. RulesOf(s \o t, d) = RulesOf(s, d) \o RulesOf(t, d)
    BY RulesOfConcat
  <1>8. <<>> \o RulesOf(t, d) = RulesOf(t, d)
    BY RulesOfType, ConcatEmptySeq DEF Config
  <1> QED
    BY <1>1, <1>4, <1>5, <1>6, <1>7, <1>8

(* Deleting a rule that does not involve a device leaves its rules as they are. *)
LEMMA DeleteOthersRule ==
    ASSUME NEW cfg \in Config, NEW n \in Nat, n < Len(cfg), NEW d,
           ~Involves(cfg[n + 1], d)
    PROVE  RulesOf(DeleteRule(cfg, n), d) = RulesOf(cfg, d)
  <1> DEFINE before == SubSeq(cfg, 1, n)
             after == SubSeq(cfg, n + 2, Len(cfg))
  <1>1. before \in Config /\ after \in Config /\ cfg[n + 1] \in Rule
    BY CutAround DEF Config
  <1>2. cfg = before \o (<<cfg[n + 1]>> \o after)
    BY CutAround DEF Config
  <1>3. DeleteRule(cfg, n) = before \o after
    <2>1. (n + 1) - 1 = n /\ (n + 1) + 1 = n + 2
      OBVIOUS
    <2> QED
      BY <2>1 DEF DeleteRule, RemoveAt
  <1> HIDE DEF before, after
  <1>4. RulesOf(before \o (<<cfg[n + 1]>> \o after), d) = RulesOf(before \o after, d)
    BY <1>1, RulesOfWithout
  <1> QED
    BY <1>2, <1>3, <1>4
===============================================================================
