----------------------------- MODULE Imc_proofs -----------------------------
(***************************************************************************)
(* Proofs about the two ends of IMC that keep books, mail and connections. *)
(*                                                                         *)
(* About ImcMail, for any finite sets of mails and muds and any network:   *)
(* usage counts match the queue, no mail that has been saved in the queue  *)
(* is lost without anybody being told, and mail is delivered twice only by *)
(* a mud that had to forget its ID.  Each of the three has an inductive    *)
(* invariant of its own; they share only the types.                        *)
(*                                                                         *)
(* About ImcLink, for any muds, any finite number of sockets, any flags    *)
(* and any bounds: connections, entries and pending events agree, and no   *)
(* entry that is to be reconnected is forgotten.                           *)
(***************************************************************************)
EXTENDS ImcMail, ImcLink, FiniteSetTheorems, TLAPS


(* What a packet of the network says of its entry: mail that is            *)
(* acknowledged has been delivered.                                        *)
AcksTrue == \A q \in QueueEntries : BagIn(<<"mail-ok", q>>, net) => got[q] > 0

-----------------------------------------------------------------------------
LEMMA WithAdds ==
  ASSUME NEW n, NEW p, NEW e, BagIn(e, With(n, p))
  PROVE  e = p \/ BagIn(e, n)
  BY DEF With, BagIn, BagToSet, SetToBag, (+)

LEMMA LessRemoves ==
  ASSUME NEW n, NEW p, NEW e, BagIn(e, Less(n, p))
  PROVE  BagIn(e, n)
  BY DEF Less, BagIn, BagToSet, SetToBag, (-)

-----------------------------------------------------------------------------
(* Usage counts.  A mail is written once, so that no entry refers to a     *)
(* mail that is still to be written; and no mail is twice in a list, so    *)
(* that what delete_ml leaves does not hold what it has freed.  A mail is  *)
(* found, and freed, with its last entry as long as it is on the list.     *)
ListsTyped ==
  /\ ml \in Seq(Mail) /\ IsInjective(ml)
  /\ f_ml \in Seq(Mail) /\ IsInjective(f_ml)
  /\ held \subseteq Mail /\ astray \subseteq Mail /\ usage \in [Mail -> Int]
  /\ mq \subseteq QueueEntries /\ f_mq \subseteq QueueEntries

OnceWritten == held \subseteq written /\ ToSet(f_ml) \subseteq written

(* What is held is on the list, or nothing will free it.                   *)
ListedOrAstray == held \ ToSet(ml) \subseteq astray

UsageInv == ListsTyped /\ OnceWritten /\ ListedOrAstray /\ UsageCounts

Of(m, queue) == {q \in queue : q[1] = m}

LEMMA FewEntries ==
  ASSUME NEW queue \in SUBSET QueueEntries, NEW m
  PROVE  IsFiniteSet(Of(m, queue)) /\ Cardinality(Of(m, queue)) \in Nat
<1>1. IsFiniteSet(QueueEntries)
  BY MailAssumption, FS_Product DEF QueueEntries
<1>2. Of(m, queue) \subseteq QueueEntries
  BY DEF Of
<1>3. QED
  BY <1>1, <1>2, FS_Subset, FS_CardinalityType

(* delete_ml frees m only with all that lists it.                          *)
LEMMA DeleteMlFrees ==
  ASSUME ListsTyped, ToSet(ml) \subseteq held, NEW m \in Mail, DeleteMl(m)
  PROVE  /\ ml' \in Seq(Mail) /\ IsInjective(ml') /\ ToSet(ml') \subseteq held'
         /\ held' \subseteq held /\ held \ {m} \subseteq held'
         /\ astray \subseteq astray' /\ astray' \subseteq Mail
         /\ ToSet(ml) \subseteq ToSet(ml') \cup astray' \cup {m}
         /\ m \in ToSet(ml) => m \notin held'
<1>1. CASE ~\E i \in DOMAIN ml : ml[i] = m
  BY <1>1 DEF DeleteMl, ListsTyped, ToSet
<1>2. CASE \E i \in DOMAIN ml : ml[i] = m
  <2> DEFINE k == CHOOSE i \in DOMAIN ml : ml[i] = m
  <2>1. k \in 1..Len(ml) /\ ml[k] = m
    BY <1>2 DEF ListsTyped
  <2>2. /\ ml' = SubSeq(ml, k + 1, Len(ml)) /\ held' = held \ {m}
        /\ astray' = astray \cup (ToSet(ml) \ (ToSet(ml') \cup {m}))
    BY <1>2 DEF DeleteMl
  <2>a. ToSet(ml) \subseteq Mail /\ m \in ToSet(ml)
    BY <2>1 DEF ListsTyped, ToSet
  <2> HIDE DEF k
  <2>3. /\ ml' \in Seq(Mail) /\ Len(ml') = Len(ml) - k
        /\ \A i \in 1..Len(ml') : ml'[i] = ml[k + i] /\ k + i \in 1..Len(ml) /\ k + i # k
    <3>1. ml \in Seq(Mail) /\ Len(ml) \in Nat /\ k \in Nat /\ 1 <= k /\ k <= Len(ml)
      BY <2>1 DEF ListsTyped
    <3> DEFINE s == SubSeq(ml, k + 1, Len(ml))
    <3>2. s \in Seq(Mail) /\ Len(s) = Len(ml) - k
          /\ \A i \in 1..(Len(ml) - k) : s[i] = ml[k + i]
      BY <3>1
    <3>3. \A i \in 1..(Len(ml) - k) : k + i \in 1..Len(ml) /\ k + i # k
      BY <3>1
    <3> HIDE DEF s
    <3>4. ml' = s
      BY <2>2 DEF s
    <3>5. QED
      BY <3>2, <3>3, <3>4
  <2>4. \A i, j \in 1..Len(ml) : ml[i] = ml[j] => i = j
    BY DEF ListsTyped, IsInjective
  <2>5. DOMAIN ml' = 1..Len(ml') /\ DOMAIN ml = 1..Len(ml)
    BY <2>3 DEF ListsTyped
  <2>6. IsInjective(ml')
    <3>1. ASSUME NEW i \in 1..Len(ml'), NEW j \in 1..Len(ml'), ml'[i] = ml'[j]
          PROVE  i = j
      <4>1. ml[k + i] = ml[k + j] /\ k + i \in 1..Len(ml) /\ k + j \in 1..Len(ml)
        BY <2>3, <3>1
      <4>2. k + i = k + j
        BY <4>1, <2>4
      <4>3. QED
        BY <4>2, <2>1
    <3>2. QED
      BY <2>5, <3>1 DEF IsInjective
  <2>7. \A i \in 1..Len(ml') : ml'[i] \in ToSet(ml) /\ ml'[i] # m
    <3> TAKE i \in 1..Len(ml')
    <3>1. ml'[i] = ml[k + i] /\ k + i \in 1..Len(ml) /\ k + i # k
      BY <2>3
    <3>2. ml[k + i] # ml[k]
      BY <2>1, <2>4, <3>1
    <3>3. QED
      BY <2>1, <2>5, <3>1, <3>2 DEF ToSet
  <2>8. ToSet(ml') \subseteq held'
    BY <2>2, <2>5, <2>7 DEF ToSet
  <2>9. astray \subseteq astray' /\ astray' \subseteq Mail
        /\ ToSet(ml) \subseteq ToSet(ml') \cup astray' \cup {m}
    BY <2>a, <2>2 DEF ListsTyped
  <2>10. QED
    BY <2>2, <2>3, <2>6, <2>8, <2>9
<1>3. QED
  BY <1>1, <1>2

LEMMA DeleteMqCounts ==
  ASSUME UsageInv, NEW q \in mq, DeleteMq(q), UNCHANGED <<f_ml, f_mq, written>>
  PROVE  UsageInv'
<1> USE DEF UsageInv
<1>1. q \in QueueEntries /\ q[1] \in Mail /\ q[1] \in held
  BY DEF ListsTyped, UsageCounts, QueueEntries
<1>2. \A m \in Mail : /\ IsFiniteSet(Of(m, mq)) /\ Cardinality(Of(m, mq)) \in Nat
  BY FewEntries DEF ListsTyped
<1>3. /\ mq' = mq \ {q} /\ usage' = [usage EXCEPT ![q[1]] = @ - 1]
      /\ usage[q[1]] = 1 => DeleteMl(q[1])
      /\ usage[q[1]] # 1 => UNCHANGED <<ml, held, astray>>
  BY DEF DeleteMq
<1>4. usage[q[1]] = Cardinality(Of(q[1], mq))
  BY <1>1 DEF UsageCounts, Of
<1>5. Of(q[1], mq') = Of(q[1], mq) \ {q} /\ q \in Of(q[1], mq)
  BY <1>3 DEF Of
<1>6. Cardinality(Of(q[1], mq')) = usage[q[1]] - 1
  BY <1>1, <1>2, <1>4, <1>5, FS_RemoveElement
<1>7. \A m \in Mail \ {q[1]} : Of(m, mq') = Of(m, mq)
  BY <1>3 DEF Of
<1>8. /\ ml' \in Seq(Mail) /\ IsInjective(ml') /\ ToSet(ml') \subseteq held'
      /\ held' \subseteq held
      /\ usage[q[1]] = 1 => held \ {q[1]} \subseteq held'
      /\ usage[q[1]] # 1 => UNCHANGED <<ml, held, astray>>
      /\ astray \subseteq astray' /\ astray' \subseteq Mail
      /\ ToSet(ml) \subseteq ToSet(ml') \cup astray' \cup {q[1]}
      /\ usage[q[1]] = 1 => (q[1] \in ToSet(ml) => q[1] \notin held')
  BY <1>1, <1>3, DeleteMlFrees DEF UsageCounts, ListsTyped
<1>9. ListsTyped'
  BY <1>1, <1>3, <1>8 DEF ListsTyped
<1>10. OnceWritten'
  BY <1>8 DEF OnceWritten
<1>11. \A m \in held' : usage'[m] = Cardinality(Of(m, mq'))
  <2> TAKE m \in held'
  <2>1. m \in held /\ m \in Mail
    BY <1>8 DEF ListsTyped
  <2>2. CASE m = q[1]
    BY <1>3, <1>6, <2>1, <2>2 DEF ListsTyped
  <2>3. CASE m # q[1]
    BY <1>3, <1>7, <2>1, <2>3 DEF ListsTyped, UsageCounts, Of
  <2>4. QED
    BY <2>2, <2>3
<1>12. \A e \in mq' : e[1] \in held'
  <2> TAKE e \in mq'
  <2>1. e \in mq /\ e # q /\ e[1] \in held
    BY <1>3 DEF UsageCounts
  <2>2. CASE usage[q[1]] # 1
    BY <1>8, <2>1, <2>2
  <2>3. CASE usage[q[1]] = 1
    <3>1. IsFiniteSet(Of(q[1], mq')) /\ Cardinality(Of(q[1], mq')) = 0
      BY <1>1, <1>6, <1>9, <2>3, FewEntries DEF ListsTyped
    <3>2. Of(q[1], mq') = {}
      BY <3>1, FS_EmptySet
    <3>3. e[1] # q[1]
      BY <3>2 DEF Of
    <3>4. QED
      BY <1>8, <2>1, <2>3, <3>3
  <2>4. QED
    BY <2>2, <2>3
<1>13. ListedOrAstray'
  <2>1. CASE usage[q[1]] = 1
    <3>1. ASSUME NEW m \in held', m \notin ToSet(ml') PROVE m \in astray'
      <4>1. m \in ToSet(ml) => m \in astray'
        BY <1>8, <2>1, <3>1
      <4>2. m \notin ToSet(ml) => m \in astray
        BY <1>8, <3>1 DEF ListedOrAstray
      <4>3. QED
        BY <1>8, <4>1, <4>2
    <3>2. QED
      BY <3>1 DEF ListedOrAstray
  <2>2. CASE usage[q[1]] # 1
    BY <1>8, <2>2 DEF ListedOrAstray
  <2>3. QED
    BY <2>1, <2>2
<1>14. ASSUME NEW m \in held' \ astray' PROVE usage'[m] > 0
  <2>1. m \in held \ astray /\ usage[m] > 0 /\ m \in Mail
    BY <1>8 DEF UsageCounts, ListsTyped
  <2>2. CASE m # q[1]
    BY <1>3, <2>1, <2>2 DEF ListsTyped
  <2>3. CASE m = q[1]
    <3>1. usage[q[1]] # 1
      BY <1>8, <2>1, <2>3 DEF ListedOrAstray
    <3>2. QED
      BY <1>3, <2>1, <2>3, <3>1 DEF ListsTyped
  <2>4. QED
    BY <2>2, <2>3
<1>15. QED
  BY <1>8, <1>9, <1>10, <1>11, <1>12, <1>13, <1>14 DEF UsageCounts, Of

LEMMA SendMailCounts ==
  ASSUME UsageInv, NEW m \in Mail, NEW muds \in SUBSET Addressees, SendMail(m, muds)
  PROVE  UsageInv'
<1> USE DEF UsageInv
<1>1. /\ m \notin written /\ written' = written \cup {m} /\ held' = held \cup {m}
      /\ usage' = [usage EXCEPT ![m] = Cardinality(muds)]
      /\ ml' = <<m>> \o ml /\ mq' = mq \cup ({m} \X muds)
      /\ UNCHANGED <<f_ml, f_mq, astray>> /\ muds # {}
  BY DEF SendMail, disk
<1>2. m \notin held /\ m \notin ToSet(ml)
  BY <1>1 DEF OnceWritten, UsageCounts
<1>3. IsFiniteSet({m} \X muds) /\ Cardinality({m} \X muds) = Cardinality(muds)
      /\ Cardinality(muds) \in Nat /\ Cardinality(muds) > 0
  <2>1. IsFiniteSet(muds) /\ Cardinality(muds) \in Nat /\ Cardinality(muds) # 0
    BY <1>1, MailAssumption, FS_Subset, FS_CardinalityType, FS_EmptySet
  <2>2. IsFiniteSet({m}) /\ Cardinality({m}) = 1
    BY FS_Singleton
  <2>3. IsFiniteSet({m} \X muds) /\ Cardinality({m} \X muds) = 1 * Cardinality(muds)
    BY <2>1, <2>2, FS_Product
  <2>4. QED
    BY <2>1, <2>3
<1>4. /\ ml' \in Seq(Mail) /\ Len(ml') = Len(ml) + 1 /\ ml'[1] = m
      /\ \A i \in 2..Len(ml') : ml'[i] = ml[i - 1] /\ i - 1 \in 1..Len(ml)
  BY <1>1 DEF ListsTyped
<1>5. DOMAIN ml = 1..Len(ml) /\ DOMAIN ml' = 1..Len(ml')
  BY <1>4 DEF ListsTyped
<1>6. \A i \in 2..Len(ml') : ml'[i] \in ToSet(ml)
  BY <1>4, <1>5 DEF ToSet
<1>7. IsInjective(ml')
  <2>1. \A i, j \in 1..Len(ml) : ml[i] = ml[j] => i = j
    BY DEF ListsTyped, IsInjective
  <2>2. ASSUME NEW i \in 1..Len(ml'), NEW j \in 1..Len(ml'), ml'[i] = ml'[j]
        PROVE  i = j
    <3>1. CASE i = 1 \/ j = 1
      BY <1>2, <1>4, <1>6, <2>2, <3>1
    <3>2. CASE i # 1 /\ j # 1
      <4>1. ml[i - 1] = ml[j - 1] /\ i - 1 \in 1..Len(ml) /\ j - 1 \in 1..Len(ml)
        BY <1>4, <2>2, <3>2
      <4>2. i - 1 = j - 1
        BY <2>1, <4>1
      <4>3. QED
        BY <4>2
    <3>3. QED
      BY <3>1, <3>2
  <2>3. QED
    BY <1>5, <2>2 DEF IsInjective
<1>8. ToSet(ml') \subseteq held'
  <2>1. \A i \in 1..Len(ml') : ml'[i] = m \/ ml'[i] \in ToSet(ml)
    BY <1>4, <1>6
  <2>2. QED
    BY <1>1, <1>5, <2>1 DEF ToSet, UsageCounts
<1>9. ListsTyped'
  BY <1>1, <1>3, <1>4, <1>7 DEF ListsTyped, QueueEntries
<1>10. OnceWritten'
  BY <1>1 DEF OnceWritten
<1>11. Of(m, mq') = {m} \X muds
  <2>1. Of(m, mq) = {}
    BY <1>2 DEF Of, UsageCounts
  <2>2. Of(m, {m} \X muds) = {m} \X muds
    BY DEF Of
  <2>3. QED
    BY <1>1, <2>1, <2>2 DEF Of
<1>12. \A d \in held : Of(d, mq') = Of(d, mq)
  <2>1. \A d \in held : Of(d, {m} \X muds) = {}
    BY <1>2 DEF Of
  <2>2. QED
    BY <1>1, <2>1 DEF Of
<1>13. \A d \in held' : usage'[d] = Cardinality(Of(d, mq'))
  <2> TAKE d \in held'
  <2>1. CASE d = m
    BY <1>1, <1>3, <1>11, <2>1 DEF ListsTyped
  <2>2. CASE d # m
    BY <1>1, <1>12, <2>2 DEF ListsTyped, UsageCounts, Of
  <2>3. QED
    BY <2>1, <2>2
<1>14. \A e \in mq' : e[1] \in held'
  BY <1>1 DEF UsageCounts
<1>15. ToSet(ml) \cup {m} \subseteq ToSet(ml')
  <2>1. \A i \in 1..Len(ml) : ml'[i + 1] = ml[i] /\ i + 1 \in 1..Len(ml')
    <3> TAKE i \in 1..Len(ml)
    <3>1. i + 1 \in 2..Len(ml') /\ (i + 1) - 1 = i
      BY <1>4
    <3>2. QED
      BY <1>4, <3>1
  <2>2. Len(ml) \in Nat /\ 1 \in 1..Len(ml')
    BY <1>4 DEF ListsTyped
  <2>3. \A i \in DOMAIN ml : ml[i] \in ToSet(ml')
    BY <1>5, <2>1 DEF ToSet
  <2>4. QED
    BY <1>4, <1>5, <2>2, <2>3 DEF ToSet
<1>16. ListedOrAstray'
  BY <1>1, <1>15 DEF ListedOrAstray
<1>17. \A d \in held' \ astray' : usage'[d] > 0
  BY <1>1, <1>3 DEF ListsTyped, UsageCounts
<1>18. QED
  BY <1>8, <1>9, <1>10, <1>13, <1>14, <1>16, <1>17 DEF UsageCounts, Of

LEMMA HaltCounts ==
  ASSUME UsageInv, Halt
  PROVE  UsageInv'
<1>1. /\ ml' = <<>> /\ held' = {} /\ usage' = [m \in Mail |-> 0] /\ mq' = {}
      /\ UNCHANGED <<f_ml, f_mq, written, astray>>
  BY DEF Halt, disk, record
<1>2. ml' \in Seq(Mail) /\ IsInjective(ml') /\ ToSet(ml') = {}
  BY <1>1 DEF IsInjective, ToSet
<1>3. QED
  BY <1>1, <1>2 DEF UsageInv, ListsTyped, OnceWritten, ListedOrAstray, UsageCounts

(* The list is read in reverse; entries whose mail is not in it are left.  *)
LEMMA StartupCounts ==
  ASSUME UsageInv, Startup
  PROVE  UsageInv'
<1> USE DEF UsageInv
<1>1. /\ ml' = Reverse(f_ml) /\ held' = ToSet(f_ml)
      /\ mq' = {q \in f_mq : q[1] \in ToSet(f_ml)}
      /\ usage' = [m \in Mail |-> Cardinality(Of(m, mq'))]
      /\ astray' = {m \in held' : \A q \in mq' : q[1] # m}
      /\ UNCHANGED <<f_ml, f_mq, written>>
  BY DEF Startup, CountUsage, Of, disk
<1>2. f_ml \in Seq(Mail) /\ DOMAIN f_ml = 1..Len(f_ml) /\ Len(f_ml) \in Nat
  BY DEF ListsTyped
<1>3. /\ ml' = [i \in 1..Len(f_ml) |-> f_ml[(Len(f_ml) - i) + 1]]
      /\ \A i \in 1..Len(f_ml) : (Len(f_ml) - i) + 1 \in 1..Len(f_ml)
  BY <1>1, <1>2 DEF Reverse
<1>4. ml' \in Seq(Mail) /\ DOMAIN ml' = 1..Len(f_ml)
  BY <1>2, <1>3
<1>5. IsInjective(ml')
  <2>1. \A i, j \in 1..Len(f_ml) : f_ml[i] = f_ml[j] => i = j
    BY <1>2 DEF ListsTyped, IsInjective
  <2>2. ASSUME NEW i \in 1..Len(f_ml), NEW j \in 1..Len(f_ml), ml'[i] = ml'[j]
        PROVE  i = j
    <3>1. (Len(f_ml) - i) + 1 = (Len(f_ml) - j) + 1
      BY <1>3, <2>1, <2>2
    <3>2. QED
      BY <1>2, <3>1
  <2>3. QED
    BY <1>4, <2>2 DEF IsInjective
<1>6. ToSet(ml') \subseteq held' /\ held' \subseteq Mail
  BY <1>1, <1>2, <1>3, <1>4 DEF ToSet
<1>7. mq' \subseteq QueueEntries /\ \A q \in mq' : q[1] \in held'
  BY <1>1 DEF ListsTyped
<1>8. \A m \in Mail : Cardinality(Of(m, mq')) \in Int
  BY <1>7, FewEntries
<1>9. ListsTyped'
  BY <1>1, <1>4, <1>5, <1>6, <1>7, <1>8 DEF ListsTyped
<1>10. OnceWritten'
  BY <1>1 DEF OnceWritten
<1>11. \A m \in held' : usage'[m] = Cardinality(Of(m, mq'))
  BY <1>1, <1>6
<1>12. ListedOrAstray'
  <2>1. ASSUME NEW i \in 1..Len(f_ml) PROVE f_ml[i] \in ToSet(ml')
    <3>1. (Len(f_ml) - i) + 1 \in 1..Len(f_ml) /\ ml'[(Len(f_ml) - i) + 1] = f_ml[i]
      BY <1>2, <1>3
    <3>2. QED
      BY <1>4, <3>1 DEF ToSet
  <2>2. QED
    BY <1>1, <1>2, <2>1 DEF ListedOrAstray, ToSet
<1>13. ASSUME NEW m \in held' \ astray' PROVE usage'[m] > 0
  <2>1. m \in Mail /\ Of(m, mq') # {}
    BY <1>1, <1>6 DEF Of
  <2>2. IsFiniteSet(Of(m, mq')) /\ Cardinality(Of(m, mq')) \in Nat
    BY <1>7, FewEntries
  <2>3. QED
    BY <1>1, <2>1, <2>2, FS_EmptySet
<1>14. QED
  BY <1>6, <1>7, <1>9, <1>10, <1>11, <1>12, <1>13 DEF UsageCounts, Of

LEMMA UsageSame ==
  ASSUME UsageInv, UNCHANGED <<ml, held, usage, mq, f_ml, f_mq, written, astray>>
  PROVE  UsageInv'
  BY DEF UsageInv, ListsTyped, OnceWritten, ListedOrAstray, UsageCounts

LEMMA UsageNext ==
  ASSUME UsageInv, [MailNext]_mailVars
  PROVE  UsageInv'
<1>1. ASSUME NEW m \in Mail, NEW muds \in SUBSET Addressees, SendMail(m, muds)
      PROVE  UsageInv'
  BY <1>1, SendMailCounts
<1>2. ASSUME NEW q \in QueueEntries,
             Resend(q) \/ Sent(q) \/ NotSent(q)
      PROVE  UsageInv'
  BY <1>2, UsageSame DEF Resend, Sent, NotSent, disk, record
<1>3. ASSUME NEW q \in QueueEntries, RecvMailOk(q) \/ RecvMailRej(q)
      PROVE  UsageInv'
  <2>1. UNCHANGED <<f_ml, f_mq, written>>
    BY <1>3 DEF RecvMailOk, RecvMailRej, disk, record
  <2>2. CASE q \in mq /\ DeleteMq(q)
    BY <2>1, <2>2, DeleteMqCounts
  <2>3. CASE UNCHANGED <<ml, held, usage, mq, astray>>
    BY <2>1, <2>3, UsageSame
  <2>4. QED
    BY <1>3, <2>2, <2>3 DEF RecvMailOk, RecvMailRej
<1>4. ASSUME NEW m \in Mail, NEW b \in Addressees,
             RecvSeen(m, b) \/ RecvNew(m, b) \/ Refuse(m, b) \/ RecvAndDie(m, b)
      PROVE  UsageInv'
  BY <1>4, UsageSame DEF RecvSeen, RecvNew, Refuse, RecvAndDie, sender, disk, record
<1>5. CASE SaveMl
  BY <1>5 DEF SaveMl, UsageInv, ListsTyped, OnceWritten, ListedOrAstray, UsageCounts, record
<1>6. CASE SaveMq
  BY <1>6 DEF SaveMq, UsageInv, ListsTyped, OnceWritten, ListedOrAstray, UsageCounts
<1>7. CASE Shutdown
  BY <1>7, UsageSame DEF Shutdown, disk, record
<1>8. CASE Stopped \/ Crash
  BY <1>8, HaltCounts DEF Stopped, Crash
<1>9. CASE Startup
  BY <1>9, StartupCounts
<1>10. ASSUME NEW b \in Addressees, Expire(b) \/ Restart(b)
       PROVE  UsageInv'
  BY <1>10, UsageSame DEF Expire, Restart, sender, disk, record
<1>11. CASE UNCHANGED mailVars
  BY <1>11, UsageSame DEF mailVars, sender, disk, record
<1>12. QED
  BY <1>1, <1>2, <1>3, <1>4, <1>5, <1>6, <1>7, <1>8, <1>9, <1>10, <1>11 DEF MailNext

LEMMA UsageInit == MailInit => UsageInv
<1> SUFFICES ASSUME MailInit PROVE UsageInv
  OBVIOUS
<1>1. /\ ml = <<>> /\ f_ml = <<>> /\ held = {} /\ mq = {} /\ f_mq = {}
      /\ usage = [m \in Mail |-> 0] /\ astray = {}
  BY DEF MailInit
<1>2. ml \in Seq(Mail) /\ IsInjective(ml) /\ ToSet(ml) = {}
  BY <1>1 DEF IsInjective, ToSet
<1>3. QED
  BY <1>1, <1>2 DEF UsageInv, ListsTyped, OnceWritten, ListedOrAstray, UsageCounts

(* No mail is freed while an entry of the queue refers to it, and it is    *)
(* freed with the last one unless it went astray; the count that decides   *)
(* it is the number of those entries (free_qnode, delete_ml, read_qnode),  *)
(* wherever the sender dies and starts again.                              *)
THEOREM UsageAlwaysCounts == MailSpec => []UsageCounts
<1>1. UsageInv => UsageCounts
  BY DEF UsageInv
<1>2. UsageInv /\ [MailNext]_mailVars => UsageInv'
  BY UsageNext
<1>3. QED
  BY <1>1, <1>2, UsageInit, PTL DEF MailSpec

-----------------------------------------------------------------------------
(* Deliveries.  What has been delivered is remembered, on file too, unless *)
(* it has been forgotten.                                                  *)
Remembered(m, b) == m \in idlist[b] /\ m \in f_ids[b]

IdsTyped ==
  /\ got \in [QueueEntries -> Nat]
  /\ idlist \in [Addressees -> SUBSET Mail] /\ f_ids \in [Addressees -> SUBSET Mail]

DeliveredKnown ==
  \A m \in Mail, b \in Addressees :
      got[<<m, b>>] > 0 => <<m, b>> \in forgotten \/ Remembered(m, b)

DeliveryInv == IdsTyped /\ DeliveredKnown /\ DeliveredOnce

LEMMA DeliveryNew ==
  ASSUME DeliveryInv, NEW m \in Mail, NEW b \in Addressees, RecvNew(m, b)
  PROVE  DeliveryInv'
<1> USE DEF DeliveryInv
<1>1. /\ m \notin idlist[b] /\ got' = [got EXCEPT ![<<m, b>>] = @ + 1]
      /\ idlist' = [idlist EXCEPT ![b] = @ \cup {m}]
      /\ f_ids' = [f_ids EXCEPT ![b] = idlist'[b]]
      /\ forgotten' = forgotten
  BY DEF RecvNew, Remember
<1>2. got[<<m, b>>] > 0 => <<m, b>> \in forgotten
  BY <1>1 DEF DeliveredKnown, Remembered
<1>3. <<m, b>> \in QueueEntries
  BY DEF QueueEntries
<1>4. IdsTyped'
  BY <1>1, <1>3 DEF IdsTyped
<1>5. ASSUME NEW n \in Mail, NEW c \in Addressees, got'[<<n, c>>] > 0
      PROVE  <<n, c>> \in forgotten' \/ Remembered(n, c)'
  <2>1. <<n, c>> \in QueueEntries
    BY DEF QueueEntries
  <2>2. CASE n = m /\ c = b
    BY <1>1, <2>2 DEF IdsTyped, Remembered
  <2>3. CASE ~(n = m /\ c = b)
    <3>1. got[<<n, c>>] > 0
      BY <1>1, <1>5, <2>1, <2>3 DEF IdsTyped
    <3>2. <<n, c>> \in forgotten \/ Remembered(n, c)
      BY <3>1 DEF DeliveredKnown
    <3>3. Remembered(n, c) => Remembered(n, c)'
      BY <1>1 DEF IdsTyped, Remembered
    <3>4. QED
      BY <1>1, <3>2, <3>3
  <2>4. QED
    BY <2>2, <2>3
<1>6. DeliveredOnce'
  <2>1. SUFFICES ASSUME NEW q \in QueueEntries, got'[q] > 1
                 PROVE  q \in forgotten'
    BY DEF DeliveredOnce
  <2>2. CASE q = <<m, b>>
    BY <1>1, <1>2, <2>1, <2>2 DEF IdsTyped
  <2>3. CASE q # <<m, b>>
    BY <1>1, <2>1, <2>3 DEF IdsTyped, DeliveredOnce
  <2>4. QED
    BY <2>2, <2>3
<1>7. QED
  BY <1>4, <1>5, <1>6 DEF DeliveredKnown

LEMMA DeliveryThenDeath ==
  ASSUME DeliveryInv, NEW m \in Mail, NEW b \in Addressees, RecvAndDie(m, b)
  PROVE  DeliveryInv'
<1> USE DEF DeliveryInv
<1>1. /\ got' = [got EXCEPT ![<<m, b>>] = @ + 1]
      /\ idlist' = [idlist EXCEPT ![b] = f_ids[b]]
      /\ f_ids' = f_ids
      /\ forgotten' = forgotten \cup {<<m, b>>}
  BY DEF RecvAndDie
<1>2. IdsTyped'
  BY <1>1 DEF IdsTyped, QueueEntries
<1>3. \A q \in QueueEntries : q # <<m, b>> => got'[q] = got[q]
  BY <1>1 DEF IdsTyped
<1>4. ASSUME NEW n \in Mail, NEW c \in Addressees, got'[<<n, c>>] > 0
      PROVE  <<n, c>> \in forgotten' \/ Remembered(n, c)'
  <2>1. CASE <<n, c>> = <<m, b>>
    BY <1>1, <2>1
  <2>2. CASE <<n, c>> # <<m, b>>
    <3>1. <<n, c>> \in forgotten \/ Remembered(n, c)
      BY <1>3, <1>4, <2>2 DEF DeliveredKnown, QueueEntries
    <3>2. Remembered(n, c) => Remembered(n, c)'
      BY <1>1 DEF IdsTyped, Remembered
    <3>3. QED
      BY <1>1, <3>1, <3>2
  <2>3. QED
    BY <2>1, <2>2
<1>5. DeliveredOnce'
  BY <1>1, <1>3 DEF DeliveredOnce
<1>6. QED
  BY <1>2, <1>4, <1>5 DEF DeliveredKnown

LEMMA DeliveryLists ==
  ASSUME DeliveryInv, NEW b \in Addressees, Expire(b) \/ Restart(b)
  PROVE  DeliveryInv'
<1> USE DEF DeliveryInv
<1>1. got' = got
  BY DEF Expire, Restart
<1>2. CASE Expire(b)
  <2>1. /\ idlist' = [idlist EXCEPT ![b] = {}] /\ f_ids' = f_ids
        /\ forgotten' = forgotten \cup (idlist[b] \X {b})
    BY <1>2 DEF Expire
  <2>2. IdsTyped'
    BY <1>1, <2>1 DEF IdsTyped
  <2>3. \A m \in Mail, c \in Addressees :
            Remembered(m, c) => Remembered(m, c)' \/ <<m, c>> \in forgotten'
    BY <2>1 DEF IdsTyped, Remembered
  <2>4. QED
    BY <1>1, <2>1, <2>2, <2>3 DEF DeliveredKnown, DeliveredOnce
<1>3. CASE Restart(b)
  <2>1. /\ f_ids' \in {f_ids, [f_ids EXCEPT ![b] = idlist[b]]}
        /\ idlist' = [idlist EXCEPT ![b] = f_ids'[b]]
        /\ forgotten' = forgotten
    BY <1>3 DEF Restart
  <2>2. IdsTyped'
    BY <1>1, <2>1 DEF IdsTyped
  <2>3. \A m \in Mail, c \in Addressees : Remembered(m, c) => Remembered(m, c)'
    BY <2>1 DEF IdsTyped, Remembered
  <2>4. QED
    BY <1>1, <2>1, <2>2, <2>3 DEF DeliveredKnown, DeliveredOnce
<1>4. QED
  BY <1>2, <1>3

LEMMA DeliverySame ==
  ASSUME DeliveryInv, UNCHANGED receivers
  PROVE  DeliveryInv'
  BY DEF DeliveryInv, receivers, IdsTyped, DeliveredKnown, Remembered, DeliveredOnce

LEMMA DeliveryNext ==
  ASSUME DeliveryInv, [MailNext]_mailVars
  PROVE  DeliveryInv'
<1>1. CASE UNCHANGED receivers
  BY <1>1, DeliverySame
<1>2. ASSUME NEW m \in Mail, NEW b \in Addressees, RecvNew(m, b)
      PROVE  DeliveryInv'
  BY <1>2, DeliveryNew
<1>3. ASSUME NEW m \in Mail, NEW b \in Addressees, RecvAndDie(m, b)
      PROVE  DeliveryInv'
  BY <1>3, DeliveryThenDeath
<1>4. ASSUME NEW b \in Addressees, Expire(b) \/ Restart(b)
      PROVE  DeliveryInv'
  BY <1>4, DeliveryLists
<1>5. ASSUME NEW m \in Mail, NEW muds \in SUBSET Addressees, SendMail(m, muds)
      PROVE  UNCHANGED receivers
  BY <1>5 DEF SendMail
<1>6. ASSUME NEW q \in QueueEntries,
             Resend(q) \/ Sent(q) \/ NotSent(q) \/ RecvMailOk(q) \/ RecvMailRej(q)
      PROVE  UNCHANGED receivers
  BY <1>6 DEF Resend, Sent, NotSent, RecvMailOk, RecvMailRej
<1>7. ASSUME NEW m \in Mail, NEW b \in Addressees, RecvSeen(m, b) \/ Refuse(m, b)
      PROVE  UNCHANGED receivers
  BY <1>7 DEF RecvSeen, Refuse
<1>8. CASE SaveMl \/ SaveMq \/ Shutdown \/ Stopped \/ Crash \/ Startup
  <2>1. UNCHANGED receivers
    BY <1>8 DEF SaveMl, SaveMq, Shutdown, Stopped, Crash, Halt, Startup
  <2>2. QED
    BY <1>1, <2>1
<1>9. CASE UNCHANGED mailVars
  BY <1>1, <1>9 DEF mailVars
<1>10. QED
  BY <1>1, <1>2, <1>3, <1>4, <1>5, <1>6, <1>7, <1>8, <1>9 DEF MailNext

(* However often a mail is sent again, whatever answers are lost, and      *)
(* whoever dies: a mud delivers it a second time only after it has         *)
(* forgotten its ID (imc_recv_mail, ev_mailid_expire, load_idlist).        *)
THEOREM AlwaysDeliveredOnce == MailSpec => []DeliveredOnce
<1>1. MailInit => DeliveryInv
  BY DEF MailInit, DeliveryInv, IdsTyped, DeliveredKnown, DeliveredOnce, QueueEntries
<1>2. DeliveryInv => DeliveredOnce
  BY DEF DeliveryInv
<1>3. DeliveryInv /\ [MailNext]_mailVars => DeliveryInv'
  BY DeliveryNext
<1>4. QED
  BY <1>1, <1>2, <1>3, PTL DEF MailSpec

-----------------------------------------------------------------------------
(* Losses.  An ID is listed, and mail acknowledged, only after delivery,   *)
(* so that an answer that takes an entry off the queue tells the truth;    *)
(* and what has been saved stays both in the queue and in its file until   *)
(* then.                                                                   *)
ListedDelivered ==
  \A m \in Mail, b \in Addressees :
      m \in idlist[b] \/ m \in f_ids[b] => got[<<m, b>>] > 0

Answered(q) == got[q] > 0 \/ q \in bounced

StillQueued == up => \A q \in posted \ forsaken : q \in mq \/ Answered(q)
StillOnFile == \A q \in posted \ forsaken : q \in f_mq \/ Answered(q)

QueuesTyped == mq \subseteq QueueEntries /\ f_mq \subseteq QueueEntries /\ posted \subseteq QueueEntries

LossInv ==
  /\ IdsTyped /\ QueuesTyped
  /\ ListedDelivered /\ AcksTrue
  /\ StillQueued /\ StillOnFile

(* What the receivers and the network may do without breaking it.          *)
Quiet ==
  /\ IdsTyped' /\ ListedDelivered'
  /\ \A q \in QueueEntries : got[q] > 0 => got'[q] > 0
  /\ \A q \in QueueEntries :
         BagIn(<<"mail-ok", q>>, net') => BagIn(<<"mail-ok", q>>, net) \/ got'[q] > 0

LEMMA QuietKeepsAcks ==
  ASSUME LossInv, Quiet
  PROVE  AcksTrue'
  BY DEF LossInv, Quiet, AcksTrue

LEMMA OthersKeep ==
  ASSUME LossInv, Quiet, UNCHANGED <<sender, disk, record>>
  PROVE  LossInv'
<1>1. AcksTrue'
  BY QuietKeepsAcks
<1>2. \A q \in posted : Answered(q) => Answered(q)'
  BY DEF Quiet, LossInv, QueuesTyped, Answered, record
<1>3. StillQueued' /\ StillOnFile'
  BY <1>2 DEF LossInv, StillQueued, StillOnFile, sender, disk, record
<1>4. QED
  BY <1>1, <1>3 DEF LossInv, Quiet, QueuesTyped, sender, disk, record

LEMMA SilentReceivers ==
  ASSUME LossInv, UNCHANGED receivers,
         \A q \in QueueEntries : BagIn(<<"mail-ok", q>>, net') => BagIn(<<"mail-ok", q>>, net)
  PROVE  Quiet
  BY DEF LossInv, Quiet, IdsTyped, ListedDelivered, receivers

(* A packet that is not a mail-ok, or tells of a delivery, may go out.     *)
LEMMA ExchangeAcks ==
  ASSUME NEW p, NEW kind, NEW r \in QueueEntries, Exchange(p, <<kind, r>>), NEW q \in QueueEntries,
         BagIn(<<"mail-ok", q>>, net')
  PROVE  BagIn(<<"mail-ok", q>>, net) \/ (kind = "mail-ok" /\ q = r)
<1>1. CASE net' = Less(net, p)
  BY <1>1, LessRemoves
<1>2. CASE net' = With(Less(net, p), <<kind, r>>)
  <2>1. <<"mail-ok", q>> = <<kind, r>> \/ BagIn(<<"mail-ok", q>>, Less(net, p))
    BY <1>2, WithAdds
  <2>2. QED
    BY <2>1, LessRemoves
<1>3. QED
  BY <1>1, <1>2 DEF Exchange

LEMMA ReceiversQuiet ==
  ASSUME LossInv, NEW m \in Mail, NEW b \in Addressees,
         RecvSeen(m, b) \/ RecvNew(m, b) \/ Refuse(m, b) \/ RecvAndDie(m, b)
  PROVE  Quiet
<1> USE DEF LossInv
<1>1. <<m, b>> \in QueueEntries
  BY DEF QueueEntries
<1>2. CASE RecvSeen(m, b)
  <2>1. got[<<m, b>>] > 0 /\ UNCHANGED receivers
    BY <1>2 DEF RecvSeen, ListedDelivered
  <2>2. \A q \in QueueEntries :
            BagIn(<<"mail-ok", q>>, net') => BagIn(<<"mail-ok", q>>, net) \/ q = <<m, b>>
    BY <1>1, <1>2, ExchangeAcks DEF RecvSeen
  <2>3. QED
    BY <2>1, <2>2 DEF Quiet, IdsTyped, ListedDelivered, receivers
<1>3. CASE Refuse(m, b)
  <2>1. UNCHANGED receivers
    BY <1>3 DEF Refuse
  <2>2. \A q \in QueueEntries : BagIn(<<"mail-ok", q>>, net') => BagIn(<<"mail-ok", q>>, net)
    BY <1>1, <1>3, ExchangeAcks DEF Refuse
  <2>3. QED
    BY <2>1, <2>2, SilentReceivers
<1>4. CASE RecvNew(m, b) \/ RecvAndDie(m, b)
  <2>1. got' = [got EXCEPT ![<<m, b>>] = @ + 1]
    BY <1>4 DEF RecvNew, RecvAndDie
  <2>2. /\ got' \in [QueueEntries -> Nat] /\ got'[<<m, b>>] > 0
        /\ \A q \in QueueEntries : got[q] > 0 => got'[q] > 0
    BY <1>1, <2>1 DEF IdsTyped
  <2>3. \A q \in QueueEntries :
            BagIn(<<"mail-ok", q>>, net') => BagIn(<<"mail-ok", q>>, net) \/ q = <<m, b>>
    BY <1>1, <1>4, ExchangeAcks DEF RecvNew, RecvAndDie
  <2>4. IdsTyped' /\ ListedDelivered'
    <3>1. CASE RecvNew(m, b)
      <4>1. /\ idlist' = [idlist EXCEPT ![b] = @ \cup {m}]
            /\ f_ids' = [f_ids EXCEPT ![b] = idlist[b] \cup {m}]
        BY <3>1 DEF RecvNew, Remember, IdsTyped
      <4>2. IdsTyped'
        BY <2>2, <4>1 DEF IdsTyped
      <4>3. \A n \in Mail, c \in Addressees :
                n \in idlist'[c] \/ n \in f_ids'[c] =>
                    <<n, c>> = <<m, b>> \/ n \in idlist[c] \/ n \in f_ids[c]
        BY <4>1 DEF IdsTyped
      <4>4. QED
        BY <2>2, <4>2, <4>3 DEF ListedDelivered, QueueEntries
    <3>2. CASE RecvAndDie(m, b)
      <4>1. idlist' = [idlist EXCEPT ![b] = f_ids[b]] /\ f_ids' = f_ids
        BY <3>2 DEF RecvAndDie
      <4>2. IdsTyped'
        BY <2>2, <4>1 DEF IdsTyped
      <4>3. \A n \in Mail, c \in Addressees :
                n \in idlist'[c] \/ n \in f_ids'[c] => n \in idlist[c] \/ n \in f_ids[c]
        BY <4>1 DEF IdsTyped
      <4>4. QED
        BY <2>2, <4>2, <4>3 DEF ListedDelivered, QueueEntries
    <3>3. QED
      BY <1>4, <3>1, <3>2
  <2>5. QED
    BY <2>2, <2>3, <2>4 DEF Quiet
<1>5. QED
  BY <1>2, <1>3, <1>4

LEMMA ListsQuiet ==
  ASSUME LossInv, NEW b \in Addressees, Expire(b) \/ Restart(b)
  PROVE  Quiet
<1> USE DEF LossInv
<1>1. got' = got /\ net' = net
  BY DEF Expire, Restart
<1>2. CASE Expire(b)
  <2>1. idlist' = [idlist EXCEPT ![b] = {}] /\ f_ids' = f_ids
    BY <1>2 DEF Expire
  <2>2. QED
    BY <1>1, <2>1 DEF Quiet, IdsTyped, ListedDelivered
<1>3. CASE Restart(b)
  <2>1. /\ f_ids' \in {f_ids, [f_ids EXCEPT ![b] = idlist[b]]}
        /\ idlist' = [idlist EXCEPT ![b] = f_ids'[b]]
    BY <1>3 DEF Restart
  <2>2. IdsTyped'
    BY <1>1, <2>1 DEF IdsTyped
  <2>3. \A m \in Mail, c \in Addressees :
            m \in idlist'[c] \/ m \in f_ids'[c] => m \in idlist[c] \/ m \in f_ids[c]
    BY <2>1 DEF IdsTyped
  <2>4. QED
    BY <1>1, <2>2, <2>3 DEF Quiet, ListedDelivered
<1>4. QED
  BY <1>2, <1>3

(* An answer takes its entry off the queue: the mail has been delivered,   *)
(* or its writer is told.                                                  *)
LEMMA AnswersLoseNothing ==
  ASSUME LossInv, NEW q \in QueueEntries, RecvMailOk(q) \/ RecvMailRej(q)
  PROVE  LossInv'
<1> USE DEF LossInv
<1>1. /\ UNCHANGED <<up, f_mq, posted, forsaken>> /\ UNCHANGED receivers
      /\ bounced \subseteq bounced' /\ mq' \subseteq mq /\ mq \ {q} \subseteq mq'
  BY DEF RecvMailOk, RecvMailRej, DeleteMq, disk, record
<1>2. Quiet
  <2>1. \E kind : net' = Less(net, <<kind, q>>)
    BY DEF RecvMailOk, RecvMailRej, Received
  <2>2. \A e \in QueueEntries : BagIn(<<"mail-ok", e>>, net') => BagIn(<<"mail-ok", e>>, net)
    BY <2>1, LessRemoves
  <2>3. QED
    BY <1>1, <2>2, SilentReceivers
<1>3. q \in mq \ mq' => Answered(q)'
  <2>1. CASE RecvMailOk(q)
    <3>1. got[q] > 0
      BY <2>1 DEF RecvMailOk, Received, AcksTrue
    <3>2. QED
      BY <1>1, <3>1 DEF Answered, receivers
  <2>2. CASE RecvMailRej(q)
    BY <2>2 DEF RecvMailRej, Answered
  <2>3. QED
    BY <2>1, <2>2
<1>4. \A e \in posted : Answered(e) => Answered(e)'
  BY <1>1 DEF Answered, receivers
<1>5. StillQueued' /\ StillOnFile'
  BY <1>1, <1>3, <1>4 DEF StillQueued, StillOnFile
<1>6. AcksTrue'
  BY <1>2, QuietKeepsAcks
<1>7. QED
  BY <1>1, <1>2, <1>5, <1>6 DEF Quiet, QueuesTyped

LEMMA SenderLosesNothing ==
  ASSUME LossInv,
         \/ \E m \in Mail : \E muds \in SUBSET Addressees : SendMail(m, muds)
         \/ SaveMq \/ Stopped \/ Crash \/ Startup
  PROVE  LossInv'
<1> USE DEF LossInv
<1>1. UNCHANGED <<net, bounced>> /\ UNCHANGED receivers
  BY DEF SendMail, SaveMq, Stopped, Crash, Halt, Startup, record
<1>2. Quiet
  BY <1>1, SilentReceivers
<1>3. IdsTyped' /\ ListedDelivered' /\ AcksTrue'
  BY <1>2, QuietKeepsAcks DEF Quiet
<1>4. \A e : Answered(e) => Answered(e)'
  BY <1>1 DEF Answered, receivers
<1>5. ASSUME NEW m \in Mail, NEW muds \in SUBSET Addressees, SendMail(m, muds)
      PROVE  QueuesTyped' /\ StillQueued' /\ StillOnFile'
  <2>1. mq' = mq \cup ({m} \X muds) /\ UNCHANGED <<up, f_mq, posted, forsaken>>
    BY <1>5 DEF SendMail, disk
  <2>2. {m} \X muds \subseteq QueueEntries
    BY DEF QueueEntries
  <2>3. QED
    BY <1>4, <2>1, <2>2 DEF QueuesTyped, StillQueued, StillOnFile
<1>6. CASE SaveMq
  BY <1>3, <1>4, <1>6 DEF SaveMq, Doing, QueuesTyped, StillQueued, StillOnFile
<1>7. CASE Stopped \/ Crash
  BY <1>3, <1>4, <1>7 DEF Stopped, Crash, Halt, disk, record, QueuesTyped, StillQueued, StillOnFile
<1>8. CASE Startup
  <2>1. /\ mq' \subseteq f_mq /\ forsaken' = forsaken \cup (f_mq \ mq')
        /\ UNCHANGED <<f_mq, posted>>
    BY <1>8 DEF Startup, disk
  <2>2. QED
    BY <1>3, <1>4, <2>1 DEF QueuesTyped, StillQueued, StillOnFile
<1>9. QED
  BY <1>3, <1>5, <1>6, <1>7, <1>8

LEMMA LossNext ==
  ASSUME LossInv, [MailNext]_mailVars
  PROVE  LossInv'
<1>1. CASE Quiet /\ UNCHANGED <<up, mq, f_mq, posted, forsaken, bounced>>
  <2>1. \A q \in posted : Answered(q) => Answered(q)'
    BY <1>1 DEF Quiet, LossInv, QueuesTyped, Answered
  <2>2. AcksTrue'
    BY <1>1, QuietKeepsAcks
  <2>3. QED
    BY <1>1, <2>1, <2>2 DEF LossInv, Quiet, QueuesTyped, StillQueued, StillOnFile
<1>2. ASSUME NEW q \in QueueEntries, Resend(q) \/ Sent(q) \/ NotSent(q)
      PROVE  Quiet /\ UNCHANGED <<up, mq, f_mq, posted, forsaken, bounced>>
  <2>1. /\ UNCHANGED <<up, mq, f_mq, posted, forsaken, bounced>> /\ UNCHANGED receivers
        /\ net' = net \/ net' = With(net, <<"mail", q>>)
    BY <1>2 DEF Resend, Sent, NotSent, disk, record
  <2>2. \A e \in QueueEntries : BagIn(<<"mail-ok", e>>, net') => BagIn(<<"mail-ok", e>>, net)
    BY <2>1, WithAdds
  <2>3. QED
    BY <2>1, <2>2, SilentReceivers
<1>3. ASSUME NEW q \in QueueEntries, RecvMailOk(q) \/ RecvMailRej(q)
      PROVE  LossInv'
  BY <1>3, AnswersLoseNothing
<1>4. ASSUME NEW m \in Mail, NEW b \in Addressees,
             RecvSeen(m, b) \/ RecvNew(m, b) \/ Refuse(m, b) \/ RecvAndDie(m, b)
      PROVE  LossInv'
  <2>1. UNCHANGED <<sender, disk, record>>
    BY <1>4 DEF RecvSeen, RecvNew, Refuse, RecvAndDie
  <2>2. QED
    BY <1>4, <2>1, ReceiversQuiet, OthersKeep
<1>5. ASSUME NEW b \in Addressees, Expire(b) \/ Restart(b)
      PROVE  LossInv'
  <2>1. UNCHANGED <<sender, disk, record>>
    BY <1>5 DEF Expire, Restart
  <2>2. QED
    BY <1>5, <2>1, ListsQuiet, OthersKeep
<1>6. CASE SaveMl \/ Shutdown \/ UNCHANGED mailVars
  <2>1. /\ UNCHANGED <<up, mq, f_mq, posted, forsaken, bounced, net>>
        /\ UNCHANGED receivers
    BY <1>6 DEF SaveMl, Shutdown, mailVars, sender, disk, record
  <2>2. Quiet
    BY <2>1, SilentReceivers
  <2>3. QED
    BY <1>1, <2>1, <2>2
<1>7. QED
  BY <1>1, <1>2, <1>3, <1>4, <1>5, <1>6, SenderLosesNothing DEF MailNext

(* Mail that has been queued and saved is delivered, or bounced to its     *)
(* writer, or still in the queue (in its file, when the sender is down):   *)
(* the order in which imc-mail.c acknowledges and saves allows nothing     *)
(* else, wherever a process dies; but for the entries whose mail the mail  *)
(* list has lost.                                                          *)
THEOREM NeverSilentLoss == MailSpec => []NoSilentLoss
<1>1. MailInit => LossInv
  BY DEF MailInit, LossInv, IdsTyped, QueuesTyped, ListedDelivered, AcksTrue,
         StillQueued, StillOnFile, QueueEntries, BagIn, BagToSet, EmptyBag, SetToBag
<1>2. LossInv => NoSilentLoss
  BY DEF LossInv, NoSilentLoss, StillQueued, StillOnFile, Answered
<1>3. LossInv /\ [MailNext]_mailVars => LossInv'
  BY LossNext
<1>4. QED
  BY <1>1, <1>2, <1>3, PTL DEF MailSpec

-----------------------------------------------------------------------------
(* Types.  A count is the number of entries of one mail, so at most one    *)
(* for each mud, and an entry that is taken out of the queue was counted.  *)
MoreTyped ==
  /\ up \in BOOLEAN /\ todo \in Seq(Jobs)
  /\ usage \in [Mail -> 0..Cardinality(Addressees)]
  /\ BagToSet(net) \subseteq Packets
  /\ written \subseteq Mail
  /\ posted \subseteq QueueEntries /\ forsaken \subseteq QueueEntries
  /\ bounced \subseteq QueueEntries /\ forgotten \subseteq QueueEntries

TypeInv == UsageInv /\ DeliveryInv /\ MoreTyped

LEMMA AtMostMuds ==
  ASSUME NEW queue \in SUBSET QueueEntries, NEW m \in Mail
  PROVE  Cardinality(Of(m, queue)) \in 0..Cardinality(Addressees)
<1>1. IsFiniteSet({m}) /\ Cardinality({m}) = 1 /\ IsFiniteSet(Addressees) /\ Cardinality(Addressees) \in Nat
  BY FS_Singleton, FS_CardinalityType, MailAssumption
<1>2. IsFiniteSet({m} \X Addressees) /\ Cardinality({m} \X Addressees) = Cardinality(Addressees)
  <2>1. Cardinality({m} \X Addressees) = Cardinality({m}) * Cardinality(Addressees) /\ IsFiniteSet({m} \X Addressees)
    BY <1>1, FS_Product
  <2>2. QED
    BY <1>1, <2>1
<1>3. Of(m, queue) \in SUBSET ({m} \X Addressees)
  BY DEF Of, QueueEntries
<1>4. Cardinality(Of(m, queue)) <= Cardinality({m} \X Addressees)
  BY <1>2, <1>3, FS_Subset
<1>5. QED
  BY <1>1, <1>2, <1>4, FewEntries

LEMMA JobsTyped ==
  /\ <<"save_ml">> \in Jobs /\ <<"save_mq">> \in Jobs /\ <<"stop">> \in Jobs
  /\ \A q \in QueueEntries : <<"send", q>> \in Jobs
  BY DEF Jobs

LEMMA PacketsTyped ==
  \A q \in QueueEntries : /\ <<"mail", q>> \in Packets /\ <<"mail-ok", q>> \in Packets
                     /\ <<"mail-reject", q>> \in Packets
  BY DEF Packets

LEMMA NetTyped ==
  ASSUME BagToSet(net) \subseteq Packets, NEW p, NEW r \in Packets,
         net' \in {net, Less(net, p), With(net, r), With(Less(net, p), r)}
  PROVE  BagToSet(net') \subseteq Packets
<1>1. ASSUME NEW e, BagIn(e, net') PROVE e = r \/ BagIn(e, net)
  BY <1>1, WithAdds, LessRemoves
<1>2. QED
  BY <1>1 DEF BagIn

(* What a job at the head of todo leaves.                                   *)
LEMMA TodoTyped ==
  ASSUME todo \in Seq(Jobs), NEW job, Doing(job)
  PROVE  todo' \in Seq(Jobs)
  BY DEF Doing

LEMMA DeleteMqTyped ==
  ASSUME TypeInv, NEW q \in mq, DeleteMq(q)
  PROVE  usage' \in [Mail -> 0..Cardinality(Addressees)]
<1>1. /\ usage' = [usage EXCEPT ![q[1]] = @ - 1] /\ q[1] \in Mail
      /\ usage \in [Mail -> 0..Cardinality(Addressees)] /\ mq \subseteq QueueEntries
  BY DEF DeleteMq, TypeInv, MoreTyped, UsageInv, ListsTyped, QueueEntries
<1>2. usage[q[1]] = Cardinality(Of(q[1], mq))
  BY DEF TypeInv, UsageInv, UsageCounts, Of
<1>3. Cardinality(Of(q[1], mq)) # 0
  <2>1. q \in Of(q[1], mq) /\ IsFiniteSet(Of(q[1], mq))
    BY <1>1, FewEntries DEF Of
  <2>2. QED
    BY <2>1, FS_EmptySet
<1>4. Cardinality(Addressees) \in Nat
  BY FS_CardinalityType, MailAssumption
<1>5. usage[q[1]] - 1 \in 0..Cardinality(Addressees)
  BY <1>1, <1>2, <1>3, <1>4
<1>6. QED
  BY <1>1, <1>5

LEMMA MoreTypedNext ==
  ASSUME TypeInv, [MailNext]_mailVars
  PROVE  MoreTyped'
<1>a. /\ up \in BOOLEAN /\ todo \in Seq(Jobs)
      /\ usage \in [Mail -> 0..Cardinality(Addressees)]
      /\ BagToSet(net) \subseteq Packets
      /\ written \subseteq Mail
      /\ posted \subseteq QueueEntries /\ forsaken \subseteq QueueEntries
      /\ bounced \subseteq QueueEntries /\ forgotten \subseteq QueueEntries
  BY DEF TypeInv, MoreTyped
<1>b. mq \subseteq QueueEntries /\ f_mq \subseteq QueueEntries
  BY DEF TypeInv, UsageInv, ListsTyped
<1>c. Cardinality(Addressees) \in Nat
  BY FS_CardinalityType, MailAssumption
<1>1. ASSUME NEW m \in Mail, NEW muds \in SUBSET Addressees, SendMail(m, muds)
      PROVE  MoreTyped'
  <2>1. /\ written' = written \cup {m} /\ usage' = [usage EXCEPT ![m] = Cardinality(muds)]
        /\ todo' = << <<"save_ml">>, <<"save_mq">> >>
        /\ UNCHANGED <<up, net, posted, forsaken, bounced, forgotten>>
    BY <1>1 DEF SendMail, receivers
  <2>2. Cardinality(muds) \in 0..Cardinality(Addressees)
    BY <1>c, FS_Subset, FS_CardinalityType, MailAssumption
  <2>3. todo' \in Seq(Jobs)
    BY <2>1, JobsTyped
  <2>4. usage' \in [Mail -> 0..Cardinality(Addressees)]
    BY <1>a, <2>1, <2>2
  <2>5. QED
    BY <1>a, <2>1, <2>3, <2>4 DEF MoreTyped
<1>2. ASSUME NEW q \in QueueEntries, Resend(q) \/ Sent(q) \/ NotSent(q)
      PROVE  MoreTyped'
  <2>1. UNCHANGED <<up, usage, written, posted, forsaken, bounced, forgotten>>
    BY <1>2 DEF Resend, Sent, NotSent, receivers, record
  <2>2. todo' \in Seq(Jobs)
    <3>1. CASE Resend(q)
      BY <3>1, JobsTyped DEF Resend
    <3>2. CASE Sent(q) \/ NotSent(q)
      BY <1>a, <3>2, TodoTyped DEF Sent, NotSent
    <3>3. QED
      BY <1>2, <3>1, <3>2
  <2>3. net' \in {net, With(net, <<"mail", q>>)}
    BY <1>2 DEF Resend, Sent, NotSent
  <2>4. BagToSet(net') \subseteq Packets
    BY <1>a, <2>3, PacketsTyped, NetTyped
  <2>5. QED
    BY <1>a, <2>1, <2>2, <2>4 DEF MoreTyped
<1>3. ASSUME NEW q \in QueueEntries, RecvMailOk(q) \/ RecvMailRej(q)
      PROVE  MoreTyped'
  <2>1. UNCHANGED <<up, written, posted, forsaken, forgotten>>
    BY <1>3 DEF RecvMailOk, RecvMailRej, receivers, record
  <2>2. bounced' \subseteq QueueEntries
    BY <1>a, <1>3 DEF RecvMailOk, RecvMailRej, record
  <2>3. todo' \in Seq(Jobs)
    <3>1. todo' \in {todo, << <<"save_mq">>, <<"save_ml">> >>}
      BY <1>3 DEF RecvMailOk, RecvMailRej
    <3>2. << <<"save_mq">>, <<"save_ml">> >> \in Seq(Jobs)
      BY JobsTyped
    <3>3. QED
      BY <1>a, <3>1, <3>2
  <2>4. BagToSet(net') \subseteq Packets
    <3>1. \E p : net' = Less(net, p)
      BY <1>3 DEF RecvMailOk, RecvMailRej, Received
    <3>2. QED
      BY <1>a, <3>1, PacketsTyped, NetTyped
  <2>5. usage' \in [Mail -> 0..Cardinality(Addressees)]
    <3>1. CASE q \in mq /\ DeleteMq(q)
      BY <3>1, DeleteMqTyped
    <3>2. CASE usage' = usage
      BY <1>a, <3>2
    <3>3. QED
      BY <1>3, <3>1, <3>2 DEF RecvMailOk, RecvMailRej
  <2>6. QED
    BY <1>a, <2>1, <2>2, <2>3, <2>4, <2>5 DEF MoreTyped
<1>4. ASSUME NEW m \in Mail, NEW b \in Addressees,
             RecvSeen(m, b) \/ RecvNew(m, b) \/ Refuse(m, b) \/ RecvAndDie(m, b)
      PROVE  MoreTyped'
  <2>1. UNCHANGED <<up, todo, usage, written, posted, forsaken, bounced>>
    BY <1>4 DEF RecvSeen, RecvNew, Refuse, RecvAndDie, sender, record
  <2>2. <<m, b>> \in QueueEntries
    BY DEF QueueEntries
  <2>3. forgotten' \subseteq QueueEntries
    BY <1>a, <1>4, <2>2 DEF RecvSeen, RecvNew, Refuse, RecvAndDie, receivers
  <2>4. \E p : \E r \in Packets : net' \in {Less(net, p), With(Less(net, p), r)}
    BY <1>4, <2>2, PacketsTyped DEF RecvSeen, RecvNew, Refuse, RecvAndDie, Exchange
  <2>5. BagToSet(net') \subseteq Packets
    BY <1>a, <2>4, NetTyped
  <2>6. QED
    BY <1>a, <2>1, <2>3, <2>5 DEF MoreTyped
<1>5. CASE SaveMl
  <2>1. todo' \in Seq(Jobs)
    BY <1>a, <1>5, TodoTyped DEF SaveMl
  <2>2. QED
    BY <1>a, <1>5, <2>1 DEF SaveMl, MoreTyped, receivers, record
<1>6. CASE SaveMq
  <2>1. todo' \in Seq(Jobs)
    BY <1>a, <1>6, TodoTyped DEF SaveMq
  <2>2. QED
    BY <1>a, <1>b, <1>6, <2>1 DEF SaveMq, MoreTyped, receivers
<1>7. CASE Shutdown
  <2>1. todo' \in Seq(Jobs)
    BY <1>7, JobsTyped DEF Shutdown
  <2>2. QED
    BY <1>a, <1>7, <2>1 DEF Shutdown, MoreTyped, receivers, record
<1>8. CASE Stopped \/ Crash
  <2>1. todo' \in Seq(Jobs)
    <3>1. CASE Stopped
      BY <1>a, <3>1, TodoTyped DEF Stopped
    <3>2. CASE Crash
      BY <3>2 DEF Crash
    <3>3. QED
      BY <1>8, <3>1, <3>2
  <2>2. up' = FALSE /\ usage' = [m \in Mail |-> 0] /\ UNCHANGED <<net, receivers, record>>
    BY <1>8 DEF Stopped, Crash, Halt
  <2>3. usage' \in [Mail -> 0..Cardinality(Addressees)]
    BY <1>c, <2>2
  <2>4. QED
    BY <1>a, <2>1, <2>2, <2>3 DEF MoreTyped, receivers, record
<1>9. CASE Startup
  <2>1. /\ up' = TRUE /\ mq' \subseteq f_mq /\ CountUsage(mq')
        /\ forsaken' = forsaken \cup (f_mq \ mq')
        /\ UNCHANGED <<todo, net, written, posted, bounced, forgotten>>
    BY <1>9 DEF Startup, receivers
  <2>2. usage' = [m \in Mail |-> Cardinality(Of(m, mq'))]
    BY <2>1 DEF CountUsage, Of
  <2>3. usage' \in [Mail -> 0..Cardinality(Addressees)]
    BY <1>b, <2>1, <2>2, AtMostMuds
  <2>4. QED
    BY <1>a, <1>b, <2>1, <2>3 DEF MoreTyped
<1>10. ASSUME NEW b \in Addressees, Expire(b) \/ Restart(b)
       PROVE  MoreTyped'
  <2>1. UNCHANGED <<up, todo, usage, net, written, posted, forsaken, bounced>>
    BY <1>10 DEF Expire, Restart, sender, record
  <2>2. idlist[b] \subseteq Mail
    BY DEF TypeInv, DeliveryInv, IdsTyped
  <2>3. forgotten' \subseteq QueueEntries
    BY <1>a, <1>10, <2>2 DEF Expire, Restart, QueueEntries
  <2>4. QED
    BY <1>a, <2>1, <2>3 DEF MoreTyped
<1>11. CASE UNCHANGED mailVars
  BY <1>a, <1>11 DEF mailVars, sender, receivers, record, MoreTyped
<1>12. QED
  BY <1>1, <1>2, <1>3, <1>4, <1>5, <1>6, <1>7, <1>8, <1>9, <1>10, <1>11 DEF MailNext

LEMMA MoreTypedInit == MailInit => MoreTyped
<1> SUFFICES ASSUME MailInit PROVE MoreTyped
  OBVIOUS
<1>1. Cardinality(Addressees) \in Nat
  BY FS_CardinalityType, MailAssumption
<1>2. BagToSet(net) = {}
  BY DEF MailInit, EmptyBag, SetToBag, BagToSet
<1>3. QED
  BY <1>1, <1>2 DEF MailInit, MoreTyped

(* What the handlers of imc-mail.c keep in memory and on file is of the    *)
(* types they rely on; no reference count ever exceeds the number of muds  *)
(* or goes below zero, and no list holds a mail twice.                     *)
THEOREM MailTypeCorrect == MailSpec => []MailTypeOK
<1>1. MailInit => TypeInv
  <2>1. MailInit => DeliveryInv
    BY DEF MailInit, DeliveryInv, IdsTyped, DeliveredKnown, DeliveredOnce, QueueEntries
  <2>2. QED
    BY <2>1, UsageInit, MoreTypedInit DEF TypeInv
<1>2. TypeInv /\ [MailNext]_mailVars => TypeInv'
  <2> SUFFICES ASSUME TypeInv, [MailNext]_mailVars PROVE TypeInv'
    OBVIOUS
  <2>1. UsageInv' /\ DeliveryInv'
    BY UsageNext, DeliveryNext DEF TypeInv
  <2>2. QED
    BY <2>1, MoreTypedNext DEF TypeInv
<1>3. TypeInv => MailTypeOK
  <2> SUFFICES ASSUME TypeInv PROVE MailTypeOK
    OBVIOUS
  <2>1. ToSet(ml) \subseteq Mail /\ ToSet(f_ml) \subseteq Mail
    BY DEF TypeInv, UsageInv, ListsTyped, ToSet
  <2>2. QED
    BY <2>1 DEF TypeInv, UsageInv, ListsTyped, DeliveryInv, IdsTyped, MoreTyped, MailTypeOK
<1>4. QED
  BY <1>1, <1>2, <1>3, PTL DEF MailSpec

-----------------------------------------------------------------------------
(* Connections.                                                            *)


(* Which end may be in which state, and what it knows there: the client    *)
(* its entry from the start, the server from the password on.              *)
EndsFit ==
  /\ \A s \in Sockets : line[s].from = None <=> line[s].to = None
  /\ \A e \in Ends :
       /\ state[e] \in {"CONNECTING", "WAIT2"} => e[2] = "client"
       /\ state[e] \in {"WAIT1", "backlog"} => e[2] = "server" /\ info[e] = None
       /\ state[e] \in {"CONNECTING", "WAIT2", "CONNECTED"} => info[e] # None
       /\ state[e] \in Open \cup {"CLOSED"} => At(e) \in active

NoneOfItself == \A x \in known : x[1] # x[2]

IInv ==
  /\ TypeOK /\ EndsFit /\ NoneOfItself
  /\ OneEndEach /\ EventsRefer /\ NeverForgotten

-----------------------------------------------------------------------------
(* Events.                                                                 *)
LEMMA NoEndIsNone == NoEnd \notin Ends
  BY LinkAssumption DEF NoEnd, Ends, None

LEMMA SetUp ==
  ASSUME NEW before \in [Entries -> 0 .. MaxPending], NEW calls \in [Entries -> Nat],
         NEW r \in SetupReconnect(before, calls)
  PROVE  /\ r \in [Entries -> 0 .. MaxPending]
         /\ \A x \in Entries : /\ before[x] > 0 => r[x] > 0
                               /\ calls[x] > 0 => r[x] > 0
                               /\ r[x] > 0 => before[x] > 0 \/ calls[x] > 0
<1>1. /\ r \in [Entries -> 0 .. MaxPending]
      /\ \A x \in Entries : /\ r[x] \in before[x] .. before[x] + calls[x]
                            /\ calls[x] > 0 => r[x] > 0
  BY DEF SetupReconnect
<1>2. \A x \in Entries : before[x] \in Nat /\ calls[x] \in Nat
  BY LinkAssumption
<1>3. QED
  BY <1>1, <1>2

LEMMA Retries ==
  ASSUME NEW m \in Muds, NEW C \in SUBSET Ends
  PROVE  /\ ToRetry(m, C) \in [Entries -> Nat]
         /\ \A x \in Entries :
              ToRetry(m, C)[x] > 0 <=>
                x[1] = m /\ Reconnects(m, x[2]) /\ \E e \in C : info[e] = x[2]
<1> DEFINE D(n) == {e \in C : info[e] = n}
<1>1. \A n : IsFiniteSet(D(n)) /\ Cardinality(D(n)) \in Nat
  <2>1. IsFiniteSet(Ends)
    <3>1. IsFiniteSet(Roles)
      <4>1. Roles = {"client"} \cup {"server"}
        BY DEF Roles
      <4>2. QED
        BY <4>1, FS_Singleton, FS_AddElement
    <3>2. QED
      BY <3>1, LinkAssumption, FS_Product DEF Ends
  <2>2. \A n : D(n) \subseteq Ends
    OBVIOUS
  <2>3. QED
    BY <2>1, <2>2, FS_Subset, FS_CardinalityType
<1>2. \A n : Cardinality(D(n)) > 0 <=> \E e \in C : info[e] = n
  <2>1. \A n : Cardinality(D(n)) = 0 <=> D(n) = {}
    BY <1>1, FS_EmptySet
  <2>2. \A n : D(n) = {} <=> ~\E e \in C : info[e] = n
    OBVIOUS
  <2> HIDE DEF D
  <2>3. QED
    BY <1>1, <2>1, <2>2
<1>3. ToRetry(m, C) = [x \in Entries |-> IF x[1] = m /\ Reconnects(m, x[2])
                                         THEN Cardinality(D(x[2])) ELSE 0]
  BY DEF ToRetry
<1> HIDE DEF D
<1>4. QED
  BY <1>1, <1>2, <1>3

(* An entry that was connected or being connected to, and is so no longer, *)
(* must have an event pending.                                             *)
Served(m, n) ==
  \/ <<m, n>> \in missed
  \/ connection[<<m, n>>] # NoEnd
  \/ reconnect[<<m, n>>] > 0
  \/ HandshakeUnderWay(m, n)
Wanted(m, n) ==
  m \in active /\ <<m, n>> \in known /\ Reconnects(m, n) /\ "NOAUTO" \notin flags[<<m, n>>]

LEMMA ForgottenIs == NeverForgotten <=> \A m, n \in Muds : Wanted(m, n) => Served(m, n)
<1>1. \A m, n \in Muds : HandshakeUnderWay(m, n) <=>
         \E e \in Ours(m) : info[e] = n /\ state[e] \in {"CONNECTING", "WAIT2"}
  BY DEF HandshakeUnderWay, Ours, Open
<1>2. QED
  BY <1>1 DEF NeverForgotten, Wanted, Served

LEMMA ForgottenIsPrime ==
  NeverForgotten' <=> \A m, n \in Muds : Wanted(m, n)' => Served(m, n)'
<1>1. \A m, n \in Muds : HandshakeUnderWay(m, n)' <=>
         (\E e \in Ours(m) : info[e] = n /\ state[e] \in {"CONNECTING", "WAIT2"})'
  BY DEF HandshakeUnderWay, Ours, Open
<1>2. QED
  BY <1>1 DEF NeverForgotten, Wanted, Served
-----------------------------------------------------------------------------
LEMMA DoCloseKeeps ==
  ASSUME IInv, NEW m \in Muds, NEW C \in SUBSET {e \in Ours(m) : state[e] \in Open},
         DoClose(m, C), UNCHANGED <<flags, active, known, line, info, missed>>,
         login' \subseteq login, trouble' \in 0 .. MaxTrouble
  PROVE  IInv'
<1> USE DEF IInv
<1>1. /\ C \subseteq Ends /\ \A e \in C : At(e) = m /\ state[e] \in Open
      /\ state' = [e \in Ends |-> IF e \in C THEN "CLOSED" ELSE state[e]]
      /\ connection' = [x \in Entries |-> IF connection[x] \in C THEN NoEnd
                                          ELSE connection[x]]
      /\ unread' = unread \ C
  BY DEF DoClose, Closed, Dropped, Ours
<1>2. /\ reconnect' \in [Entries -> 0 .. MaxPending]
      /\ \A x \in Entries :
           /\ reconnect[x] > 0 => reconnect'[x] > 0
           /\ x[1] = m /\ Reconnects(m, x[2]) /\ (\E e \in C : info[e] = x[2])
                => reconnect'[x] > 0
           /\ reconnect'[x] > 0 =>
                reconnect[x] > 0 \/ (x[1] = m /\ \E e \in C : info[e] = x[2])
  <2>1. reconnect \in [Entries -> 0 .. MaxPending]
    BY DEF TypeOK
  <2>2. QED
    BY <1>1, <2>1, SetUp, Retries DEF DoClose
<1>3. \A e \in Ends : At(e)' = At(e)
  BY DEF At
<1>4. TypeOK'
  <2>1. state' \in [Ends -> States] /\ connection' \in [Entries -> Ends \cup {NoEnd}]
    BY <1>1 DEF TypeOK, States
  <2>2. unread' \subseteq {e \in Ends : state'[e] \in Open \cup {"backlog"}}
    BY <1>1 DEF TypeOK
  <2>3. login' \subseteq {e \in Ends : state'[e] \in Open \cup {"CLOSED"}}
    BY <1>1 DEF TypeOK
  <2>4. \A s \in Sockets : /\ (state'[<<s, "client">>] = "free") = (state'[<<s, "server">>] = "free")
                           /\ (line'[s].from = None) = (state'[<<s, "client">>] = "free")
    <3>1. \A e \in Ends : state'[e] = "free" <=> state[e] = "free"
      BY <1>1 DEF Open
    <3>2. \A s \in Sockets : <<s, "client">> \in Ends /\ <<s, "server">> \in Ends
      BY DEF Ends, Roles
    <3>3. QED
      BY <3>1, <3>2 DEF TypeOK
  <2>5. QED
    BY <1>2, <2>1, <2>2, <2>3, <2>4 DEF TypeOK
<1>5. EndsFit'
  BY <1>1, <1>3 DEF EndsFit, Open
<1>6. NoneOfItself'
  BY DEF NoneOfItself
<1>7. OneEndEach'
  <2>1. ASSUME NEW k \in Muds, NEW n \in Muds, NEW e \in Ends
        PROVE  connection'[<<k, n>>] = e <=>
                 At(e)' = k /\ info'[e] = n /\ state'[e] = "CONNECTED"
    <3>1. <<k, n>> \in Entries
      BY DEF Entries
    <3>2. connection[<<k, n>>] = e <=> At(e) = k /\ info[e] = n /\ state[e] = "CONNECTED"
      BY DEF OneEndEach
    <3>3. QED
      BY <1>1, <1>3, <3>1, <3>2, NoEndIsNone
  <2>2. QED
    BY <2>1 DEF OneEndEach
<1>8. EventsRefer'
  <2>1. \A e \in C : info[e] # None => <<m, info[e]>> \in known /\ m \in active
    BY <1>1 DEF EventsRefer, EndsFit
  <2>2. \A x \in Entries : reconnect'[x] > 0 => x \in known' /\ x[1] \in active'
    <3> SUFFICES ASSUME NEW x \in Entries, reconnect'[x] > 0
                 PROVE  x \in known /\ x[1] \in active
      OBVIOUS
    <3>1. CASE reconnect[x] > 0
      BY <3>1 DEF EventsRefer
    <3>2. CASE x[1] = m /\ \E e \in C : info[e] = x[2]
      <4>1. x = <<m, x[2]>> /\ x[2] \in Muds
        BY <3>2 DEF Entries
      <4>2. x[2] # None
        BY <4>1, LinkAssumption DEF None
      <4>3. QED
        BY <2>1, <3>2, <4>1, <4>2
    <3>3. QED
      BY <1>2, <3>1, <3>2
  <2>3. QED
    BY <1>1, <1>3, <2>2 DEF EventsRefer, Open
<1>9. NeverForgotten'
  <2>1. ASSUME NEW k \in Muds, NEW n \in Muds, Wanted(k, n)
        PROVE  Served(k, n)'
    <3>1. <<k, n>> \in Entries /\ Served(k, n)
      BY <2>1, ForgottenIs DEF Entries
    <3>2. ASSUME NEW e \in C, At(e) = k, info[e] = n
          PROVE  reconnect'[<<k, n>>] > 0
      BY <1>1, <1>2, <2>1, <3>1, <3>2 DEF Wanted
    <3>3. CASE <<k, n>> \in missed \/ reconnect[<<k, n>>] > 0
      BY <1>2, <3>1, <3>3 DEF Served
    <3>4. CASE connection[<<k, n>>] # NoEnd
      <4>1. connection[<<k, n>>] \in Ends
        BY <3>1, <3>4 DEF TypeOK
      <4>2. At(connection[<<k, n>>]) = k /\ info[connection[<<k, n>>]] = n
        BY <4>1 DEF OneEndEach
      <4>3. QED
        BY <1>1, <3>1, <3>2, <3>4, <4>2 DEF Served
    <3>5. ASSUME NEW e \in Ends, At(e) = k, info[e] = n, state[e] \in {"CONNECTING", "WAIT2"}
          PROVE  Served(k, n)'
      <4>1. CASE e \in C
        BY <3>2, <3>5, <4>1 DEF Served
      <4>2. CASE e \notin C
        <5>1. At(e)' = k /\ info'[e] = n /\ state'[e] = state[e]
          BY <1>1, <1>3, <3>5, <4>2
        <5>2. QED
          BY <3>5, <5>1 DEF Served, HandshakeUnderWay
      <4>3. QED
        BY <4>1, <4>2
    <3>6. QED
      BY <3>1, <3>3, <3>4, <3>5 DEF Served, HandshakeUnderWay
  <2>2. QED
    BY <2>1, ForgottenIsPrime DEF Wanted, Reconnects
<1>10. QED
  BY <1>4, <1>5, <1>6, <1>7, <1>8, <1>9

(* A handshake that succeeds: the entry's former connection, which is not  *)
(* the other end of the same socket as no mud has an entry for itself,     *)
(* gives way to e.                                                         *)
LEMMA RegisteredKeeps ==
  ASSUME IInv, NEW m \in Muds, NEW n \in Muds, NEW e \in Ends,
         At(e) = m, <<m, n>> \in known, m \in active,
         state[e] = "WAIT1" \/ (state[e] = "WAIT2" /\ info[e] = n),
         Registered(e, m, n, Former(m, n)),
         unread' \subseteq (unread \ ({e} \cup Former(m, n))) \cup
                           {f \in Ends : state[f] \in Open /\ At(f) # m},
         UNCHANGED <<flags, active, known, line, missed, trouble>>
  PROVE  IInv'
<1> USE DEF IInv
<1> DEFINE old == connection[<<m, n>>]
<1>1. /\ <<m, n>> \in Entries /\ m # n /\ n # None
      /\ state[e] \in Open /\ state[e] # "CONNECTED"
  BY LinkAssumption DEF NoneOfItself, Entries, None, Open
<1>2. old \in Ends => At(old) = m /\ info[old] = n /\ state[old] = "CONNECTED"
  BY DEF OneEndEach
<1>3. old \in Ends \cup {NoEnd} /\ old # e
  BY <1>1, <1>2, NoEndIsNone DEF TypeOK
<1>4. state' = [f \in Ends |-> IF f = e THEN "CONNECTED"
                               ELSE IF f = old THEN "CLOSED" ELSE state[f]]
  BY <1>3, NoEndIsNone DEF Registered, Closed, Former
<1>5. /\ connection' \in [Entries -> Ends \cup {NoEnd}]
      /\ connection'[<<m, n>>] = e
      /\ \A x \in Entries : x # <<m, n>> => connection'[x] = connection[x]
  <2>1. \A x \in Entries : x # <<m, n>> /\ connection[x] \in Ends => connection[x] # old
    <3>1. \A x \in Entries : x = <<x[1], x[2]>> /\ x[1] \in Muds /\ x[2] \in Muds
      BY DEF Entries
    <3>2. \A x \in Entries : connection[x] \in Ends =>
             At(connection[x]) = x[1] /\ info[connection[x]] = x[2]
      BY <3>1 DEF OneEndEach
    <3>3. QED
      BY <1>2, <3>1, <3>2
  <2>2. Dropped(Former(m, n)) \in [Entries -> Ends \cup {NoEnd}]
    BY DEF Dropped, TypeOK
  <2>3. \A x \in Entries : x # <<m, n>> => Dropped(Former(m, n))[x] = connection[x]
    BY <2>1, NoEndIsNone DEF Dropped, Former, TypeOK
  <2>4. QED
    BY <1>1, <2>2, <2>3 DEF Registered
<1>6. info' \in [Ends -> Muds \cup {None}] /\ info'[e] = n
      /\ \A f \in Ends : f # e => info'[f] = info[f]
  BY DEF Registered, TypeOK
<1>7. /\ reconnect' \in [Entries -> 0 .. MaxPending] /\ reconnect'[<<m, n>>] = 0
      /\ \A x \in Entries : x # <<m, n>> => reconnect'[x] = reconnect[x]
  BY <1>1, LinkAssumption DEF Registered, TypeOK
<1>8. \A f \in Ends : At(f)' = At(f)
  BY DEF At
<1> HIDE DEF old
<1>9. TypeOK'
  <2>1. state' \in [Ends -> States]
    BY <1>4 DEF TypeOK, States, Open
  <2>2. unread' \subseteq {f \in Ends : state'[f] \in Open \cup {"backlog"}}
    <3>1. \A f \in unread' : f \in Ends /\ f # old /\ state[f] \in Open \cup {"backlog"}
      <4>1. \A f \in unread : f \in Ends /\ state[f] \in Open \cup {"backlog"}
        BY DEF TypeOK
      <4>2. old \in Ends => old \in Former(m, n)
        BY NoEndIsNone DEF Former, old
      <4>3. QED
        BY <1>2, <4>1, <4>2
    <3>2. QED
      BY <1>4, <3>1 DEF Open
  <2>3. login' \subseteq {f \in Ends : state'[f] \in Open \cup {"CLOSED"}}
    BY <1>4 DEF TypeOK, Registered, Open
  <2>4. \A s \in Sockets : /\ (state'[<<s, "client">>] = "free") = (state'[<<s, "server">>] = "free")
                           /\ (line'[s].from = None) = (state'[<<s, "client">>] = "free")
    <3>1. \A f \in Ends : state'[f] = "free" <=> state[f] = "free"
      BY <1>1, <1>2, <1>4 DEF Open
    <3>2. \A s \in Sockets : <<s, "client">> \in Ends /\ <<s, "server">> \in Ends
      BY DEF Ends, Roles
    <3>3. QED
      BY <3>1, <3>2 DEF TypeOK
  <2>5. QED
    BY <1>5, <1>6, <1>7, <2>1, <2>2, <2>3, <2>4 DEF TypeOK
<1>10. EndsFit'
  <2>1. \A f \in Ends : f # e /\ f # old => state'[f] = state[f] /\ info'[f] = info[f]
    BY <1>4, <1>6
  <2>2. old \in Ends => state'[old] = "CLOSED" /\ At(old) \in active
    BY <1>2, <1>3, <1>4
  <2>3. state'[e] = "CONNECTED" /\ info'[e] # None
    BY <1>1, <1>4, <1>6
  <2>4. QED
    BY <1>8, <2>1, <2>2, <2>3 DEF EndsFit
<1>11. NoneOfItself'
  BY DEF NoneOfItself
<1>12. OneEndEach'
  <2>1. ASSUME NEW k \in Muds, NEW l \in Muds, NEW f \in Ends
        PROVE  connection'[<<k, l>>] = f <=>
                 At(f)' = k /\ info'[f] = l /\ state'[f] = "CONNECTED"
    <3>1. <<k, l>> \in Entries
      BY DEF Entries
    <3>2. connection[<<k, l>>] = f <=> At(f) = k /\ info[f] = l /\ state[f] = "CONNECTED"
      BY DEF OneEndEach
    <3>3. CASE <<k, l>> = <<m, n>>
      <4>1. k = m /\ l = n
        BY <3>3
      <4>2. connection'[<<k, l>>] = e
        BY <1>5, <4>1
      <4>3. f # e => state'[f] # "CONNECTED" \/ ~(At(f) = k /\ info'[f] = l)
        <5> SUFFICES ASSUME f # e, f # old PROVE ~(At(f) = k /\ info[f] = l /\ state[f] = "CONNECTED")
          BY <1>4, <1>6
        <5>1. QED
          BY <3>2, <4>1 DEF old
      <4>4. QED
        BY <1>4, <1>6, <1>8, <4>1, <4>2, <4>3
    <3>4. CASE <<k, l>> # <<m, n>>
      <4>1. k # m \/ l # n
        BY <3>4
      <4>2. connection'[<<k, l>>] = connection[<<k, l>>]
        BY <1>5, <3>1, <3>4
      <4>3. CASE f = e
        BY <1>1, <1>6, <1>8, <3>2, <4>1, <4>2, <4>3
      <4>4. CASE f = old
        BY <1>2, <1>3, <1>4, <1>8, <3>2, <4>1, <4>2, <4>4
      <4>5. CASE f # e /\ f # old
        BY <1>4, <1>6, <1>8, <3>2, <4>2, <4>5
      <4>6. QED
        BY <4>3, <4>4, <4>5
    <3>5. QED
      BY <3>3, <3>4
  <2>2. QED
    BY <2>1 DEF OneEndEach
<1>13. EventsRefer'
  <2>1. \A x \in Entries : reconnect'[x] > 0 => reconnect[x] > 0
    BY <1>7
  <2>2. \A f \in Ends : state'[f] \in Open /\ info'[f] # None => <<At(f), info'[f]>> \in known
    BY <1>4, <1>6 DEF EventsRefer, Open
  <2>3. QED
    BY <1>8, <2>1, <2>2 DEF EventsRefer
<1>14. NeverForgotten'
  <2>1. ASSUME NEW k \in Muds, NEW l \in Muds, Wanted(k, l)
        PROVE  Served(k, l)'
    <3>1. <<k, l>> \in Entries /\ Served(k, l)
      BY <2>1, ForgottenIs DEF Entries
    <3>2. CASE <<k, l>> = <<m, n>>
      BY <1>3, <1>5, <3>2, NoEndIsNone DEF Served
    <3>3. CASE <<k, l>> # <<m, n>>
      <4>1. connection'[<<k, l>>] = connection[<<k, l>>] /\ reconnect'[<<k, l>>] = reconnect[<<k, l>>]
        BY <1>5, <1>7, <3>1, <3>3
      <4>2. HandshakeUnderWay(k, l) => HandshakeUnderWay(k, l)'
        <5>1. ASSUME NEW f \in Ends, At(f) = k, info[f] = l, state[f] \in {"CONNECTING", "WAIT2"}
              PROVE  At(f)' = k /\ info'[f] = l /\ state'[f] \in {"CONNECTING", "WAIT2"}
          BY <1>2, <1>4, <1>6, <1>8, <3>3, <5>1
        <5>2. QED
          BY <5>1 DEF HandshakeUnderWay
      <4>3. QED
        BY <3>1, <4>1, <4>2 DEF Served
    <3>4. QED
      BY <3>2, <3>3
  <2>2. QED
    BY <2>1, ForgottenIsPrime DEF Wanted, Reconnects
<1>15. QED
  BY <1>9, <1>10, <1>11, <1>12, <1>13, <1>14

LEMMA OpenIsSomewhere ==
  ASSUME IInv, NEW e \in Ends, state[e] \in Open
  PROVE  /\ At(e) \in Muds /\ At(e) \in active
         /\ {e} \in SUBSET {f \in Ours(At(e)) : state[f] \in Open}
  BY DEF IInv, TypeOK, EndsFit, Ours

LEMMA OtherSide ==
  ASSUME NEW e \in Ends
  PROVE  /\ Other(e) \in Ends
         /\ At(Other(e)) = IF e[2] = "client" THEN line[e[1]].to ELSE line[e[1]].from
  BY DEF Other, Ends, Roles, Peer, At

LEMMA ClientPasswordKeeps ==
  ASSUME IInv, NEW e \in Ends, ClientPassword(e)
  PROVE  IInv'
<1> DEFINE m == At(e)
           n == line[e[1]].from
<1>1. /\ state[e] = "WAIT1" /\ state[e] \in Open /\ e[2] = "server"
      /\ UNCHANGED <<flags, active, known, line, missed, trouble>>
  BY DEF ClientPassword, IInv, EndsFit, Open
<1>2. CASE <<m, n>> \in known /\ <<m, n>> \in Trusted /\ "DENY" \notin flags[<<m, n>>]
  <2>1. m \in Muds /\ n \in Muds /\ m \in active /\ m # n
    BY <1>1, <1>2, OpenIsSomewhere DEF IInv, TypeOK, Entries, NoneOfItself
  <2>2. Other(e) \in Ends /\ At(Other(e)) = n
    BY <1>1, OtherSide
  <2>3. /\ Registered(e, m, n, Former(m, n))
        /\ unread' = (unread \ ({e} \cup Former(m, n)))
                        \cup {f \in {Other(e)} : state[f] \in Open /\ ~line[e[1]].cut}
    BY <1>2 DEF ClientPassword
  <2>4. unread' \subseteq (unread \ ({e} \cup Former(m, n))) \cup
                            {f \in Ends : state[f] \in Open /\ At(f) # m}
    BY <2>1, <2>2, <2>3
  <2>5. QED
    BY <1>1, <1>2, <2>1, <2>3, <2>4, RegisteredKeeps
<1>3. CASE ~(<<m, n>> \in known /\ <<m, n>> \in Trusted /\ "DENY" \notin flags[<<m, n>>])
  <2>1. DoClose(m, {e}) /\ UNCHANGED <<info, login>>
    BY <1>3 DEF ClientPassword
  <2>2. trouble' \in 0 .. MaxTrouble
    BY <1>1 DEF IInv, TypeOK
  <2>3. QED
    BY <1>1, <2>1, <2>2, OpenIsSomewhere, DoCloseKeeps
<1>4. QED
  BY <1>2, <1>3

LEMMA ServerPasswordKeeps ==
  ASSUME IInv, NEW e \in Ends, ServerPassword(e)
  PROVE  IInv'
<1> DEFINE m == At(e)
           n == info[e]
<1>1. /\ state[e] = "WAIT2" /\ state[e] \in Open
      /\ UNCHANGED <<flags, active, known, line, missed, trouble>>
  BY DEF ServerPassword, Open
<1>2. CASE <<m, n>> \in known /\ <<m, n>> \in Trusted
  <2>1. m \in Muds /\ n \in Muds /\ m \in active
    BY <1>1, <1>2, OpenIsSomewhere DEF IInv, TypeOK, Entries
  <2>2. /\ Registered(e, m, n, Former(m, n))
        /\ unread' = unread \ ({e} \cup Former(m, n))
    BY <1>2 DEF ServerPassword
  <2>3. QED
    BY <1>1, <1>2, <2>1, <2>2, RegisteredKeeps
<1>3. CASE ~(<<m, n>> \in known /\ <<m, n>> \in Trusted)
  <2>1. DoClose(m, {e}) /\ UNCHANGED <<info, login>>
    BY <1>3 DEF ServerPassword
  <2>2. trouble' \in 0 .. MaxTrouble
    BY <1>1 DEF IInv, TypeOK
  <2>3. QED
    BY <1>1, <2>1, <2>2, OpenIsSomewhere, DoCloseKeeps
<1>4. QED
  BY <1>2, <1>3

LEMMA DoReadEofKeeps ==
  ASSUME IInv, NEW e \in Ends, DoReadEof(e)
  PROVE  IInv'
<1>1. state[e] \in Open /\ trouble' \in 0 .. MaxTrouble
  BY DEF DoReadEof, IInv, TypeOK
<1>2. QED
  BY <1>1, OpenIsSomewhere, DoCloseKeeps DEF DoReadEof

LEMMA CostBounded == ASSUME TypeOK, Cost PROVE trouble' \in 0 .. MaxTrouble
  BY LinkAssumption DEF TypeOK, Cost

LEMMA LoginTimeoutKeeps ==
  ASSUME IInv, NEW e \in Ends, LoginTimeout(e)
  PROVE  IInv'
<1>1. /\ login' \subseteq login /\ e \in login /\ trouble' \in 0 .. MaxTrouble
      /\ UNCHANGED <<flags, active, known, line, info, missed>>
  BY CostBounded DEF LoginTimeout, IInv
<1>2. CASE state[e] = "CLOSED"
  <2>1. UNCHANGED <<state, connection, reconnect, unread>>
    BY <1>2 DEF LoginTimeout
  <2>2. TypeOK'
    BY <1>1, <2>1 DEF IInv, TypeOK
  <2>3. QED
    BY <1>1, <2>1, <2>2 DEF IInv, EndsFit, NoneOfItself, OneEndEach, EventsRefer,
                            NeverForgotten, At, Ours, Reconnects
<1>3. CASE state[e] # "CLOSED"
  <2>1. state[e] \in Open
    BY <1>1, <1>3 DEF IInv, TypeOK
  <2>2. DoClose(At(e), {e})
    BY <1>3 DEF LoginTimeout
  <2>3. QED
    BY <1>1, <2>1, <2>2, OpenIsSomewhere, DoCloseKeeps
<1>4. QED
  BY <1>2, <1>3

LEMMA ImcDisconnectKeeps ==
  ASSUME IInv, NEW m \in Muds, NEW n \in Muds, ImcDisconnect(m, n)
  PROVE  IInv'
<1>1. OpenFor(m, n) \in SUBSET {e \in Ours(m) : state[e] \in Open}
  BY DEF OpenFor
<1>2. trouble' \in 0 .. MaxTrouble
  BY CostBounded DEF ImcDisconnect, IInv
<1>3. QED
  BY <1>1, <1>2, DoCloseKeeps DEF ImcDisconnect
-----------------------------------------------------------------------------
(* Steps that leave every relation as it is: what they owe.                *)
LEMMA QuietKeeps ==
  ASSUME IInv, TypeOK', EndsFit', UNCHANGED <<flags, known, connection>>,
         \A e \in Ends : state'[e] = "CONNECTED" <=> state[e] = "CONNECTED",
         \A e \in Ends : state[e] = "CONNECTED" => At(e)' = At(e) /\ info'[e] = info[e],
         \A e \in Ends : state'[e] \in Open /\ info'[e] # None => <<At(e)', info'[e]>> \in known,
         \A x \in Entries : reconnect'[x] > 0 => x \in known /\ x[1] \in active',
         \A k, n \in Muds : Wanted(k, n)' => Served(k, n)'
  PROVE  IInv'
<1>1. NoneOfItself'
  BY DEF IInv, NoneOfItself
<1>2. OneEndEach'
  <2>1. ASSUME NEW k \in Muds, NEW n \in Muds, NEW e \in Ends
        PROVE  connection'[<<k, n>>] = e <=>
                 At(e)' = k /\ info'[e] = n /\ state'[e] = "CONNECTED"
    BY DEF IInv, OneEndEach
  <2>2. QED
    BY <2>1 DEF OneEndEach
<1>3. EventsRefer'
  BY DEF EventsRefer
<1>4. NeverForgotten'
  BY ForgottenIsPrime
<1>5. QED
  BY <1>1, <1>2, <1>3, <1>4 DEF IInv

LEMMA StillUnderWay ==
  ASSUME \A e \in Ends : state[e] \in {"CONNECTING", "WAIT2"} =>
           At(e)' = At(e) /\ info'[e] = info[e] /\ state'[e] \in {"CONNECTING", "WAIT2"},
         NEW k, NEW n, HandshakeUnderWay(k, n)
  PROVE  HandshakeUnderWay(k, n)'
<1>1. PICK e \in Ends : At(e) = k /\ info[e] = n /\ state[e] \in {"CONNECTING", "WAIT2"}
  BY DEF HandshakeUnderWay
<1>2. At(e)' = k /\ info'[e] = n /\ state'[e] \in {"CONNECTING", "WAIT2"}
  BY <1>1
<1>3. QED
  BY <1>2 DEF HandshakeUnderWay

LEMMA DoAcceptKeeps ==
  ASSUME IInv, NEW e \in Ends, DoAccept(e)
  PROVE  IInv'
<1> USE DEF IInv
<1>1. /\ state[e] = "backlog" /\ At(e) \in active /\ info[e] = None
      /\ state' = [f \in Ends |-> IF f = e THEN "WAIT1" ELSE state[f]]
      /\ UNCHANGED <<flags, active, known, line, info, unread, connection, reconnect, missed, trouble>>
      /\ login' = login \cup {e}
  BY DEF DoAccept, TypeOK, EndsFit
<1>2. \A f \in Ends : At(f)' = At(f)
  BY <1>1 DEF At
<1>3. TypeOK'
  <2>1. state' \in [Ends -> States]
    BY <1>1 DEF TypeOK, States, Open
  <2>2. /\ unread' \subseteq {f \in Ends : state'[f] \in Open \cup {"backlog"}}
        /\ login' \subseteq {f \in Ends : state'[f] \in Open \cup {"CLOSED"}}
    BY <1>1 DEF TypeOK, Open
  <2>3. \A s \in Sockets : /\ (state'[<<s, "client">>] = "free") = (state'[<<s, "server">>] = "free")
                           /\ (line'[s].from = None) = (state'[<<s, "client">>] = "free")
    <3>1. \A f \in Ends : state'[f] = "free" <=> state[f] = "free"
      BY <1>1
    <3>2. \A s \in Sockets : <<s, "client">> \in Ends /\ <<s, "server">> \in Ends
      BY DEF Ends, Roles
    <3>3. QED
      BY <1>1, <3>1, <3>2 DEF TypeOK
  <2>4. QED
    BY <1>1, <2>1, <2>2, <2>3 DEF TypeOK
<1>4. EndsFit'
  BY <1>1, <1>2 DEF EndsFit
<1>5. \A k, n \in Muds : Wanted(k, n)' => Served(k, n)'
  <2>1. \A k, n \in Muds : HandshakeUnderWay(k, n) => HandshakeUnderWay(k, n)'
    BY <1>1, <1>2, StillUnderWay
  <2>2. QED
    BY <1>1, <2>1, ForgottenIs DEF Wanted, Served, Reconnects
<1>6. QED
  <2>1. \A f \in Ends : state'[f] \in Open /\ info'[f] # None => <<At(f)', info'[f]>> \in known
    BY <1>1, <1>2 DEF EventsRefer
  <2>2. \A x \in Entries : reconnect'[x] > 0 => x \in known /\ x[1] \in active'
    BY <1>1 DEF EventsRefer
  <2>3. QED
    BY <1>1, <1>2, <1>3, <1>4, <1>5, <2>1, <2>2, QuietKeeps

LEMMA DoWriteKeeps ==
  ASSUME IInv, NEW e \in Ends, DoWrite(e)
  PROVE  IInv'
<1> USE DEF IInv
<1>1. /\ state[e] = "CONNECTING"
      /\ state' = [f \in Ends |-> IF f = e THEN "WAIT2" ELSE state[f]]
      /\ UNCHANGED <<flags, active, known, line, info, connection, login, reconnect, missed, trouble>>
      /\ unread' \subseteq unread \cup {f \in {Other(e)} : state[f] \in Open \cup {"backlog"}}
  BY DEF DoWrite, TypeOK
<1>2. \A f \in Ends : At(f)' = At(f)
  BY <1>1 DEF At
<1>3. TypeOK'
  <2>1. state' \in [Ends -> States]
    BY <1>1 DEF TypeOK, States, Open
  <2>2. unread' \subseteq {f \in Ends : state'[f] \in Open \cup {"backlog"}}
    <3>1. \A f \in unread' : f \in Ends /\ state[f] \in Open \cup {"backlog"}
      BY <1>1, OtherSide DEF TypeOK
    <3>2. QED
      BY <1>1, <3>1 DEF Open
  <2>3. login' \subseteq {f \in Ends : state'[f] \in Open \cup {"CLOSED"}}
    BY <1>1 DEF TypeOK, Open
  <2>4. \A s \in Sockets : /\ (state'[<<s, "client">>] = "free") = (state'[<<s, "server">>] = "free")
                           /\ (line'[s].from = None) = (state'[<<s, "client">>] = "free")
    <3>1. \A f \in Ends : state'[f] = "free" <=> state[f] = "free"
      BY <1>1
    <3>2. \A s \in Sockets : <<s, "client">> \in Ends /\ <<s, "server">> \in Ends
      BY DEF Ends, Roles
    <3>3. QED
      BY <1>1, <3>1, <3>2 DEF TypeOK
  <2>5. QED
    BY <1>1, <2>1, <2>2, <2>3, <2>4 DEF TypeOK
<1>4. EndsFit'
  BY <1>1, <1>2 DEF EndsFit, Open
<1>5. \A k, n \in Muds : Wanted(k, n)' => Served(k, n)'
  <2>1. \A k, n \in Muds : HandshakeUnderWay(k, n) => HandshakeUnderWay(k, n)'
    BY <1>1, <1>2, StillUnderWay
  <2>2. QED
    BY <1>1, <2>1, ForgottenIs DEF Wanted, Served, Reconnects
<1>6. QED
  <2>1. \A f \in Ends : state'[f] \in Open /\ info'[f] # None => <<At(f)', info'[f]>> \in known
    BY <1>1, <1>2 DEF EventsRefer, Open
  <2>2. \A x \in Entries : reconnect'[x] > 0 => x \in known /\ x[1] \in active'
    BY <1>1 DEF EventsRefer
  <2>3. QED
    BY <1>1, <1>2, <1>3, <1>4, <1>5, <2>1, <2>2, QuietKeeps

LEMMA CutKeeps ==
  ASSUME IInv, NEW s \in Sockets, Cut(s)
  PROVE  IInv'
<1> USE DEF IInv
<1>1. /\ UNCHANGED <<flags, active, known, state, info, unread, connection, login, reconnect, missed>>
      /\ trouble' \in 0 .. MaxTrouble
      /\ line' \in [Sockets -> [from : Muds \cup {None}, to : Muds \cup {None}, cut : BOOLEAN]]
      /\ \A t \in Sockets : line'[t].from = line[t].from /\ line'[t].to = line[t].to
  BY CostBounded DEF Cut, TypeOK
<1>2. \A f \in Ends : At(f)' = At(f)
  BY <1>1 DEF At, Ends
<1>3. TypeOK'
  BY <1>1 DEF TypeOK
<1>4. EndsFit'
  BY <1>1, <1>2 DEF EndsFit
<1>5. \A k, n \in Muds : Wanted(k, n)' => Served(k, n)'
  <2>1. \A k, n \in Muds : HandshakeUnderWay(k, n) => HandshakeUnderWay(k, n)'
    BY <1>1, <1>2, StillUnderWay
  <2>2. QED
    BY <1>1, <2>1, ForgottenIs DEF Wanted, Served, Reconnects
<1>6. QED
  <2>1. \A f \in Ends : state'[f] \in Open /\ info'[f] # None => <<At(f)', info'[f]>> \in known
    BY <1>1, <1>2 DEF EventsRefer
  <2>2. \A x \in Entries : reconnect'[x] > 0 => x \in known /\ x[1] \in active'
    BY <1>1 DEF EventsRefer
  <2>3. QED
    BY <1>1, <1>2, <1>3, <1>4, <1>5, <2>1, <2>2, QuietKeeps
-----------------------------------------------------------------------------
(* Calling: the sockets used were free, so nothing referred to them.       *)
LEMMA Freeness ==
  ASSUME TypeOK, NEW e \in Ends
  PROVE  /\ e[1] \in Sockets /\ e[2] \in Roles
         /\ state[e] = "free" <=> state[<<e[1], "client">>] = "free"
         /\ state[e] = "free" <=> line[e[1]].from = None
<1>1. e = <<e[1], e[2]>> /\ e[1] \in Sockets /\ e[2] \in Roles
  BY DEF Ends
<1>2. e = <<e[1], "client">> \/ e = <<e[1], "server">>
  BY <1>1 DEF Roles
<1>3. /\ (state[<<e[1], "client">>] = "free") = (state[<<e[1], "server">>] = "free")
      /\ (line[e[1]].from = None) = (state[<<e[1], "client">>] = "free")
  BY <1>1 DEF TypeOK
<1>4. QED
  BY <1>1, <1>2, <1>3

LEMMA ConnectTo ==
  ASSUME IInv, NEW m \in Muds, m \in active', active \subseteq active', active' \subseteq Muds,
         NEW S \in SUBSET Sockets, NEW calls \in [S -> Muds],
         \A s \in S : <<m, calls[s]>> \in known,
         ImcConnectTo(m, calls), UNCHANGED <<flags, known, unread, connection>>,
         reconnect' \in [Entries -> 0 .. MaxPending],
         \A x \in Entries : reconnect'[x] > 0 => x \in known /\ x[1] \in active',
         missed' \subseteq Entries, trouble' \in 0 .. MaxTrouble
  PROVE  /\ TypeOK' /\ EndsFit'
         /\ \A e \in Ends : state'[e] = "CONNECTED" <=> state[e] = "CONNECTED"
         /\ \A e \in Ends : state[e] = "CONNECTED" => At(e)' = At(e) /\ info'[e] = info[e]
         /\ \A e \in Ends : state'[e] \in Open /\ info'[e] # None => <<At(e)', info'[e]>> \in known
         /\ \A k, n : HandshakeUnderWay(k, n) => HandshakeUnderWay(k, n)'
         /\ \A s \in S : HandshakeUnderWay(m, calls[s])'
<1> USE DEF IInv
<1>1. /\ DOMAIN calls = S
      /\ m # None /\ \A s \in S : calls[s] \in Muds /\ calls[s] # None
  BY LinkAssumption DEF None
<1>2. \A e \in Ends : e[1] \in S => state[e] = "free"
  BY <1>1, Freeness DEF ImcConnectTo
<1>3. \A e \in Ends : e[1] \notin S =>
        state'[e] = state[e] /\ info'[e] = info[e] /\ line'[e[1]] = line[e[1]] /\ At(e)' = At(e)
  BY <1>1, Freeness DEF ImcConnectTo, At
<1>4. \A s \in S : line'[s].from = m /\ line'[s].to = calls[s]
  BY <1>1 DEF ImcConnectTo
<1>5. \A e \in Ends : e[1] \in S =>
        \/ e[2] = "client" /\ state'[e] = "CONNECTING" /\ info'[e] = calls[e[1]] /\ At(e)' = m
        \/ e[2] = "server" /\ state'[e] \in {"backlog", "gone"} /\ info'[e] = None
                           /\ At(e)' = calls[e[1]]
  BY <1>1, <1>4, Freeness DEF ImcConnectTo, At, Roles
<1>6. TypeOK'
  <2>1. state' \in [Ends -> States] /\ info' \in [Ends -> Muds \cup {None}]
    <3>1. \A e \in Ends : state'[e] \in States /\ info'[e] \in Muds \cup {None}
      BY <1>1, <1>3, <1>5, Freeness DEF TypeOK, States, Open
    <3>2. /\ state' = [e \in Ends |-> state'[e]]
          /\ info' = [e \in Ends |-> info'[e]]
      BY DEF ImcConnectTo
    <3>3. QED
      BY <3>1, <3>2
  <2>2. line' \in [Sockets -> [from : Muds \cup {None}, to : Muds \cup {None}, cut : BOOLEAN]]
    <3>1. \A s \in Sockets : IF s \in S
            THEN [from |-> m, to |-> calls[s], cut |-> calls[s] \notin active]
                   \in [from : Muds \cup {None}, to : Muds \cup {None}, cut : BOOLEAN]
            ELSE line[s] \in [from : Muds \cup {None}, to : Muds \cup {None}, cut : BOOLEAN]
      BY <1>1 DEF TypeOK
    <3>2. QED
      BY <1>1, <3>1 DEF ImcConnectTo
  <2>3. unread' \subseteq {e \in Ends : state'[e] \in Open \cup {"backlog"}}
    <3>1. \A e \in unread : e \in Ends /\ state[e] \in Open \cup {"backlog"}
      BY DEF TypeOK
    <3>2. QED
      BY <1>2, <1>3, <3>1 DEF Open
  <2>4. login' \subseteq {e \in Ends : state'[e] \in Open \cup {"CLOSED"}}
    <3>1. \A e \in login : e \in Ends /\ state[e] \in Open \cup {"CLOSED"}
      BY DEF TypeOK
    <3>2. \A e \in S \X {"client"} : e \in Ends /\ e[1] \in S /\ e[2] = "client"
      BY DEF Ends, Roles
    <3>3. \A e \in login' : e \in login \/ e \in S \X {"client"}
      BY <1>1 DEF ImcConnectTo
    <3>4. QED
      BY <1>2, <1>3, <1>5, <3>1, <3>2, <3>3 DEF Open
  <2>5. \A s \in Sockets : /\ (state'[<<s, "client">>] = "free") = (state'[<<s, "server">>] = "free")
                           /\ (line'[s].from = None) = (state'[<<s, "client">>] = "free")
    <3>1. \A s \in Sockets : <<s, "client">> \in Ends /\ <<s, "server">> \in Ends
      BY DEF Ends, Roles
    <3> SUFFICES ASSUME NEW s \in Sockets
                 PROVE  /\ (state'[<<s, "client">>] = "free") = (state'[<<s, "server">>] = "free")
                        /\ (line'[s].from = None) = (state'[<<s, "client">>] = "free")
      OBVIOUS
    <3>2. CASE s \in S
      BY <1>1, <1>4, <1>5, <3>1, <3>2
    <3>3. CASE s \notin S
      BY <1>3, <3>1, <3>3 DEF TypeOK
    <3>4. QED
      BY <3>2, <3>3
  <2>6. QED
    BY <2>1, <2>2, <2>3, <2>4, <2>5 DEF TypeOK
<1>7. EndsFit'
  <2>1. \A s \in Sockets : line'[s].from = None <=> line'[s].to = None
    BY <1>1, <1>4 DEF EndsFit, ImcConnectTo
  <2>2. ASSUME NEW e \in Ends
        PROVE  /\ state'[e] \in {"CONNECTING", "WAIT2"} => e[2] = "client"
               /\ state'[e] \in {"WAIT1", "backlog"} => e[2] = "server" /\ info'[e] = None
               /\ state'[e] \in {"CONNECTING", "WAIT2", "CONNECTED"} => info'[e] # None
               /\ state'[e] \in Open \cup {"CLOSED"} => At(e)' \in active'
    <3>1. CASE e[1] \in S
      BY <1>1, <1>5, <3>1 DEF Open
    <3>2. CASE e[1] \notin S
      BY <1>3, <3>2 DEF EndsFit
    <3>3. QED
      BY <3>1, <3>2
  <2>3. QED
    BY <2>1, <2>2 DEF EndsFit
<1>8. \A e \in Ends : /\ state'[e] = "CONNECTED" <=> state[e] = "CONNECTED"
                      /\ state[e] = "CONNECTED" => At(e)' = At(e) /\ info'[e] = info[e]
  BY <1>2, <1>3, <1>5
<1>9. \A e \in Ends : state'[e] \in Open /\ info'[e] # None => <<At(e)', info'[e]>> \in known
  <2> SUFFICES ASSUME NEW e \in Ends, state'[e] \in Open, info'[e] # None
               PROVE  <<At(e)', info'[e]>> \in known
    OBVIOUS
  <2>1. CASE e[1] \in S
    BY <1>5, <2>1 DEF Open
  <2>2. CASE e[1] \notin S
    BY <1>3, <2>2 DEF EventsRefer
  <2>3. QED
    BY <2>1, <2>2
<1>10. \A k, n : HandshakeUnderWay(k, n) => HandshakeUnderWay(k, n)'
  BY <1>2, <1>3, StillUnderWay
<1>11. \A s \in S : HandshakeUnderWay(m, calls[s])'
  <2>1. \A s \in S : <<s, "client">> \in Ends
    BY DEF Ends, Roles
  <2>2. \A s \in S : LET e == <<s, "client">> IN
          At(e)' = m /\ info'[e] = calls[s] /\ state'[e] = "CONNECTING"
    BY <1>5, <2>1
  <2>3. QED
    BY <2>1, <2>2 DEF HandshakeUnderWay
<1>12. QED
  BY <1>6, <1>7, <1>8, <1>9, <1>10, <1>11

LEMMA CallIs ==
  ASSUME NEW m \in Muds, NEW n \in Muds, Call(m, n)
  PROVE  \E s \in Sockets : \E calls \in [{s} -> Muds] :
           calls[s] = n /\ ImcConnectTo(m, calls)
  BY DEF Call

LEMMA RConnectKeeps ==
  ASSUME IInv, NEW m \in Muds, NEW n \in Muds, RConnect(m, n)
  PROVE  IInv'
<1> USE DEF IInv
<1>1. /\ m \in active /\ <<m, n>> \in known /\ trouble' \in 0 .. MaxTrouble
      /\ UNCHANGED <<flags, active, known, unread, connection, reconnect, missed>>
  BY CostBounded DEF RConnect, MayConnect
<1>2. PICK s \in Sockets : \E calls \in [{s} -> Muds] : calls[s] = n /\ ImcConnectTo(m, calls)
  BY CallIs DEF RConnect
<1>3. PICK calls \in [{s} -> Muds] : calls[s] = n /\ ImcConnectTo(m, calls)
  BY <1>2
<1>4. /\ {s} \in SUBSET Sockets
      /\ active' \subseteq Muds /\ missed' \subseteq Entries
      /\ reconnect' \in [Entries -> 0 .. MaxPending]
      /\ \A x \in Entries : reconnect'[x] > 0 => x \in known /\ x[1] \in active'
  BY <1>1 DEF TypeOK, EventsRefer
<1>5. /\ TypeOK' /\ EndsFit'
      /\ \A e \in Ends : state'[e] = "CONNECTED" <=> state[e] = "CONNECTED"
      /\ \A e \in Ends : state[e] = "CONNECTED" => At(e)' = At(e) /\ info'[e] = info[e]
      /\ \A e \in Ends : state'[e] \in Open /\ info'[e] # None => <<At(e)', info'[e]>> \in known
      /\ \A k, l : HandshakeUnderWay(k, l) => HandshakeUnderWay(k, l)'
  BY <1>1, <1>3, <1>4, ConnectTo
<1>6. \A k, l \in Muds : Wanted(k, l)' => Served(k, l)'
  BY <1>1, <1>5, ForgottenIs DEF Wanted, Served, Reconnects
<1>7. QED
  BY <1>1, <1>4, <1>5, <1>6, QuietKeeps

LEMMA ReconnectKeeps ==
  ASSUME IInv, NEW m \in Muds, NEW n \in Muds, Reconnect(m, n)
  PROVE  IInv'
<1> USE DEF IInv
<1> DEFINE x == <<m, n>>
           fired == [reconnect EXCEPT ![x] = @ - 1]
<1>1. /\ x \in Entries /\ reconnect[x] > 0 /\ x \in known /\ m \in active
      /\ UNCHANGED <<flags, active, known, unread, connection, missed>>
  BY DEF Reconnect, EventsRefer, Entries
<1>2. /\ fired \in [Entries -> 0 .. MaxPending]
      /\ \A y \in Entries : y # x => fired[y] = reconnect[y]
  BY <1>1, LinkAssumption DEF TypeOK
<1>3. \A y \in Entries : fired[y] > 0 => y \in known /\ y[1] \in active
  BY <1>1, <1>2 DEF EventsRefer
<1> HIDE DEF fired
<1>4. CASE /\ MayConnect(m, n) /\ Call(m, n) /\ reconnect' = fired
           /\ IF HandshakeUnderWay(m, n) THEN Cost ELSE UNCHANGED trouble
  <2>1. trouble' \in 0 .. MaxTrouble
    BY <1>4, CostBounded DEF TypeOK
  <2>2. PICK s \in Sockets : \E calls \in [{s} -> Muds] : calls[s] = n /\ ImcConnectTo(m, calls)
    BY <1>4, CallIs
  <2>3. PICK calls \in [{s} -> Muds] : calls[s] = n /\ ImcConnectTo(m, calls)
    BY <2>2
  <2>4. /\ {s} \in SUBSET Sockets
        /\ active' \subseteq Muds /\ missed' \subseteq Entries
        /\ reconnect' \in [Entries -> 0 .. MaxPending]
        /\ \A y \in Entries : reconnect'[y] > 0 => y \in known /\ y[1] \in active'
    BY <1>1, <1>2, <1>3, <1>4 DEF TypeOK
  <2>5. /\ TypeOK' /\ EndsFit'
        /\ \A e \in Ends : state'[e] = "CONNECTED" <=> state[e] = "CONNECTED"
        /\ \A e \in Ends : state[e] = "CONNECTED" => At(e)' = At(e) /\ info'[e] = info[e]
        /\ \A e \in Ends : state'[e] \in Open /\ info'[e] # None => <<At(e)', info'[e]>> \in known
        /\ \A k, l : HandshakeUnderWay(k, l) => HandshakeUnderWay(k, l)'
        /\ HandshakeUnderWay(m, n)'
    BY <1>1, <2>1, <2>3, <2>4, ConnectTo
  <2>6. \A k, l \in Muds : Wanted(k, l)' => Served(k, l)'
    <3> SUFFICES ASSUME NEW k \in Muds, NEW l \in Muds, Wanted(k, l)' PROVE Served(k, l)'
      OBVIOUS
    <3>1. CASE <<k, l>> = x
      BY <2>5, <3>1 DEF Served
    <3>2. CASE <<k, l>> # x
      <4>1. reconnect'[<<k, l>>] = reconnect[<<k, l>>]
        BY <1>2, <1>4, <3>2 DEF Entries
      <4>2. Served(k, l)
        BY <1>1, ForgottenIs DEF Wanted, Reconnects
      <4>3. QED
        BY <1>1, <2>5, <4>1, <4>2 DEF Served
    <3>3. QED
      BY <3>1, <3>2
  <2>7. QED
    BY <1>1, <2>4, <2>5, <2>6, QuietKeeps
<1>5. ASSUME UNCHANGED <<line, state, info, login>>, trouble' \in 0 .. MaxTrouble,
             reconnect' \in [Entries -> 0 .. MaxPending],
             \A y \in Entries : reconnect'[y] > 0 => y \in known /\ y[1] \in active,
             \A y \in Entries : y # x /\ reconnect[y] > 0 => reconnect'[y] > 0,
             connection[x] # NoEnd \/ reconnect'[x] > 0
      PROVE  IInv'
  <2>1. TypeOK'
    BY <1>1, <1>5 DEF TypeOK
  <2>2. \A e \in Ends : At(e)' = At(e)
    BY <1>5 DEF At
  <2>3. EndsFit'
    BY <1>1, <1>5, <2>2 DEF EndsFit
  <2>4. \A k, l \in Muds : HandshakeUnderWay(k, l) => HandshakeUnderWay(k, l)'
    BY <1>5, <2>2, StillUnderWay
  <2>5. \A k, l \in Muds : Wanted(k, l)' => Served(k, l)'
    <3> SUFFICES ASSUME NEW k \in Muds, NEW l \in Muds, Wanted(k, l)' PROVE Served(k, l)'
      OBVIOUS
    <3>1. Served(k, l) /\ <<k, l>> \in Entries
      BY <1>1, ForgottenIs DEF Wanted, Reconnects, Entries
    <3>2. QED
      BY <1>1, <1>5, <2>4, <3>1 DEF Served
  <2>6. \A e \in Ends : state'[e] \in Open /\ info'[e] # None => <<At(e)', info'[e]>> \in known
    BY <1>5, <2>2 DEF EventsRefer
  <2>7. QED
    BY <1>1, <1>5, <2>1, <2>2, <2>3, <2>5, <2>6, QuietKeeps
<1>6. CASE /\ Cost
           /\ reconnect' \in SetupReconnect(fired, [y \in Entries |-> IF y = x THEN 1 ELSE 0])
           /\ UNCHANGED <<line, state, info, login>>
  <2> DEFINE calls == [y \in Entries |-> IF y = x THEN 1 ELSE 0]
  <2>1. calls \in [Entries -> Nat] /\ calls[x] > 0 /\ \A y \in Entries : calls[y] > 0 => y = x
    BY <1>1
  <2> HIDE DEF calls
  <2>2. reconnect' \in SetupReconnect(fired, calls)
    BY <1>6 DEF calls
  <2>3. /\ reconnect' \in [Entries -> 0 .. MaxPending]
        /\ \A y \in Entries : /\ fired[y] > 0 => reconnect'[y] > 0
                              /\ calls[y] > 0 => reconnect'[y] > 0
                              /\ reconnect'[y] > 0 => fired[y] > 0 \/ calls[y] > 0
    BY <1>2, <2>1, <2>2, SetUp
  <2>4. trouble' \in 0 .. MaxTrouble
    BY <1>6, CostBounded
  <2>5. \A y \in Entries : reconnect'[y] > 0 => y \in known /\ y[1] \in active
    BY <1>1, <1>3, <2>1, <2>3
  <2>6. \A y \in Entries : y # x /\ reconnect[y] > 0 => reconnect'[y] > 0
    BY <1>2, <2>3
  <2>7. reconnect'[x] > 0
    BY <1>1, <2>1, <2>3
  <2>8. QED
    BY <1>5, <1>6, <2>3, <2>4, <2>5, <2>6, <2>7
<1>7. CASE connection[x] # NoEnd /\ reconnect' = fired /\ UNCHANGED <<line, state, info, login, trouble>>
  <2>1. trouble' \in 0 .. MaxTrouble
    BY <1>7 DEF TypeOK
  <2>2. QED
    BY <1>2, <1>3, <1>5, <1>7, <2>1
<1>8. QED
  BY <1>4, <1>6, <1>7 DEF Reconnect, fired

LEMMA ImcStartupKeeps ==
  ASSUME IInv, NEW m \in Muds, ImcStartup(m)
  PROVE  IInv'
<1> USE DEF IInv
<1>1. /\ active' = active \cup {m}
      /\ UNCHANGED <<flags, known, unread, connection, reconnect>>
  BY DEF ImcStartup
<1>2. PICK S \in SUBSET Sockets : \E calls \in [S -> ToCall(m)] :
        /\ ImcConnectTo(m, calls)
        /\ LET failed == ToCall(m) \ {calls[s] : s \in S}
           IN  /\ missed' = missed \cup ({m} \X failed)
               /\ IF failed = {} THEN UNCHANGED trouble ELSE Cost
  BY DEF ImcStartup
<1>3. PICK calls \in [S -> ToCall(m)] :
        /\ ImcConnectTo(m, calls)
        /\ LET failed == ToCall(m) \ {calls[s] : s \in S}
           IN  /\ missed' = missed \cup ({m} \X failed)
               /\ IF failed = {} THEN UNCHANGED trouble ELSE Cost
  BY <1>2
<1> DEFINE failed == ToCall(m) \ {calls[s] : s \in S}
<1>4. /\ missed' = missed \cup ({m} \X failed)
      /\ trouble' \in 0 .. MaxTrouble
  BY <1>3, CostBounded DEF TypeOK
<1>5. ToCall(m) \subseteq Muds /\ \A n \in ToCall(m) : <<m, n>> \in known
  BY DEF ToCall
<1>6. calls \in [S -> Muds] /\ \A s \in S : <<m, calls[s]>> \in known
  BY <1>5
<1>7. /\ m \in active' /\ active \subseteq active' /\ active' \subseteq Muds
      /\ missed' \subseteq Entries
      /\ reconnect' \in [Entries -> 0 .. MaxPending]
      /\ \A x \in Entries : reconnect'[x] > 0 => x \in known /\ x[1] \in active'
  <2>1. {m} \X failed \subseteq Entries
    BY <1>5 DEF Entries
  <2>2. QED
    BY <1>1, <1>4, <2>1 DEF TypeOK, EventsRefer
<1>8. /\ TypeOK' /\ EndsFit'
      /\ \A e \in Ends : state'[e] = "CONNECTED" <=> state[e] = "CONNECTED"
      /\ \A e \in Ends : state[e] = "CONNECTED" => At(e)' = At(e) /\ info'[e] = info[e]
      /\ \A e \in Ends : state'[e] \in Open /\ info'[e] # None => <<At(e)', info'[e]>> \in known
      /\ \A k, l : HandshakeUnderWay(k, l) => HandshakeUnderWay(k, l)'
      /\ \A s \in S : HandshakeUnderWay(m, calls[s])'
  BY <1>1, <1>3, <1>4, <1>6, <1>7, ConnectTo
<1>9. \A k, l \in Muds : Wanted(k, l)' => Served(k, l)'
  <2> SUFFICES ASSUME NEW k \in Muds, NEW l \in Muds, Wanted(k, l)' PROVE Served(k, l)'
    OBVIOUS
  <2>1. CASE k = m
    <3>1. l \in ToCall(m)
      BY <1>1, <2>1 DEF Wanted, ToCall, Reconnects
    <3>2. CASE l \in failed
      <4>1. <<k, l>> \in {m} \X failed
        BY <2>1, <3>2
      <4>2. QED
        BY <1>4, <4>1 DEF Served
    <3>3. CASE l \notin failed
      <4>1. PICK s \in S : calls[s] = l
        BY <3>1, <3>3
      <4>2. QED
        BY <1>8, <2>1, <4>1 DEF Served
    <3>4. QED
      BY <3>2, <3>3
  <2>2. CASE k # m
    <3>1. Wanted(k, l)
      BY <1>1, <2>2 DEF Wanted, Reconnects
    <3>2. Served(k, l)
      BY <3>1, ForgottenIs
    <3>3. QED
      BY <1>1, <1>4, <1>8, <3>2 DEF Served
  <2>3. QED
    BY <2>1, <2>2
<1>10. QED
  BY <1>1, <1>7, <1>8, <1>9, QuietKeeps
-----------------------------------------------------------------------------
(* Extracting: what nobody uses any more is forgotten, and a socket both   *)
(* ends of which are gone is free.                                         *)
LEMMA Extracting ==
  ASSUME TypeOK, EndsFit,
         NEW E \in SUBSET {e \in Ends : state[e] \in Open \cup {"CLOSED", "backlog"}},
         Extracted(E)
  PROVE  /\ state' \in [Ends -> States]
         /\ line' \in [Sockets -> [from : Muds \cup {None}, to : Muds \cup {None}, cut : BOOLEAN]]
         /\ info' \in [Ends -> Muds \cup {None}]
         /\ \A e \in Ends : e \notin E /\ state[e] \notin {"gone", "free"} =>
              state'[e] = state[e] /\ info'[e] = info[e] /\ At(e)' = At(e)
         /\ \A e \in Ends : e \in E \/ state[e] \in {"gone", "free"} =>
              state'[e] \in {"gone", "free"}
         /\ \A s \in Sockets : line'[s].from = None <=> line'[s].to = None
         /\ \A s \in Sockets :
              /\ (state'[<<s, "client">>] = "free") = (state'[<<s, "server">>] = "free")
              /\ (line'[s].from = None) = (state'[<<s, "client">>] = "free")
<1> DEFINE dead == {s \in Sockets : \A r \in Roles : <<s, r>> \in E \/ state[<<s, r>>] = "gone"}
           nobody == [from |-> None, to |-> None, cut |-> FALSE]
<1>1. /\ state' = [e \in Ends |-> IF e[1] \in dead THEN "free"
                                  ELSE IF e \in E THEN "gone" ELSE state[e]]
      /\ line' = [s \in Sockets |-> IF s \in dead THEN nobody ELSE line[s]]
      /\ info' = [e \in Ends |-> IF e \in E \/ e[1] \in dead THEN None ELSE info[e]]
  BY DEF Extracted
<1>2. \A e \in Ends : e[1] \in dead => e \in E \/ state[e] = "gone"
  <2>1. \A e \in Ends : e = <<e[1], e[2]>> /\ e[2] \in Roles
    BY DEF Ends
  <2>2. QED
    BY <2>1
<1>3. dead \subseteq Sockets
  OBVIOUS
<1> HIDE DEF dead
<1>4. state' \in [Ends -> States] /\ info' \in [Ends -> Muds \cup {None}]
  BY <1>1 DEF TypeOK, States
<1>5. nobody \in [from : Muds \cup {None}, to : Muds \cup {None}, cut : BOOLEAN]
  OBVIOUS
<1>6. nobody.from = None /\ nobody.to = None
  OBVIOUS
<1> HIDE DEF nobody
<1>7. line' \in [Sockets -> [from : Muds \cup {None}, to : Muds \cup {None}, cut : BOOLEAN]]
  BY <1>1, <1>5 DEF TypeOK
<1>8. \A e \in Ends : e \notin E /\ state[e] \notin {"gone", "free"} =>
        state'[e] = state[e] /\ info'[e] = info[e] /\ At(e)' = At(e)
  BY <1>1, <1>2, Freeness DEF At
<1>9. \A e \in Ends : e \in E \/ state[e] \in {"gone", "free"} => state'[e] \in {"gone", "free"}
  BY <1>1
<1>10. \A s \in Sockets : line'[s].from = None <=> line'[s].to = None
  BY <1>1, <1>6 DEF EndsFit
<1>11. \A s \in Sockets : /\ (state'[<<s, "client">>] = "free") = (state'[<<s, "server">>] = "free")
                          /\ (line'[s].from = None) = (state'[<<s, "client">>] = "free")
  <2> SUFFICES ASSUME NEW s \in Sockets
               PROVE  /\ (state'[<<s, "client">>] = "free") = (state'[<<s, "server">>] = "free")
                      /\ (line'[s].from = None) = (state'[<<s, "client">>] = "free")
    OBVIOUS
  <2>1. <<s, "client">> \in Ends /\ <<s, "server">> \in Ends
    BY DEF Ends, Roles
  <2>2. CASE s \in dead
    BY <1>1, <1>6, <2>1, <2>2
  <2>3. CASE s \notin dead
    <3>1. line'[s] = line[s]
      BY <1>1, <2>3
    <3>2. \A e \in {<<s, "client">>, <<s, "server">>} : state'[e] = "free" <=> state[e] = "free"
      BY <1>1, <2>1, <2>3 DEF Open
    <3>3. QED
      BY <3>1, <3>2 DEF TypeOK
  <2>4. QED
    BY <2>2, <2>3
<1>12. QED
  BY <1>4, <1>7, <1>8, <1>9, <1>10, <1>11

LEMMA ExtractConnectKeeps ==
  ASSUME IInv, NEW e \in Ends, ExtractConnect(e)
  PROVE  IInv'
<1> USE DEF IInv
<1>1. /\ state[e] = "CLOSED" /\ Extracted({e}) /\ login' = login \ {e}
      /\ UNCHANGED <<flags, active, known, unread, connection, reconnect, missed, trouble>>
  BY DEF ExtractConnect
<1>2. {e} \in SUBSET {f \in Ends : state[f] \in Open \cup {"CLOSED", "backlog"}}
  BY <1>1
<1>3. /\ state' \in [Ends -> States]
      /\ line' \in [Sockets -> [from : Muds \cup {None}, to : Muds \cup {None}, cut : BOOLEAN]]
      /\ info' \in [Ends -> Muds \cup {None}]
      /\ \A f \in Ends : f # e /\ state[f] \notin {"gone", "free"} =>
           state'[f] = state[f] /\ info'[f] = info[f] /\ At(f)' = At(f)
      /\ \A f \in Ends : f = e \/ state[f] \in {"gone", "free"} => state'[f] \in {"gone", "free"}
      /\ \A s \in Sockets : line'[s].from = None <=> line'[s].to = None
      /\ \A s \in Sockets :
           /\ (state'[<<s, "client">>] = "free") = (state'[<<s, "server">>] = "free")
           /\ (line'[s].from = None) = (state'[<<s, "client">>] = "free")
  BY <1>1, <1>2, Extracting
<1>4. TypeOK'
  <2>1. unread' \subseteq {f \in Ends : state'[f] \in Open \cup {"backlog"}}
    <3>1. \A f \in unread : f \in Ends /\ state[f] \in Open \cup {"backlog"}
      BY DEF TypeOK
    <3>2. QED
      BY <1>1, <1>3, <3>1 DEF Open
  <2>2. login' \subseteq {f \in Ends : state'[f] \in Open \cup {"CLOSED"}}
    <3>1. \A f \in login : f \in Ends /\ state[f] \in Open \cup {"CLOSED"}
      BY DEF TypeOK
    <3>2. QED
      BY <1>1, <1>3, <3>1 DEF Open
  <2>3. QED
    BY <1>1, <1>3, <2>1, <2>2 DEF TypeOK
<1>5. \A f \in Ends : state'[f] \notin {"gone", "free"} =>
        state'[f] = state[f] /\ info'[f] = info[f] /\ At(f)' = At(f)
  BY <1>3
<1>6. EndsFit'
  BY <1>1, <1>3, <1>5 DEF EndsFit, Open
<1>7. /\ \A f \in Ends : state'[f] = "CONNECTED" <=> state[f] = "CONNECTED"
      /\ \A f \in Ends : state[f] = "CONNECTED" => At(f)' = At(f) /\ info'[f] = info[f]
  BY <1>1, <1>3, <1>5
<1>8. \A f \in Ends : state'[f] \in Open /\ info'[f] # None => <<At(f)', info'[f]>> \in known
  BY <1>5 DEF EventsRefer, Open
<1>9. \A k, n \in Muds : Wanted(k, n)' => Served(k, n)'
  <2>1. \A k, n \in Muds : HandshakeUnderWay(k, n) => HandshakeUnderWay(k, n)'
    BY <1>1, <1>3, StillUnderWay
  <2>2. QED
    BY <1>1, <2>1, ForgottenIs DEF Wanted, Served, Reconnects
<1>10. \A x \in Entries : reconnect'[x] > 0 => x \in known /\ x[1] \in active'
  BY <1>1 DEF EventsRefer
<1>11. QED
  BY <1>1, <1>4, <1>6, <1>7, <1>8, <1>9, <1>10, QuietKeeps

LEMMA ImcShutdownKeeps ==
  ASSUME IInv, NEW m \in Muds, ImcShutdown(m)
  PROVE  IInv'
<1> USE DEF IInv
<1> DEFINE E == Ours(m) \cup {e \in Ends : At(e) = m /\ state[e] = "backlog"}
<1>1. /\ active' = active \ {m} /\ trouble' \in 0 .. MaxTrouble
      /\ Extracted(E)
      /\ connection' = [x \in Entries |-> IF x[1] = m THEN NoEnd ELSE connection[x]]
      /\ unread' = unread \ E
      /\ login' = login \ Ours(m)
      /\ reconnect' = [x \in Entries |-> IF x[1] = m THEN 0 ELSE reconnect[x]]
      /\ missed' = {x \in missed : x[1] # m}
      /\ UNCHANGED <<flags, known>>
  BY CostBounded DEF ImcShutdown
<1>2. \A e \in Ends : e \in E <=> At(e) = m /\ state[e] \in Open \cup {"CLOSED", "backlog"}
  BY DEF Ours
<1>3. E \in SUBSET {e \in Ends : state[e] \in Open \cup {"CLOSED", "backlog"}}
  BY DEF Ours
<1>4. \A e \in Ends : e \in E /\ state[e] # "backlog" => e \in Ours(m)
  BY DEF Ours, Open
<1> HIDE DEF E
<1>5. /\ state' \in [Ends -> States]
      /\ line' \in [Sockets -> [from : Muds \cup {None}, to : Muds \cup {None}, cut : BOOLEAN]]
      /\ info' \in [Ends -> Muds \cup {None}]
      /\ \A e \in Ends : e \notin E /\ state[e] \notin {"gone", "free"} =>
           state'[e] = state[e] /\ info'[e] = info[e] /\ At(e)' = At(e)
      /\ \A e \in Ends : e \in E \/ state[e] \in {"gone", "free"} => state'[e] \in {"gone", "free"}
      /\ \A s \in Sockets : line'[s].from = None <=> line'[s].to = None
      /\ \A s \in Sockets :
           /\ (state'[<<s, "client">>] = "free") = (state'[<<s, "server">>] = "free")
           /\ (line'[s].from = None) = (state'[<<s, "client">>] = "free")
  BY <1>1, <1>3, Extracting
<1>6. \A e \in Ends : state'[e] \notin {"gone", "free"} =>
        e \notin E /\ state'[e] = state[e] /\ info'[e] = info[e] /\ At(e)' = At(e)
  BY <1>5
<1>7. TypeOK'
  <2>1. unread' \subseteq {e \in Ends : state'[e] \in Open \cup {"backlog"}}
    <3>1. \A e \in unread : e \in Ends /\ state[e] \in Open \cup {"backlog"}
      BY DEF TypeOK
    <3>2. QED
      BY <1>1, <1>5, <3>1 DEF Open
  <2>2. login' \subseteq {e \in Ends : state'[e] \in Open \cup {"CLOSED"}}
    <3>1. \A e \in login : e \in Ends /\ state[e] \in Open \cup {"CLOSED"}
      BY DEF TypeOK
    <3>2. \A e \in login' : e \in login /\ e \notin E
      BY <1>1, <1>4, <3>1 DEF Open
    <3>3. QED
      BY <1>5, <3>1, <3>2 DEF Open
  <2>3. connection' \in [Entries -> Ends \cup {NoEnd}] /\ reconnect' \in [Entries -> 0 .. MaxPending]
    BY <1>1, LinkAssumption DEF TypeOK
  <2>4. QED
    BY <1>1, <1>5, <2>1, <2>2, <2>3 DEF TypeOK
<1>8. EndsFit'
  <2>1. \A e \in Ends : state'[e] \in Open \cup {"CLOSED"} => At(e)' \in active'
    BY <1>1, <1>2, <1>6 DEF EndsFit, Open
  <2>2. \A e \in Ends :
          /\ state'[e] \in {"CONNECTING", "WAIT2"} => e[2] = "client"
          /\ state'[e] \in {"WAIT1", "backlog"} => e[2] = "server" /\ info'[e] = None
          /\ state'[e] \in {"CONNECTING", "WAIT2", "CONNECTED"} => info'[e] # None
    BY <1>6 DEF EndsFit
  <2>3. QED
    BY <1>5, <2>1, <2>2 DEF EndsFit
<1>9. NoneOfItself'
  BY <1>1 DEF NoneOfItself
<1>10. OneEndEach'
  <2>1. ASSUME NEW k \in Muds, NEW n \in Muds, NEW e \in Ends
        PROVE  connection'[<<k, n>>] = e <=>
                 At(e)' = k /\ info'[e] = n /\ state'[e] = "CONNECTED"
    <3>1. <<k, n>> \in Entries
      BY DEF Entries
    <3>2. connection[<<k, n>>] = e <=> At(e) = k /\ info[e] = n /\ state[e] = "CONNECTED"
      BY DEF OneEndEach
    <3>3. connection'[<<k, n>>] = IF k = m THEN NoEnd ELSE connection[<<k, n>>]
      BY <1>1, <3>1
    <3>4. CASE k = m
      BY <1>2, <1>6, <3>3, <3>4, NoEndIsNone DEF Open
    <3>5. CASE k # m
      <4>1. e \in E => state'[e] # "CONNECTED" /\ At(e) # k
        BY <1>2, <1>5, <3>5
      <4>2. QED
        BY <1>5, <1>6, <3>2, <3>3, <3>5, <4>1
    <3>6. QED
      BY <3>4, <3>5
  <2>2. QED
    BY <2>1 DEF OneEndEach
<1>11. EventsRefer'
  <2>1. \A x \in Entries : reconnect'[x] > 0 => x \in known' /\ x[1] \in active'
    <3>1. \A x \in Entries : reconnect'[x] > 0 => x[1] # m /\ reconnect[x] > 0
      BY <1>1
    <3>2. \A x \in Entries : reconnect[x] > 0 => x \in known /\ x[1] \in active
      BY DEF EventsRefer
    <3>3. QED
      BY <1>1, <3>1, <3>2
  <2>2. \A e \in Ends : state'[e] \in Open /\ info'[e] # None => <<At(e)', info'[e]>> \in known'
    BY <1>1, <1>6 DEF EventsRefer, Open
  <2>3. QED
    BY <2>1, <2>2 DEF EventsRefer
<1>12. NeverForgotten'
  <2>1. ASSUME NEW k \in Muds, NEW n \in Muds, Wanted(k, n)'
        PROVE  Served(k, n)'
    <3>1. k # m /\ Wanted(k, n) /\ <<k, n>> \in Entries
      BY <1>1, <2>1 DEF Wanted, Reconnects, Entries
    <3>2. Served(k, n)
      BY <3>1, ForgottenIs
    <3>3. connection'[<<k, n>>] = connection[<<k, n>>] /\ reconnect'[<<k, n>>] = reconnect[<<k, n>>]
      BY <1>1, <3>1
    <3>4. <<k, n>> \in missed => <<k, n>> \in missed'
      BY <1>1, <3>1
    <3>5. HandshakeUnderWay(k, n) => HandshakeUnderWay(k, n)'
      <4>1. ASSUME NEW e \in Ends, At(e) = k, info[e] = n, state[e] \in {"CONNECTING", "WAIT2"}
            PROVE  At(e)' = k /\ info'[e] = n /\ state'[e] \in {"CONNECTING", "WAIT2"}
        BY <1>2, <1>5, <3>1, <4>1
      <4>2. QED
        BY <4>1 DEF HandshakeUnderWay
    <3>6. QED
      BY <3>2, <3>3, <3>4, <3>5 DEF Served
  <2>2. QED
    BY <2>1, ForgottenIsPrime
<1>13. QED
  BY <1>7, <1>8, <1>9, <1>10, <1>11, <1>12

(* A deleted entry takes its open connections and its events with it.      *)
LEMMA ImcDeleteInfoKeeps ==
  ASSUME IInv, NEW m \in Muds, NEW n \in Muds, ImcDeleteInfo(m, n)
  PROVE  IInv'
<1> USE DEF IInv
<1> DEFINE C == OpenFor(m, n)
<1>1. /\ known' = known \ {<<m, n>>} /\ trouble' \in 0 .. MaxTrouble
      /\ state' = [e \in Ends |-> IF e \in C THEN "CLOSED" ELSE state[e]]
      /\ connection' = [x \in Entries |-> IF connection[x] \in C THEN NoEnd ELSE connection[x]]
      /\ unread' = unread \ C
      /\ reconnect' = [reconnect EXCEPT ![<<m, n>>] = 0]
      /\ missed' = missed \ {<<m, n>>}
      /\ UNCHANGED <<flags, active, line, info, login>>
      /\ <<m, n>> \in Entries
  BY CostBounded DEF ImcDeleteInfo, Closed, Dropped, Entries
<1>2. \A e \in Ends : e \in C <=> At(e) = m /\ info[e] = n /\ state[e] \in Open
  BY DEF OpenFor, Ours
<1>3. C \subseteq Ends
  BY DEF OpenFor, Ours
<1> HIDE DEF C
<1>4. \A e \in Ends : At(e)' = At(e)
  BY <1>1 DEF At
<1>5. /\ reconnect' \in [Entries -> 0 .. MaxPending] /\ reconnect'[<<m, n>>] = 0
      /\ \A x \in Entries : x # <<m, n>> => reconnect'[x] = reconnect[x]
  BY <1>1, LinkAssumption DEF TypeOK
<1>6. TypeOK'
  <2>1. state' \in [Ends -> States] /\ connection' \in [Entries -> Ends \cup {NoEnd}]
    BY <1>1 DEF TypeOK, States
  <2>2. unread' \subseteq {e \in Ends : state'[e] \in Open \cup {"backlog"}}
    BY <1>1 DEF TypeOK
  <2>3. login' \subseteq {e \in Ends : state'[e] \in Open \cup {"CLOSED"}}
    BY <1>1 DEF TypeOK
  <2>4. \A s \in Sockets : /\ (state'[<<s, "client">>] = "free") = (state'[<<s, "server">>] = "free")
                           /\ (line'[s].from = None) = (state'[<<s, "client">>] = "free")
    <3>1. \A e \in Ends : state'[e] = "free" <=> state[e] = "free"
      BY <1>1, <1>2 DEF Open
    <3>2. \A s \in Sockets : <<s, "client">> \in Ends /\ <<s, "server">> \in Ends
      BY DEF Ends, Roles
    <3>3. QED
      BY <1>1, <3>1, <3>2 DEF TypeOK
  <2>5. known' \subseteq Entries /\ missed' \subseteq Entries
    BY <1>1 DEF TypeOK
  <2>6. QED
    BY <1>1, <1>5, <2>1, <2>2, <2>3, <2>4, <2>5 DEF TypeOK
<1>7. EndsFit'
  BY <1>1, <1>2, <1>4 DEF EndsFit, Open
<1>8. NoneOfItself'
  BY <1>1 DEF NoneOfItself
<1>9. OneEndEach'
  <2>1. ASSUME NEW k \in Muds, NEW l \in Muds, NEW e \in Ends
        PROVE  connection'[<<k, l>>] = e <=>
                 At(e)' = k /\ info'[e] = l /\ state'[e] = "CONNECTED"
    <3>1. <<k, l>> \in Entries
      BY DEF Entries
    <3>2. connection[<<k, l>>] = e <=> At(e) = k /\ info[e] = l /\ state[e] = "CONNECTED"
      BY DEF OneEndEach
    <3>3. QED
      BY <1>1, <1>4, <3>1, <3>2, NoEndIsNone
  <2>2. QED
    BY <2>1 DEF OneEndEach
<1>10. EventsRefer'
  <2>1. \A x \in Entries : reconnect'[x] > 0 => x \in known' /\ x[1] \in active'
    BY <1>1, <1>5 DEF EventsRefer
  <2>2. \A e \in Ends : state'[e] \in Open /\ info'[e] # None => <<At(e)', info'[e]>> \in known'
    <3> SUFFICES ASSUME NEW e \in Ends, state'[e] \in Open, info'[e] # None
                 PROVE  <<At(e), info[e]>> \in known'
      BY <1>1, <1>4
    <3>1. e \notin C /\ state[e] \in Open /\ info[e] # None
      BY <1>1 DEF Open
    <3>2. <<At(e), info[e]>> \in known /\ ~(At(e) = m /\ info[e] = n)
      BY <1>2, <3>1 DEF EventsRefer
    <3>3. QED
      BY <1>1, <3>2
  <2>3. QED
    BY <2>1, <2>2 DEF EventsRefer
<1>11. NeverForgotten'
  <2>1. ASSUME NEW k \in Muds, NEW l \in Muds, Wanted(k, l)'
        PROVE  Served(k, l)'
    <3>1. <<k, l>> # <<m, n>> /\ Wanted(k, l) /\ <<k, l>> \in Entries
      BY <1>1, <2>1 DEF Wanted, Reconnects, Entries
    <3>2. Served(k, l)
      BY <3>1, ForgottenIs
    <3>3. k # m \/ l # n
      BY <3>1
    <3>4. connection[<<k, l>>] # NoEnd => connection'[<<k, l>>] # NoEnd
      <4>1. connection[<<k, l>>] \in Ends =>
              At(connection[<<k, l>>]) = k /\ info[connection[<<k, l>>]] = l
        BY DEF OneEndEach
      <4>2. connection[<<k, l>>] \in Ends \cup {NoEnd}
        BY <3>1 DEF TypeOK
      <4>3. QED
        BY <1>1, <1>2, <3>1, <3>3, <4>1, <4>2
    <3>5. HandshakeUnderWay(k, l) => HandshakeUnderWay(k, l)'
      <4>1. ASSUME NEW e \in Ends, At(e) = k, info[e] = l, state[e] \in {"CONNECTING", "WAIT2"}
            PROVE  At(e)' = k /\ info'[e] = l /\ state'[e] \in {"CONNECTING", "WAIT2"}
        BY <1>1, <1>2, <1>4, <3>3, <4>1
      <4>2. QED
        BY <4>1 DEF HandshakeUnderWay
    <3>6. <<k, l>> \in missed => <<k, l>> \in missed'
      BY <1>1, <3>1
    <3>7. QED
      BY <1>5, <3>1, <3>2, <3>4, <3>5, <3>6 DEF Served
  <2>2. QED
    BY <2>1, ForgottenIsPrime
<1>12. QED
  BY <1>6, <1>7, <1>8, <1>9, <1>10, <1>11
-----------------------------------------------------------------------------
LEMMA InitIInv == Init => IInv
<1> SUFFICES ASSUME Init PROVE IInv
  OBVIOUS
<1>1. TypeOK
  <2>1. /\ NoEnd \in Ends \cup {NoEnd} /\ 0 \in 0 .. MaxPending /\ 0 \in 0 .. MaxTrouble
        /\ "free" \in States /\ "free" \notin Open
    BY LinkAssumption DEF States, Open
  <2>2. \A s \in Sockets : /\ state[<<s, "client">>] = "free" /\ state[<<s, "server">>] = "free"
                           /\ line[s].from = None
    BY DEF Init, Ends, Roles
  <2>3. line \in [Sockets -> [from : Muds \cup {None}, to : Muds \cup {None}, cut : BOOLEAN]]
    BY DEF Init
  <2>4. QED
    BY <2>1, <2>2, <2>3 DEF Init, TypeOK
<1>2. EndsFit
  BY DEF Init, EndsFit, Open
<1>3. NoneOfItself
  BY DEF Init, NoneOfItself
<1>4. OneEndEach
  BY NoEndIsNone DEF Init, OneEndEach, Entries
<1>5. EventsRefer
  BY DEF Init, EventsRefer, Open
<1>6. NeverForgotten
  BY DEF Init, NeverForgotten
<1>7. QED
  BY <1>1, <1>2, <1>3, <1>4, <1>5, <1>6 DEF IInv

LEMMA NextIInv == IInv /\ [Next]_vars => IInv'
<1> SUFFICES ASSUME IInv, [Next]_vars PROVE IInv'
  OBVIOUS
<1>1. CASE \E e \in Ends : Serve(e) \/ LoginTimeout(e)
  BY <1>1, DoAcceptKeeps, DoWriteKeeps, DoReadEofKeeps, ClientPasswordKeeps, ServerPasswordKeeps,
     ExtractConnectKeeps, LoginTimeoutKeeps DEF Serve
<1>2. CASE \E m, n \in Muds : m # n /\ (Reconnect(m, n) \/ RConnect(m, n) \/ ImcDisconnect(m, n)
                                        \/ ImcDeleteInfo(m, n))
  BY <1>2, ReconnectKeeps, RConnectKeeps, ImcDisconnectKeeps, ImcDeleteInfoKeeps
<1>3. CASE \E s \in Sockets : Cut(s)
  BY <1>3, CutKeeps
<1>4. CASE \E m \in Muds : ImcStartup(m) \/ ImcShutdown(m)
  BY <1>4, ImcStartupKeeps, ImcShutdownKeeps
<1>5. CASE UNCHANGED vars
  BY <1>5 DEF vars, IInv, TypeOK, EndsFit, NoneOfItself, OneEndEach, EventsRefer, NeverForgotten,
              At, Ours, Reconnects
<1>6. QED
  BY <1>1, <1>2, <1>3, <1>4, <1>5 DEF Next

(* The strengthened invariant: connections, entries and events agree,      *)
(* nothing is forgotten, and every end knows what its state says it knows. *)
THEOREM Invariant == Spec => []IInv
  BY InitIInv, NextIInv, PTL DEF Spec

(* Every variable keeps its type: events and unread lines belong to ends   *)
(* that are there, and a socket number is reused only when both are gone.  *)
THEOREM TypeCorrect == Spec => []TypeOK
<1>1. IInv => TypeOK
  BY DEF IInv
<1>2. QED
  BY Invariant, <1>1, PTL

(* info->connection is always the one connected end that knows the entry,  *)
(* and no event or open connection refers to an entry that was deleted,    *)
(* through do_close, displaced connections, timeouts and shutdowns.        *)
THEOREM ConnectionsAlwaysAgree == Spec => []ConnectionAgrees
<1>1. IInv => ConnectionAgrees
  BY DEF IInv, ConnectionAgrees
<1>2. QED
  BY Invariant, <1>1, PTL

(* However connections fail, whatever the order of events, an entry to be  *)
(* reconnected stays connected, on the way, or due: imc_setup_reconnect is *)
(* called wherever a connection is let go.                                 *)
THEOREM NothingForgotten == Spec => []NeverForgotten
<1>1. IInv => NeverForgotten
  BY DEF IInv
<1>2. QED
  BY Invariant, <1>1, PTL
=============================================================================
