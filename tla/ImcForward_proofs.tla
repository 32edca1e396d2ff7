-------------------------- MODULE ImcForward_proofs --------------------------
(***************************************************************************)
(* Proofs about ImcForward for any network, any numbers of packets and     *)
(* changes, any memory and any lifetime: what a mud remembers is enough to *)
(* recognise a packet, it turns a new packet away only for a reason, and   *)
(* what it turns away never cuts a packet off from where it is to go.      *)
(***************************************************************************)
EXTENDS ImcForward, SequenceTheorems, FiniteSetTheorems, WellFoundedInduction,
        NaturalsInduction, TLAPS

Recs == [from : Muds, seq : Nat, to : Muds \cup {All}, since : Nat]
Msgs == [id : Nat, path : Seq(Muds)]
Keys == Muds \X Nat
Key(s, i) == <<s[i].from, s[i].seq>>

NetInv == \A l \in links : l \subseteq Muds /\ Cardinality(l) = 2

(* The muds a packet has passed: from its sender to the one before the     *)
(* wire, each once, and never the one at the wire's other end.             *)
Passed(s, i, path) ==
  /\ path \in Seq(Muds) /\ path # <<>>
  /\ \A j, k \in 1 .. Len(path) : path[j] = path[k] => j = k
  /\ path[1] = s[i].from
GoodMsg(s, w, msg) ==
  /\ msg.id \in 1 .. Len(s)
  /\ Passed(s, msg.id, msg.path)
  /\ msg.path[Len(msg.path)] = w[1]
  /\ \A k \in 1 .. Len(msg.path) : msg.path[k] # w[2]
GoodWires(s, wires) ==
  /\ wires \in [Wires -> Seq(Msgs)]
  /\ \A w \in Wires : \A k \in 1 .. Len(wires[w]) : GoodMsg(s, w, wires[w][k])
WireInv == GoodWires(sent, wire)

(* Numbers of a sender grow with its packets, unless it was rewound.       *)
SendInv ==
  /\ now \in Nat /\ sequence \in [Muds -> Nat] /\ sent \in Seq(Recs)
  /\ trouble \in Nat /\ packets \in Nat /\ changes \in Nat
  /\ up \in [Wires -> BOOLEAN]
  /\ \A i \in Packets : sent[i].from \notin rewound => sent[i].seq < sequence[sent[i].from]
  /\ \A i, j \in Packets :
       i < j /\ sent[i].from = sent[j].from /\ sent[i].from \notin rewound
         => sent[i].seq < sent[j].seq

(* Whatever is remembered is a packet that was taken in or turned away.    *)
MemInv ==
  /\ memory \in [Muds -> Seq(Keys)]
  /\ seen \in [Muds -> SUBSET Packets]
  /\ refused \subseteq Muds \X Packets
  /\ \A m \in Muds :
       /\ Len(memory[m]) <= IMC_MEMORY
       /\ \A j, k \in 1 .. Len(memory[m]) : memory[m][j] = memory[m][k] => j = k
       /\ \A k \in 1 .. Len(memory[m]) :
            \E j \in Packets : /\ memory[m][k] = Key(sent, j)
                               /\ j \in seen[m] \/ <<m, j>> \in refused

(* While all packets fit, whatever was taken in is still remembered.       *)
OnceInv ==
  Len(sent) <= IMC_MEMORY =>
    /\ twice = {}
    /\ \A m \in Muds : \A i \in seen[m] :
         \E k \in 1 .. Len(memory[m]) : memory[m][k] = Key(sent, i)

(* Routes lead to neighbours, and the highest number known of a mud is one *)
(* it has used.                                                            *)
Entry(m) == [type : {"normal", "expired", "revived"}, route : Peers(m), top : Nat]
RouteInv ==
  /\ reminfo \in [Muds -> [Muds -> {Unknown} \cup [type : {"normal", "expired", "revived"}, route : Muds, top : Nat]]]
  /\ \A m \in Muds :
       /\ reminfo[m][m] = Unknown
       /\ \A n \in Muds : reminfo[m][n] # Unknown =>
            /\ reminfo[m][n] \in Entry(m)
            /\ reminfo[m][n].top = 0 \/ \E j \in Packets :
                 sent[j].from = n /\ sent[j].seq = reminfo[m][n].top

IInv == NetInv /\ SendInv /\ WireInv /\ MemInv /\ OnceInv /\ RouteInv /\ RefusedForAReason
-----------------------------------------------------------------------------
(* The network does not change.                                            *)
LEMMA Unchanging ==
  ASSUME UNCHANGED links
  PROVE  /\ Wires' = Wires /\ Members' = Members /\ NetInv' = NetInv
         /\ \A m : Peers(m)' = Peers(m) /\ Entry(m)' = Entry(m)
  BY DEF Wires, Members, Peers, NetInv, Entry

LEMMA Neighbours ==
  ASSUME NetInv
  PROVE  /\ Members \subseteq Muds
         /\ Wires \subseteq Muds \X Muds
         /\ \A m \in Muds : \A n \in Peers(m) : /\ n \in Muds /\ n # m /\ m \in Peers(n)
                                                /\ <<m, n>> \in Wires /\ <<n, m>> \in Wires
         /\ \A w \in Wires : /\ w = <<w[1], w[2]>> /\ w[1] \in Muds /\ w[2] \in Muds
                             /\ w[1] # w[2] /\ w[1] \in Peers(w[2])
<1>1. \A m \in Muds : {m, m} \notin links
  <2>1. \A m \in Muds : {m, m} = {m} /\ Cardinality({m}) = 1
    BY FS_Singleton
  <2>2. QED
    BY <2>1 DEF NetInv
<1>2. \A m, n : {m, n} = {n, m}
  OBVIOUS
<1>3. Members \subseteq Muds
  BY DEF NetInv, Members
<1>4. \A m \in Muds : \A n \in Peers(m) : /\ n \in Muds /\ n # m /\ {m, n} \in links
                                         /\ {n, m} \in links
  BY <1>1, <1>2 DEF Peers
<1>5. \A m \in Muds : \A n \in Peers(m) : /\ n \in Muds /\ n # m /\ m \in Peers(n)
                                         /\ <<m, n>> \in Wires /\ <<n, m>> \in Wires
  BY <1>4 DEF Wires, Peers
<1>6. \A w \in Wires : w = <<w[1], w[2]>> /\ w[1] \in Muds /\ w[2] \in Muds /\ {w[1], w[2]} \in links
  BY DEF Wires
<1>7. \A w \in Wires : w[1] # w[2] /\ w[1] \in Peers(w[2])
  BY <1>1, <1>2, <1>6 DEF Peers
<1>8. QED
  BY <1>3, <1>5, <1>6, <1>7 DEF Wires

LEMMA UpTo == ASSUME NEW n \in Nat PROVE IsFiniteSet(1 .. n) /\ Cardinality(1 .. n) = n
  BY FS_Interval

LEMMA RecIs == ASSUME NEW s \in Seq(Recs), NEW i \in 1 .. Len(s)
               PROVE  s[i] \in Recs /\ s[i].from \in Muds /\ s[i].seq \in Nat /\ i \in Nat
<1>1. s[i] \in Recs /\ i \in Nat
  OBVIOUS
<1>2. QED
  BY <1>1 DEF Recs

(* More distinct keys than packets is impossible.                          *)
LEMMA Pigeons ==
  ASSUME NEW n \in Nat, NEW s \in Seq(Keys), NEW p \in Seq(Recs), n = Len(s),
         \A j, k \in 1 .. n : s[j] = s[k] => j = k,
         \A k \in 1 .. n : \E j \in 1 .. Len(p) : s[k] = Key(p, j)
  PROVE  n <= Len(p)
<1> DEFINE f == [k \in 1 .. n |-> CHOOSE j \in 1 .. Len(p) : s[k] = Key(p, j)]
<1>1. \A k \in 1 .. n : f[k] \in 1 .. Len(p) /\ s[k] = Key(p, f[k])
  OBVIOUS
<1>2. f \in [1 .. n -> 1 .. Len(p)]
  BY <1>1
<1> HIDE DEF f
<1>3. \A j, k \in 1 .. n : f[j] = f[k] => j = k
  BY <1>1
<1>4. f \in Injection(1 .. n, 1 .. Len(p))
  BY <1>2, <1>3 DEF Injection, IsInjective
<1>5. Len(p) \in Nat
  OBVIOUS
<1>6. /\ IsFiniteSet(1 .. Len(p)) /\ Cardinality(1 .. Len(p)) = Len(p)
      /\ Cardinality(1 .. n) = n
  BY <1>5, UpTo
<1>7. Cardinality(1 .. n) <= Cardinality(1 .. Len(p))
  BY <1>4, <1>6, FS_Injection
<1>8. QED
  BY <1>6, <1>7

LEMMA AppendDistinct ==
  ASSUME NEW s \in Seq(Keys), NEW key \in Keys,
         \A j, k \in 1 .. Len(s) : s[j] = s[k] => j = k,
         \A k \in 1 .. Len(s) : s[k] # key
  PROVE  \A j, k \in 1 .. Len(Append(s, key)) : Append(s, key)[j] = Append(s, key)[k] => j = k
<1> DEFINE all == Append(s, key)
<1>1. /\ Len(all) = Len(s) + 1 /\ Len(s) \in Nat
      /\ \A k \in 1 .. Len(s) : all[k] = s[k]
      /\ all[Len(s) + 1] = key
  BY AppendProperties
<1> HIDE DEF all
<1>2. \A k \in 1 .. Len(all) : k \in 1 .. Len(s) \/ k = Len(s) + 1
  BY <1>1
<1>3. \A j, k \in 1 .. Len(all) : all[j] = all[k] => j = k
  BY <1>1, <1>2
<1>4. QED
  BY <1>3 DEF all

LEMMA Remembering ==
  ASSUME NEW m \in Muds, NEW p \in Recs, memory[m] \in Seq(Keys), Len(memory[m]) <= IMC_MEMORY,
         \A j, k \in 1 .. Len(memory[m]) : memory[m][j] = memory[m][k] => j = k,
         ~CheckRepeat(m, p)
  PROVE  \E r \in Seq(Keys) :
           /\ r = Remember(m, p) /\ Len(r) <= IMC_MEMORY
           /\ \A j, k \in 1 .. Len(r) : r[j] = r[k] => j = k
           /\ \A k \in 1 .. Len(r) : \/ r[k] = <<p.from, p.seq>>
                                    \/ \E j \in 1 .. Len(memory[m]) : r[k] = memory[m][j]
           /\ Len(memory[m]) < IMC_MEMORY => r = Append(memory[m], <<p.from, p.seq>>)
<1> DEFINE key == <<p.from, p.seq>>
           s == memory[m]
           all == Append(s, key)
<1>1. key \in Keys /\ s \in Seq(Keys) /\ Len(s) \in Nat
  BY DEF Keys, Recs
<1>2. \A k \in 1 .. Len(s) : s[k] # key
  BY <1>1 DEF CheckRepeat, ToSet
<1>3. /\ all \in Seq(Keys) /\ all # <<>> /\ Len(all) = Len(s) + 1
      /\ \A k \in 1 .. Len(s) : all[k] = s[k]
      /\ all[Len(s) + 1] = key
  BY <1>1, AppendProperties
<1>4. Remember(m, p) = IF Len(all) > IMC_MEMORY THEN Tail(all) ELSE all
  BY DEF Remember
<1>5. IMC_MEMORY \in Nat /\ IMC_MEMORY > 0
  BY ForwardAssumption
<1>6. \A j, k \in 1 .. Len(all) : all[j] = all[k] => j = k
  BY <1>1, <1>2, <1>3
<1>7. \A k \in 1 .. Len(all) : all[k] = key \/ \E j \in 1 .. Len(s) : all[k] = s[j]
  BY <1>1, <1>3
<1>8. /\ Tail(all) \in Seq(Keys) /\ Len(Tail(all)) = Len(all) - 1
      /\ \A k \in 1 .. Len(Tail(all)) : Tail(all)[k] = all[k + 1]
  BY <1>3, HeadTailProperties
<1> HIDE DEF s, all, key
<1>9. CASE Len(all) > IMC_MEMORY
  <2>1. \A k \in 1 .. Len(Tail(all)) : k + 1 \in 1 .. Len(all)
    BY <1>1, <1>3, <1>8
  <2>2. \A j, k \in 1 .. Len(Tail(all)) : Tail(all)[j] = Tail(all)[k] => j = k
    <3> SUFFICES ASSUME NEW j \in 1 .. Len(Tail(all)), NEW k \in 1 .. Len(Tail(all)),
                        Tail(all)[j] = Tail(all)[k]
                 PROVE  j = k
      OBVIOUS
    <3>1. j + 1 = k + 1
      BY <1>6, <1>8, <2>1
    <3>2. QED
      BY <3>1
  <2>3. \A k \in 1 .. Len(Tail(all)) :
          Tail(all)[k] = key \/ \E j \in 1 .. Len(s) : Tail(all)[k] = s[j]
    BY <1>7, <1>8, <2>1
  <2>4. Len(Tail(all)) <= IMC_MEMORY /\ ~(Len(s) < IMC_MEMORY)
    BY <1>1, <1>3, <1>5, <1>8, <1>9 DEF s
  <2>5. Remember(m, p) = Tail(all)
    BY <1>4, <1>9
  <2>6. QED
    BY <1>8, <2>2, <2>3, <2>4, <2>5, Zenon DEF s, key
<1>10. CASE ~(Len(all) > IMC_MEMORY)
  <2>1. Remember(m, p) = all
    BY <1>4, <1>10
  <2>2. Len(all) <= IMC_MEMORY
    BY <1>1, <1>3, <1>5, <1>10
  <2>3. QED
    BY <1>3, <1>6, <1>7, <2>1, <2>2, Zenon DEF s, key, all
<1>11. QED
  BY <1>9, <1>10
-----------------------------------------------------------------------------
(* Forwarding a packet, new or from a wire.                                *)
Grown == /\ sent' \in Seq(Recs) /\ Len(sent) \in Nat /\ Len(sent') \in Nat
         /\ Len(sent) <= Len(sent')
         /\ \A i \in 1 .. Len(sent) : sent'[i] = sent[i]

\* What forward is called with: a packet of m's own, or one that has come a
\* way that m is not on.
Arrived(m, i, path) ==
  \/ /\ path = <<>> /\ i = Len(sent) + 1 /\ i \in 1 .. Len(sent')
     /\ sent'[i].from = m
  \/ /\ i \in 1 .. Len(sent) /\ Passed(sent', i, path)
     /\ path[Len(path)] \in Peers(m)
     /\ \A k \in 1 .. Len(path) : path[k] # m

(* Keys are unique, so a key that is remembered is this packet's, which    *)
(* was taken in or turned away for a reason before.                        *)
LEMMA KeysUnique ==
  ASSUME SendInv', NEW i \in Packets', NEW j \in Packets', Key(sent', i) = Key(sent', j),
         sent'[i].from \notin rewound'
  PROVE  i = j
<1>1. sent'[i].from = sent'[j].from /\ sent'[i].seq = sent'[j].seq
  BY DEF Key
<1>2. sent'[i].seq \in Nat /\ i \in Nat /\ j \in Nat
  BY RecIs DEF SendInv, Packets
<1>3. ~(i < j) /\ ~(j < i)
  <2>1. i < j => sent'[i].seq < sent'[j].seq
    BY <1>1 DEF SendInv
  <2>2. j < i => sent'[j].seq < sent'[i].seq
    BY <1>1 DEF SendInv
  <2>3. QED
    BY <1>1, <1>2, <2>1, <2>2
<1>4. QED
  BY <1>2, <1>3

LEMMA KeysStay ==
  ASSUME Grown
  PROVE  /\ Packets \subseteq Packets' /\ Packets = 1 .. Len(sent) /\ Packets' = 1 .. Len(sent')
         /\ \A j \in Packets : /\ sent'[j] = sent[j] /\ Key(sent', j) = Key(sent, j)
  BY DEF Grown, Packets, Key

LEMMA MemorySame ==
  ASSUME MemInv, OnceInv, Grown, UNCHANGED <<memory, seen, twice>>,
         refused \subseteq refused', refused' \subseteq Muds \X Packets'
  PROVE  MemInv' /\ OnceInv'
<1>1. MemInv'
  <2>1. seen' \in [Muds -> SUBSET Packets']
    BY KeysStay DEF MemInv
  <2>2. \A m \in Muds : \A k \in 1 .. Len(memory[m]) :
          \E j \in Packets' : /\ memory[m][k] = Key(sent', j)
                              /\ j \in seen[m] \/ <<m, j>> \in refused'
    BY KeysStay DEF MemInv
  <2>3. QED
    BY <2>1, <2>2 DEF MemInv
<1>2. OnceInv'
  <2> SUFFICES ASSUME Len(sent') <= IMC_MEMORY
               PROVE  /\ twice = {}
                      /\ \A m \in Muds : \A i \in seen[m] :
                           \E k \in 1 .. Len(memory[m]) : memory[m][k] = Key(sent', i)
    BY DEF OnceInv
  <2>1. Len(sent) <= IMC_MEMORY
    BY ForwardAssumption DEF Grown
  <2>2. \A m \in Muds : seen[m] \subseteq Packets
    BY DEF MemInv
  <2>3. QED
    BY <2>1, <2>2, KeysStay DEF OnceInv
<1>3. QED
  BY <1>1, <1>2

(* Remembering the i-th packet at m, which m has no key of yet.            *)
LEMMA MemoryMore ==
  ASSUME MemInv, OnceInv, Grown, NEW m \in Muds, NEW i \in 1 .. Len(sent'),
         ~CheckRepeat(m, sent'[i]),
         memory' = [memory EXCEPT ![m] = Remember(m, sent'[i])],
         seen' \in [Muds -> SUBSET Packets'],
         \A n \in Muds : seen[n] \subseteq seen'[n] /\ seen'[n] \subseteq seen[n] \cup {i},
         \A n \in Muds : n # m => seen'[n] = seen[n],
         refused \subseteq refused', refused' \subseteq Muds \X Packets',
         i \in seen'[m] \/ <<m, i>> \in refused',
         twice' = twice \/ twice' = twice \cup (IF i \in seen[m] THEN {<<m, i>>} ELSE {})
  PROVE  MemInv' /\ OnceInv'
<1> DEFINE p == sent'[i]
<1>1. p \in Recs /\ <<p.from, p.seq>> = Key(sent', i) /\ Key(sent', i) \in Keys
  BY RecIs DEF Grown, Key, Keys
<1>2. /\ memory[m] \in Seq(Keys) /\ Len(memory[m]) <= IMC_MEMORY /\ Len(memory[m]) \in Nat
      /\ \A j, k \in 1 .. Len(memory[m]) : memory[m][j] = memory[m][k] => j = k
  BY DEF MemInv
<1> HIDE DEF p
<1>3. PICK r \in Seq(Keys) :
        /\ r = Remember(m, p) /\ Len(r) <= IMC_MEMORY
        /\ \A j, k \in 1 .. Len(r) : r[j] = r[k] => j = k
        /\ \A k \in 1 .. Len(r) : \/ r[k] = Key(sent', i)
                                 \/ \E j \in 1 .. Len(memory[m]) : r[k] = memory[m][j]
        /\ Len(memory[m]) < IMC_MEMORY => r = Append(memory[m], Key(sent', i))
  <2>1. ~CheckRepeat(m, p)
    BY DEF p
  <2>2. \E r \in Seq(Keys) :
          /\ r = Remember(m, p) /\ Len(r) <= IMC_MEMORY
          /\ \A j, k \in 1 .. Len(r) : r[j] = r[k] => j = k
          /\ \A k \in 1 .. Len(r) : \/ r[k] = <<p.from, p.seq>>
                                   \/ \E j \in 1 .. Len(memory[m]) : r[k] = memory[m][j]
          /\ Len(memory[m]) < IMC_MEMORY => r = Append(memory[m], <<p.from, p.seq>>)
    BY <1>1, <1>2, <2>1, Remembering
  <2>3. QED
    BY <1>1, <2>2, Zenon
<1>4. memory' = [memory EXCEPT ![m] = r] /\ memory'[m] = r
      /\ \A n \in Muds : n # m => memory'[n] = memory[n]
  BY <1>3 DEF p, MemInv
<1>5. \A n \in Muds : \A k \in 1 .. Len(memory[n]) :
        \E j \in Packets' : /\ memory[n][k] = Key(sent', j)
                            /\ j \in seen'[n] \/ <<n, j>> \in refused'
  <2>1. \A n \in Muds : \A k \in 1 .. Len(memory[n]) :
          \E j \in Packets : /\ memory[n][k] = Key(sent, j)
                             /\ j \in seen[n] \/ <<n, j>> \in refused
    BY DEF MemInv
  <2>2. ASSUME NEW n \in Muds, NEW k \in 1 .. Len(memory[n])
        PROVE  \E j \in Packets' : /\ memory[n][k] = Key(sent', j)
                                   /\ j \in seen'[n] \/ <<n, j>> \in refused'
    <3>1. PICK j \in Packets : /\ memory[n][k] = Key(sent, j)
                               /\ j \in seen[n] \/ <<n, j>> \in refused
      BY <2>1
    <3>2. j \in Packets' /\ Key(sent', j) = Key(sent, j)
      BY KeysStay
    <3>3. j \in seen'[n] \/ <<n, j>> \in refused'
      BY <3>1
    <3>4. QED
      BY <3>1, <3>2, <3>3
  <2>3. QED
    BY <2>2
<1>6. \A k \in 1 .. Len(r) : \E j \in Packets' : /\ r[k] = Key(sent', j)
                                                 /\ j \in seen'[m] \/ <<m, j>> \in refused'
  <2> SUFFICES ASSUME NEW k \in 1 .. Len(r)
               PROVE  \E j \in Packets' : /\ r[k] = Key(sent', j)
                                          /\ j \in seen'[m] \/ <<m, j>> \in refused'
    OBVIOUS
  <2>1. CASE r[k] = Key(sent', i)
    BY <2>1, KeysStay
  <2>2. CASE \E l \in 1 .. Len(memory[m]) : r[k] = memory[m][l]
    BY <1>5, <2>2
  <2>3. QED
    BY <1>3, <2>1, <2>2
<1>7. MemInv'
  <2>1. memory' \in [Muds -> Seq(Keys)]
    BY <1>4 DEF MemInv
  <2> DEFINE Fine(n, s) ==
        /\ Len(s) <= IMC_MEMORY
        /\ \A j, k \in 1 .. Len(s) : s[j] = s[k] => j = k
        /\ \A k \in 1 .. Len(s) : \E j \in Packets' : /\ s[k] = Key(sent', j)
                                                      /\ j \in seen'[n] \/ <<n, j>> \in refused'
  <2>2. Fine(m, r)
    BY <1>3, <1>6
  <2>3. \A n \in Muds : Fine(n, memory[n])
    BY <1>5 DEF MemInv
  <2> HIDE DEF Fine
  <2>4. \A n \in Muds : Fine(n, memory'[n])
    BY <1>4, <2>2, <2>3
  <2>5. \A n \in Muds :
          /\ Len(memory'[n]) <= IMC_MEMORY
          /\ \A j, k \in 1 .. Len(memory'[n]) : memory'[n][j] = memory'[n][k] => j = k
          /\ \A k \in 1 .. Len(memory'[n]) :
               \E j \in Packets' : /\ memory'[n][k] = Key(sent', j)
                                   /\ j \in seen'[n] \/ <<n, j>> \in refused'
    BY <2>4, Zenon DEF Fine
  <2>6. seen' \in [Muds -> SUBSET Packets'] /\ refused' \subseteq Muds \X Packets'
    OBVIOUS
  <2>7. QED
    BY <2>1, <2>5, <2>6, Zenon DEF MemInv
<1>8. OnceInv'
  <2> SUFFICES ASSUME Len(sent') <= IMC_MEMORY
               PROVE  /\ twice' = {}
                      /\ \A n \in Muds : \A j \in seen'[n] :
                           \E k \in 1 .. Len(memory'[n]) : memory'[n][k] = Key(sent', j)
    BY DEF OnceInv
  <2>1. Len(sent) <= IMC_MEMORY
    BY ForwardAssumption DEF Grown
  <2>2. /\ twice = {}
        /\ \A n \in Muds : \A j \in seen[n] :
             \E k \in 1 .. Len(memory[n]) : memory[n][k] = Key(sent', j)
    <3>1. \A n \in Muds : seen[n] \subseteq Packets
      BY DEF MemInv
    <3>2. QED
      BY <2>1, <3>1, KeysStay DEF OnceInv
  <2>3. \A k \in 1 .. Len(memory[m]) : memory[m][k] # Key(sent', i)
    BY <1>1, <1>2 DEF CheckRepeat, ToSet, p
  <2>4. twice' = {}
    BY <2>2, <2>3
  <2> DEFINE all == Append(memory[m], Key(sent', i))
  <2>5. /\ all \in Seq(Keys) /\ Len(all) = Len(memory[m]) + 1
        /\ \A k \in 1 .. Len(memory[m]) : all[k] = memory[m][k]
        /\ all[Len(memory[m]) + 1] = Key(sent', i)
    BY <1>1, <1>2, AppendProperties
  <2> HIDE DEF all
  <2>6. Len(memory[m]) + 1 <= Len(sent')
    <3>1. Len(all) \in Nat /\ sent' \in Seq(Recs)
      BY <1>2, <2>5 DEF Grown
    <3>2. \A j, k \in 1 .. Len(all) : all[j] = all[k] => j = k
      BY <1>1, <1>2, <2>3, AppendDistinct DEF all
    <3>3. \A k \in 1 .. Len(all) : \E j \in 1 .. Len(sent') : all[k] = Key(sent', j)
      <4>1. \A k \in 1 .. Len(memory[m]) : \E j \in 1 .. Len(sent') : memory[m][k] = Key(sent', j)
        BY <1>5, KeysStay
      <4>2. \A k \in 1 .. Len(all) : k \in 1 .. Len(memory[m]) \/ k = Len(memory[m]) + 1
        BY <1>2, <2>5
      <4>3. QED
        BY <2>5, <4>1, <4>2
    <3>4. Len(all) <= Len(sent')
      BY <2>5, <3>1, <3>2, <3>3, Pigeons
    <3>5. QED
      BY <2>5, <3>4
  <2>7. r = all
    <3>1. Len(memory[m]) < IMC_MEMORY
      BY <1>2, <2>6, ForwardAssumption DEF Grown
    <3>2. QED
      BY <1>3, <3>1 DEF all
  <2>8. ASSUME NEW n \in Muds, NEW j \in seen'[n]
        PROVE  \E k \in 1 .. Len(memory'[n]) : memory'[n][k] = Key(sent', j)
    <3>1. CASE n # m
      BY <1>4, <2>2, <2>8, <3>1
    <3>2. CASE n = m /\ j = i
      <4>1. Len(memory[m]) + 1 \in 1 .. Len(all)
        BY <1>2, <2>5
      <4>2. QED
        BY <1>4, <2>5, <2>7, <3>2, <4>1
    <3>3. CASE n = m /\ j # i
      <4>1. j \in seen[m]
        BY <2>8, <3>3
      <4>2. PICK k \in 1 .. Len(memory[m]) : memory[m][k] = Key(sent', j)
        BY <2>2, <4>1
      <4>3. k \in 1 .. Len(all) /\ all[k] = Key(sent', j)
        BY <1>2, <2>5, <4>2
      <4>4. QED
        BY <1>4, <2>7, <3>3, <4>3
    <3>4. QED
      BY <3>1, <3>2, <3>3
  <2>9. QED
    BY <2>4, <2>8
<1>9. QED
  BY <1>7, <1>8

(* What a packet teaches about routes.                                     *)
LEMMA RoutesSame ==
  ASSUME RouteInv, Grown, UNCHANGED <<links, reminfo>>
  PROVE  RouteInv'
<1>1. \A m, n \in Muds : \A t \in Nat :
        (\E j \in Packets : sent[j].from = n /\ sent[j].seq = t)
          => \E j \in Packets' : sent'[j].from = n /\ sent'[j].seq = t
  BY KeysStay
<1>2. \A m, n \in Muds : reminfo[m][n] # Unknown =>
        /\ reminfo[m][n] \in Entry(m) /\ reminfo[m][n].top \in Nat
        /\ reminfo[m][n].top = 0 \/ \E j \in Packets :
             sent[j].from = n /\ sent[j].seq = reminfo[m][n].top
  BY DEF RouteInv, Entry
<1>3. QED
  BY <1>1, <1>2, Unchanging DEF RouteInv

LEMMA RoutesMore ==
  ASSUME NetInv, RouteInv, Grown, UNCHANGED links, NEW m \in Muds, NEW i \in 1 .. Len(sent'),
         NEW path, Arrived(m, i, path),
         reminfo' = [reminfo EXCEPT ![m] = UpdateRoutes(m, sent'[i], path)]
  PROVE  RouteInv'
<1> DEFINE p == sent'[i]
           Infos == {Unknown} \cup [type : {"normal", "expired", "revived"}, route : Muds, top : Nat]
           Apt(k, n, r) == r # Unknown =>
              /\ r \in Entry(k)
              /\ r.top = 0 \/ \E j \in Packets' : sent'[j].from = n /\ sent'[j].seq = r.top
<1>1. p.seq \in Nat /\ i \in Packets'
  BY RecIs, KeysStay DEF Grown
<1>2. \A k, n \in Muds : Apt(k, n, reminfo[k][n])
  <2>1. \A n \in Muds : \A t \in Nat :
          (\E j \in Packets : sent[j].from = n /\ sent[j].seq = t)
            => \E j \in Packets' : sent'[j].from = n /\ sent'[j].seq = t
    BY KeysStay
  <2>2. \A k, n \in Muds : reminfo[k][n] # Unknown =>
          /\ reminfo[k][n] \in Entry(k) /\ reminfo[k][n].top \in Nat
          /\ reminfo[k][n].top = 0 \/ \E j \in Packets :
               sent[j].from = n /\ sent[j].seq = reminfo[k][n].top
    BY DEF RouteInv, Entry
  <2>3. QED
    BY <2>1, <2>2
<1>3. ASSUME NEW n \in Muds
      PROVE  /\ Apt(m, n, UpdateRoutes(m, p, path)[n]) /\ UpdateRoutes(m, p, path)[n] \in Infos
             /\ UpdateRoutes(m, p, path)[m] = Unknown
  <2> DEFINE old == reminfo[m][n]
             type == IF old.type \in {"expired", "revived"} THEN "revived" ELSE "normal"
             top == IF old = Unknown THEN 0
                    ELSE IF n = p.from /\ p.seq > old.top THEN p.seq ELSE old.top
             last == Last(path)
  <2>1. /\ old \in Infos /\ reminfo[m][m] = Unknown
        /\ old # Unknown => old \in Entry(m) /\ old.top \in Nat
    BY <1>2 DEF RouteInv, Entry
  <2>2. top = 0 \/ \E j \in Packets' : sent'[j].from = n /\ sent'[j].seq = top
    <3>1. CASE old = Unknown
      BY <3>1
    <3>2. CASE old # Unknown /\ n = p.from /\ p.seq > old.top
      BY <1>1, <3>2
    <3>3. CASE old # Unknown /\ ~(n = p.from /\ p.seq > old.top)
      <4>1. top = old.top
        BY <3>3
      <4>2. old.top = 0 \/ \E j \in Packets' : sent'[j].from = n /\ sent'[j].seq = old.top
        BY <1>2, <3>3
      <4>3. QED
        BY <4>1, <4>2
    <3>4. QED
      BY <3>1, <3>2, <3>3
  <2>3. top \in Nat
    BY <1>1, <2>1
  <2>4. UpdateRoutes(m, p, path)[n] =
          IF n # m /\ n \in ToSet(path) THEN [type |-> type, route |-> last, top |-> top]
          ELSE IF old = Unknown THEN old ELSE [old EXCEPT !.top = top]
    BY DEF UpdateRoutes
  <2>5. UpdateRoutes(m, p, path)[m] = Unknown
    BY <2>1 DEF UpdateRoutes
  <2>6. n \in ToSet(path) => last \in Peers(m) /\ last \in Muds
    <3>1. n \in ToSet(path) => path # <<>>
      BY DEF ToSet
    <3>2. path # <<>> => path[Len(path)] \in Peers(m)
      BY DEF Arrived
    <3>3. QED
      BY <3>1, <3>2, Neighbours DEF Last
  <2>7. CASE n # m /\ n \in ToSet(path)
    <3> DEFINE r == [type |-> type, route |-> last, top |-> top]
    <3>0. type \in {"normal", "revived"}
      OBVIOUS
    <3> HIDE DEF top, last, type
    <3>1. r \in Entry(m) /\ r \in Infos /\ r.top = top
      BY <2>3, <2>6, <2>7, <3>0 DEF Entry
    <3>2. UpdateRoutes(m, p, path)[n] = r
      BY <2>4, <2>7
    <3> HIDE DEF r, Infos
    <3>3. QED
      BY <2>2, <2>5, <3>1, <3>2
  <2>8. CASE ~(n # m /\ n \in ToSet(path)) /\ old = Unknown
    <3>1. UpdateRoutes(m, p, path)[n] = Unknown
      BY <2>4, <2>8
    <3>2. QED
      BY <2>5, <3>1
  <2>9. CASE ~(n # m /\ n \in ToSet(path)) /\ old # Unknown
    <3> DEFINE r == [old EXCEPT !.top = top]
    <3> HIDE DEF top
    <3>1. r \in Entry(m) /\ r \in Infos /\ r.top = top
      BY <2>1, <2>3, <2>9 DEF Entry
    <3>2. UpdateRoutes(m, p, path)[n] = r
      BY <2>4, <2>9
    <3> HIDE DEF r, Infos
    <3>3. QED
      BY <2>2, <2>5, <3>1, <3>2
  <2>10. QED
    BY <2>7, <2>8, <2>9
<1>4. UpdateRoutes(m, p, path) \in [Muds -> Infos]
  <2>1. UpdateRoutes(m, p, path) = [n \in Muds |-> UpdateRoutes(m, p, path)[n]]
    BY DEF UpdateRoutes
  <2>2. QED
    BY <1>3, <2>1
<1> DEFINE routes == UpdateRoutes(m, p, path)
<1> HIDE DEF Apt, Infos, p
<1>5. /\ reminfo \in [Muds -> [Muds -> Infos]] /\ reminfo' = [reminfo EXCEPT ![m] = routes]
      /\ \A k \in Muds : reminfo[k][k] = Unknown
  BY DEF RouteInv, Infos, p
<1>6. routes \in [Muds -> Infos] /\ routes[m] = Unknown /\ \A n \in Muds : Apt(m, n, routes[n])
  BY <1>3, <1>4
<1> HIDE DEF routes
<1>7. /\ reminfo' \in [Muds -> [Muds -> Infos]]
      /\ \A k \in Muds : reminfo'[k][k] = Unknown
      /\ \A k, n \in Muds : Apt(k, n, reminfo'[k][n])
  <2>1. reminfo' \in [Muds -> [Muds -> Infos]]
    BY <1>5, <1>6
  <2>2. \A k \in Muds : reminfo'[k] = IF k = m THEN routes ELSE reminfo[k]
    BY <1>5
  <2>3. ASSUME NEW k \in Muds, NEW n \in Muds
        PROVE  reminfo'[k][k] = Unknown /\ Apt(k, n, reminfo'[k][n])
    <3>1. CASE k = m
      BY <1>6, <2>2, <3>1
    <3>2. CASE k # m
      BY <1>2, <1>5, <2>2, <3>2
    <3>3. QED
      BY <3>1, <3>2
  <2>4. QED
    BY <2>1, <2>3
<1>8. QED
  BY <1>7, Unchanging DEF RouteInv, Apt, Infos

(* What is on the wires when a packet has been sent on.                    *)
LEMMA WiresSame ==
  ASSUME Grown, UNCHANGED links, NEW wires, GoodWires(sent, wires)
  PROVE  wires \in [Wires' -> Seq(Msgs)] /\ \A w \in Wires' : \A k \in 1 .. Len(wires[w]) :
           GoodMsg(sent', w, wires[w][k])
<1>1. Len(sent) \in Nat /\ Len(sent') \in Nat /\ Len(sent) <= Len(sent')
  BY DEF Grown
<1>2. \A w, msg : GoodMsg(sent, w, msg) => GoodMsg(sent', w, msg)
  <2> SUFFICES ASSUME NEW w, NEW msg, GoodMsg(sent, w, msg) PROVE GoodMsg(sent', w, msg)
    OBVIOUS
  <2>1. msg.id \in 1 .. Len(sent') /\ sent'[msg.id] = sent[msg.id]
    BY <1>1 DEF GoodMsg, Grown
  <2>2. QED
    BY <2>1 DEF GoodMsg, Passed
<1>3. QED
  BY <1>2, Unchanging DEF GoodWires

LEMMA GoodCopy ==
  ASSUME Grown, NEW m \in Muds, NEW n \in Muds, n # m,
         NEW i \in 1 .. Len(sent'), NEW path, Arrived(m, i, path), n \notin ToSet(path)
  PROVE  /\ [id |-> i, path |-> Append(path, m)] \in Msgs
         /\ GoodMsg(sent', <<m, n>>, [id |-> i, path |-> Append(path, m)])
<1> DEFINE new == Append(path, m)
           msg == [id |-> i, path |-> new]
<1>1. path \in Seq(Muds) /\ Len(path) \in Nat
  <2>1. path \in Seq(Muds)
    <3>1. CASE path = <<>>
      BY <3>1
    <3>2. CASE path # <<>>
      BY <3>2 DEF Arrived, Passed
    <3>3. QED
      BY <3>1, <3>2
  <2>2. QED
    BY <2>1
<1>2. /\ \A j, k \in 1 .. Len(path) : path[j] = path[k] => j = k
      /\ \A k \in 1 .. Len(path) : path[k] # m /\ path[k] # n
  <2>1. \A k \in 1 .. Len(path) : path[k] # n
    BY <1>1 DEF ToSet
  <2>2. CASE path = <<>>
    BY <2>2
  <2>3. CASE path # <<>>
    BY <2>1, <2>3 DEF Arrived, Passed
  <2>4. QED
    BY <2>2, <2>3
<1>3. /\ new \in Seq(Muds) /\ new # <<>> /\ Len(new) = Len(path) + 1
      /\ \A k \in 1 .. Len(path) : new[k] = path[k]
      /\ new[Len(path) + 1] = m
  BY <1>1, AppendProperties
<1>4. new[1] = sent'[i].from
  <2>1. CASE path = <<>>
    <3>1. Len(path) = 0 /\ sent'[i].from = m
      BY <2>1 DEF Arrived, Passed
    <3>2. QED
      BY <1>3, <3>1
  <2>2. CASE path # <<>>
    <3>1. 1 \in 1 .. Len(path)
      BY <1>1, <2>2
    <3>2. path[1] = sent'[i].from
      BY <2>2 DEF Arrived, Passed
    <3>3. QED
      BY <1>3, <3>1, <3>2
  <2>3. QED
    BY <2>1, <2>2
<1> HIDE DEF new
<1>5. \A k \in 1 .. Len(new) : k \in 1 .. Len(path) \/ k = Len(path) + 1
  BY <1>1, <1>3
<1>6. \A j, k \in 1 .. Len(new) : new[j] = new[k] => j = k
  BY <1>2, <1>3, <1>5
<1>7. \A k \in 1 .. Len(new) : new[k] # n
  BY <1>2, <1>3, <1>5
<1>8. Passed(sent', i, new)
  BY <1>3, <1>4, <1>6 DEF Passed
<1>9. new[Len(new)] = m
  BY <1>3
<1>10. msg \in Msgs
  BY <1>3 DEF Msgs, Grown
<1>11. GoodMsg(sent', <<m, n>>, msg)
  BY <1>7, <1>8, <1>9 DEF GoodMsg
<1>12. QED
  BY <1>10, <1>11 DEF new

LEMMA WiresMore ==
  ASSUME NetInv, Grown, UNCHANGED links, NEW wires, GoodWires(sent, wires),
         NEW m \in Muds, NEW i \in 1 .. Len(sent'), NEW path, Arrived(m, i, path),
         NEW hops, \A n \in hops : n \notin ToSet(path),
         wire' = [w \in Wires |-> IF w[1] = m /\ w[2] \in hops /\ up[<<w[2], m>>]
                                  THEN Append(wires[w], [id |-> i, path |-> Append(path, m)])
                                  ELSE wires[w]]
  PROVE  WireInv'
<1> DEFINE copy == [id |-> i, path |-> Append(path, m)]
           Good(w, s) == s \in Seq(Msgs) /\ \A k \in 1 .. Len(s) : GoodMsg(sent', w, s[k])
<1>1. \A w \in Wires : Good(w, wires[w])
  BY WiresSame, Unchanging
<1>2. ASSUME NEW w \in Wires, w[1] = m, w[2] \in hops
      PROVE  Good(w, Append(wires[w], copy))
  <2>1. copy \in Msgs /\ GoodMsg(sent', w, copy)
    <3>1. w = <<m, w[2]>> /\ w[2] \in Muds /\ w[2] # m
      BY <1>2, Neighbours
    <3>2. w[2] \notin ToSet(path)
      BY <1>2
    <3>3. copy \in Msgs /\ GoodMsg(sent', <<m, w[2]>>, copy)
      BY <3>1, <3>2, GoodCopy
    <3>4. QED
      BY <3>1, <3>3
  <2> HIDE DEF copy
  <2>2. /\ Append(wires[w], copy) \in Seq(Msgs)
        /\ Len(Append(wires[w], copy)) = Len(wires[w]) + 1
        /\ \A k \in 1 .. Len(wires[w]) : Append(wires[w], copy)[k] = wires[w][k]
        /\ Append(wires[w], copy)[Len(wires[w]) + 1] = copy
    BY <1>1, <2>1, AppendProperties
  <2>3. \A k \in 1 .. Len(Append(wires[w], copy)) :
          k \in 1 .. Len(wires[w]) \/ k = Len(wires[w]) + 1
    BY <1>1, <2>2
  <2>4. QED
    BY <1>1, <2>1, <2>2, <2>3
<1> HIDE DEF Good, copy
<1>3. \A w \in Wires : Good(w, wire'[w])
  BY <1>1, <1>2 DEF copy
<1>4. wire' = [w \in Wires |-> wire'[w]]
  OBVIOUS
<1>5. QED
  BY <1>3, <1>4, Unchanging DEF WireInv, GoodWires, Good
-----------------------------------------------------------------------------
(* Why a packet is turned away.                                            *)
Reason(i) ==
  \/ sent[i].from \in rewound
  \/ \E j \in Packets : /\ j > i /\ sent[j].from = sent[i].from
                        /\ sent[j].seq > sent[i].seq + IMC_PACKET_LIFETIME

LEMMA ReasonsStay ==
  ASSUME Grown, rewound \subseteq rewound', NEW i \in Packets, Reason(i)
  PROVE  Reason(i)'
<1>1. sent'[i] = sent[i]
  BY KeysStay
<1>2. CASE sent[i].from \in rewound
  BY <1>1, <1>2 DEF Reason
<1>3. CASE sent[i].from \notin rewound
  <2>1. PICK j \in Packets : /\ j > i /\ sent[j].from = sent[i].from
                             /\ sent[j].seq > sent[i].seq + IMC_PACKET_LIFETIME
    BY <1>3 DEF Reason
  <2>2. j \in Packets' /\ sent'[j] = sent[j]
    BY KeysStay
  <2>3. QED
    BY <1>1, <2>1, <2>2 DEF Reason
<1>4. QED
  BY <1>2, <1>3

LEMMA RefusedIs == RefusedForAReason <=> \A r \in refused : Reason(r[2])
  BY DEF RefusedForAReason, Reason

LEMMA RefusedIsPrime == RefusedForAReason' <=> \A r \in refused' : Reason(r[2])'
  BY DEF RefusedForAReason, Reason

LEMMA RefusedSame ==
  ASSUME MemInv, RefusedForAReason, Grown, rewound \subseteq rewound',
         refused' \subseteq refused
  PROVE  RefusedForAReason'
<1>1. \A r \in refused : r[2] \in Packets
  BY DEF MemInv
<1>2. \A r \in refused : Reason(r[2])'
  BY <1>1, RefusedIs, ReasonsStay
<1>3. QED
  BY <1>2, RefusedIsPrime

LEMMA RefusedMore ==
  ASSUME MemInv, RefusedForAReason, Grown, rewound \subseteq rewound',
         NEW m \in Muds, NEW i \in 1 .. Len(sent'),
         refused' = refused \cup (IF i \in seen[m] THEN {} ELSE {<<m, i>>}),
         i \notin seen[m] => Reason(i)'
  PROVE  RefusedForAReason'
<1>1. \A r \in refused : r[2] \in Packets
  BY DEF MemInv
<1>2. \A r \in refused : Reason(r[2])'
  BY <1>1, RefusedIs, ReasonsStay
<1>3. \A r \in refused' : r \in refused \/ (i \notin seen[m] /\ r[2] = i)
  OBVIOUS
<1>4. ASSUME NEW r \in refused' PROVE Reason(r[2])'
  BY <1>2, <1>3
<1>5. QED
  BY <1>4, RefusedIsPrime

(* A key that is remembered: the packet's own, unless its sender had been  *)
(* rewound, so that it was taken in or turned away before.                 *)
LEMMA RepeatReason ==
  ASSUME MemInv, RefusedForAReason, Grown, rewound \subseteq rewound', SendInv',
         NEW m \in Muds, NEW i \in 1 .. Len(sent'), CheckRepeat(m, sent'[i]), i \notin seen[m]
  PROVE  Reason(i)'
<1>1. PICK k \in 1 .. Len(memory[m]) : memory[m][k] = Key(sent', i)
  <2>1. memory[m] \in Seq(Keys)
    BY DEF MemInv
  <2>2. QED
    BY <2>1 DEF CheckRepeat, ToSet, Key
<1>2. PICK j \in Packets : /\ memory[m][k] = Key(sent, j)
                           /\ j \in seen[m] \/ <<m, j>> \in refused
  BY DEF MemInv
<1>3. i \in Packets' /\ j \in Packets' /\ Key(sent', i) = Key(sent', j)
  BY <1>1, <1>2, KeysStay
<1>4. CASE sent'[i].from \in rewound'
  BY <1>4 DEF Reason
<1>5. CASE sent'[i].from \notin rewound'
  <2>1. i = j
    BY <1>3, <1>5, KeysUnique
  <2>2. <<m, i>> \in refused /\ i \in Packets
    BY <1>2, <2>1
  <2>3. Reason(i)
    BY <2>2, RefusedIs
  <2>4. QED
    BY <2>2, <2>3, ReasonsStay
<1>6. QED
  BY <1>4, <1>5

LEMMA OldReason ==
  ASSUME RouteInv, Grown, SendInv', NEW m \in Muds, NEW i \in 1 .. Len(sent'),
         TooOld(m, sent'[i])
  PROVE  Reason(i)'
<1> DEFINE p == sent'[i]
           top == reminfo[m][p.from].top
<1>1. p.from \in Muds /\ p.seq \in Nat /\ i \in Nat /\ i \in Packets'
  BY RecIs, KeysStay DEF Grown
<1>2. /\ top \in Nat /\ p.seq + IMC_PACKET_LIFETIME < top
      /\ top = 0 \/ \E j \in Packets : sent[j].from = p.from /\ sent[j].seq = top
  <2>1. reminfo[m][p.from] # Unknown /\ p.seq + IMC_PACKET_LIFETIME < top
    BY DEF TooOld, Known
  <2>2. /\ reminfo[m][p.from] \in Entry(m)
        /\ top = 0 \/ \E j \in Packets : sent[j].from = p.from /\ sent[j].seq = top
    BY <1>1, <2>1 DEF RouteInv
  <2>3. top \in Nat
    BY <2>2 DEF Entry
  <2>4. QED
    BY <2>1, <2>2, <2>3
<1>3. IMC_PACKET_LIFETIME \in Nat
  BY ForwardAssumption
<1>4. top # 0 /\ p.seq < top
  BY <1>1, <1>2, <1>3
<1>5. PICK j \in Packets : sent[j].from = p.from /\ sent[j].seq = top
  BY <1>2, <1>4
<1>6. j \in Packets' /\ sent'[j].from = p.from /\ sent'[j].seq = top /\ j \in Nat
  BY <1>5, KeysStay DEF Packets
<1> HIDE DEF top
<1>7. CASE sent'[i].from \in rewound'
  BY <1>7 DEF Reason
<1>8. CASE sent'[i].from \notin rewound'
  <2>1. ~(j < i)
    <3>1. j < i => sent'[j].seq < sent'[i].seq
      BY <1>1, <1>6, <1>8 DEF SendInv
    <3>2. QED
      BY <1>1, <1>2, <1>4, <1>6, <3>1
  <2>2. j # i
    BY <1>1, <1>2, <1>4, <1>6
  <2>3. j > i
    BY <1>1, <1>6, <2>1, <2>2
  <2>4. sent'[j].seq > sent'[i].seq + IMC_PACKET_LIFETIME
    BY <1>1, <1>2, <1>3, <1>6
  <2>5. QED
    BY <1>6, <2>3, <2>4 DEF Reason
<1>9. QED
  BY <1>7, <1>8
-----------------------------------------------------------------------------
LEMMA Forwarding ==
  ASSUME IInv, Grown, SendInv', UNCHANGED <<links, rewound>>,
         NEW m \in Muds, NEW i \in 1 .. Len(sent'), NEW path, Arrived(m, i, path),
         NEW wires, GoodWires(sent, wires), Forward(m, i, path, wires)
  PROVE  IInv'
<1> USE DEF IInv
<1> DEFINE p == sent'[i]
<1>1. NetInv' /\ i \in Packets' /\ Packets \subseteq Packets'
  BY Unchanging, KeysStay
<1>2. refused \subseteq Muds \X Packets' /\ <<m, i>> \in Muds \X Packets'
  BY <1>1 DEF MemInv
<1>3. m \notin ToSet(path)
  BY DEF Arrived, Passed, ToSet
<1>4. CASE CheckRepeat(m, p)
  <2>1. Refuse(m, i, wires, memory[m])
    BY <1>4 DEF Forward
  <2>2. /\ UNCHANGED <<memory, reminfo, seen, twice>> /\ wire' = wires
        /\ refused' = refused \cup (IF i \in seen[m] THEN {} ELSE {<<m, i>>})
    BY <2>1 DEF Refuse, MemInv
  <2>3. MemInv' /\ OnceInv'
    BY <1>2, <2>2, MemorySame
  <2>4. RouteInv'
    BY <2>2, RoutesSame
  <2>5. WireInv'
    BY <2>2, WiresSame DEF WireInv, GoodWires
  <2>6. RefusedForAReason'
    BY <1>4, <2>2, RepeatReason, RefusedMore
  <2>7. QED
    BY <1>1, <2>3, <2>4, <2>5, <2>6
<1>5. CASE ~CheckRepeat(m, p) /\ TooOld(m, p)
  <2>1. Refuse(m, i, wires, Remember(m, p))
    BY <1>5 DEF Forward
  <2>2. /\ UNCHANGED <<reminfo, seen, twice>> /\ wire' = wires
        /\ memory' = [memory EXCEPT ![m] = Remember(m, p)]
        /\ refused' = refused \cup (IF i \in seen[m] THEN {} ELSE {<<m, i>>})
    BY <2>1 DEF Refuse
  <2>3. MemInv' /\ OnceInv'
    <3>1. seen' \in [Muds -> SUBSET Packets']
      BY <1>1, <2>2 DEF MemInv
    <3>2. i \in seen'[m] \/ <<m, i>> \in refused'
      BY <2>2
    <3>3. refused \subseteq refused' /\ refused' \subseteq Muds \X Packets'
      BY <1>2, <2>2
    <3>4. /\ \A n \in Muds : seen[n] \subseteq seen'[n] /\ seen'[n] \subseteq seen[n] \cup {i}
          /\ \A n \in Muds : n # m => seen'[n] = seen[n]
      BY <2>2
    <3>5. QED
      BY <1>5, <2>2, <3>1, <3>2, <3>3, <3>4, MemoryMore
  <2>4. RouteInv'
    BY <2>2, RoutesSame
  <2>5. WireInv'
    BY <2>2, WiresSame DEF WireInv, GoodWires
  <2>6. RefusedForAReason'
    BY <1>5, <2>2, OldReason, RefusedMore
  <2>7. QED
    BY <1>1, <2>3, <2>4, <2>5, <2>6
<1>6. CASE ~CheckRepeat(m, p) /\ ~TooOld(m, p)
  <2>1. TakeIn(m, i, path, wires, Remember(m, p))
    BY <1>3, <1>6 DEF Forward
  <2> DEFINE hops == NextHops(m, path, p.to, UpdateRoutes(m, p, path))
  <2>2. /\ memory' = [memory EXCEPT ![m] = Remember(m, p)]
        /\ reminfo' = [reminfo EXCEPT ![m] = UpdateRoutes(m, p, path)]
        /\ wire' = [w \in Wires |-> IF w[1] = m /\ w[2] \in hops /\ up[<<w[2], m>>]
                                    THEN Append(wires[w], [id |-> i, path |-> Append(path, m)])
                                    ELSE wires[w]]
        /\ twice' = twice \cup (IF i \in seen[m] THEN {<<m, i>>} ELSE {})
        /\ seen' = [seen EXCEPT ![m] = @ \cup {i}]
        /\ refused' = refused
    BY <2>1 DEF TakeIn
  <2>3. \A n \in hops : n \notin ToSet(path)
    BY DEF NextHops
  <2> HIDE DEF hops
  <2>4. MemInv' /\ OnceInv'
    <3>1. seen \in [Muds -> SUBSET Packets']
      BY <1>1 DEF MemInv
    <3>2. /\ seen' \in [Muds -> SUBSET Packets']
          /\ i \in seen'[m]
          /\ \A n \in Muds : seen[n] \subseteq seen'[n] /\ seen'[n] \subseteq seen[n] \cup {i}
          /\ \A n \in Muds : n # m => seen'[n] = seen[n]
      BY <1>1, <2>2, <3>1
    <3>3. refused \subseteq refused' /\ refused' \subseteq Muds \X Packets'
      BY <1>2, <2>2
    <3>4. QED
      BY <1>6, <2>2, <3>2, <3>3, MemoryMore
  <2>5. RouteInv'
    BY <2>2, RoutesMore
  <2>6. WireInv'
    BY <2>2, <2>3, WiresMore
  <2>7. RefusedForAReason'
    BY <2>2, RefusedSame
  <2>8. QED
    BY <1>1, <2>4, <2>5, <2>6, <2>7
<1>7. QED
  BY <1>4, <1>5, <1>6
-----------------------------------------------------------------------------
(* Steps that forward nothing.                                             *)
LEMMA Standing == ASSUME SendInv, UNCHANGED sent PROVE Grown
  BY DEF SendInv, Grown

LEMMA QuietKeeps ==
  ASSUME IInv, SendInv', WireInv', RouteInv', rewound \subseteq rewound',
         UNCHANGED <<links, sent, memory, seen, twice, refused>>
  PROVE  IInv'
<1>1. Grown
  BY Standing DEF IInv
<1>2. refused \subseteq Muds \X Packets'
  BY DEF IInv, MemInv, Packets
<1>3. MemInv' /\ OnceInv'
  BY <1>1, <1>2, MemorySame DEF IInv
<1>4. RefusedForAReason'
  BY <1>1, RefusedSame DEF IInv
<1>5. QED
  BY <1>3, <1>4, Unchanging DEF IInv

LEMMA WiresCleared ==
  ASSUME WireInv, UNCHANGED <<links, sent>>, wire' \in [Wires -> Seq(Msgs)],
         \A w \in Wires : wire'[w] = wire[w] \/ wire'[w] = <<>>
  PROVE  WireInv'
<1>1. \A w \in Wires : \A k \in 1 .. Len(wire'[w]) : GoodMsg(sent, w, wire'[w][k])
  <2> SUFFICES ASSUME NEW w \in Wires, NEW k \in 1 .. Len(wire'[w])
               PROVE  GoodMsg(sent, w, wire'[w][k])
    OBVIOUS
  <2>1. CASE wire'[w] = <<>>
    BY <2>1
  <2>2. CASE wire'[w] = wire[w]
    BY <2>2 DEF WireInv, GoodWires
  <2>3. QED
    BY <2>1, <2>2
<1>2. QED
  BY <1>1, Unchanging DEF WireInv, GoodWires

Fading ==
  /\ DOMAIN reminfo' = Muds
  /\ \A k \in Muds : reminfo'[k] = [n \in Muds |-> reminfo'[k][n]]
  /\ reminfo' = [k \in Muds |-> reminfo'[k]]
  /\ \A k, n \in Muds :
       \/ reminfo'[k][n] = Unknown
       \/ reminfo'[k][n] = reminfo[k][n]
       \/ /\ reminfo[k][n] # Unknown /\ k # n
          /\ reminfo'[k][n] = [reminfo[k][n] EXCEPT !.type = "expired"]

LEMMA RoutesFade ==
  ASSUME RouteInv, UNCHANGED <<links, sent>>, Fading
  PROVE  RouteInv'
<1> DEFINE Infos == {Unknown} \cup [type : {"normal", "expired", "revived"}, route : Muds, top : Nat]
           Apt(k, n, r) == r # Unknown =>
              /\ r \in Entry(k)
              /\ r.top = 0 \/ \E j \in Packets : sent[j].from = n /\ sent[j].seq = r.top
<1>1. \A k, n \in Muds : /\ reminfo[k][n] \in Infos /\ Apt(k, n, reminfo[k][n])
                         /\ reminfo[k][k] = Unknown
  BY DEF RouteInv
<1>2. ASSUME NEW k \in Muds, NEW n \in Muds
      PROVE  /\ reminfo'[k][n] \in Infos /\ Apt(k, n, reminfo'[k][n])
             /\ k = n => reminfo'[k][n] = Unknown
  <2>1. CASE reminfo'[k][n] = Unknown
    BY <2>1
  <2>2. CASE reminfo'[k][n] = reminfo[k][n]
    BY <1>1, <2>2
  <2>3. CASE reminfo[k][n] # Unknown /\ k # n
             /\ reminfo'[k][n] = [reminfo[k][n] EXCEPT !.type = "expired"]
    <3> DEFINE old == reminfo[k][n]
               new == reminfo'[k][n]
    <3>1. old \in Entry(k) /\ old \in [type : {"normal", "expired", "revived"}, route : Muds, top : Nat]
      BY <1>1, <2>3
    <3>2. /\ new \in Entry(k) /\ new.top = old.top
          /\ new \in [type : {"normal", "expired", "revived"}, route : Muds, top : Nat]
      BY <2>3, <3>1 DEF Entry
    <3>3. QED
      BY <1>1, <2>3, <3>2
  <2>4. QED
    BY <2>1, <2>2, <2>3 DEF Fading
<1> HIDE DEF Infos
<1>3. reminfo' \in [Muds -> [Muds -> Infos]]
  BY <1>2 DEF Fading
<1>4. /\ Packets' = Packets /\ sent' = sent /\ \A k \in Muds : Entry(k)' = Entry(k)
      /\ Infos' = Infos
  BY Unchanging DEF Packets, Infos
<1>5. \A k, n \in Muds : reminfo'[k][n] # Unknown =>
        /\ reminfo'[k][n] \in Entry(k)'
        /\ reminfo'[k][n].top = 0 \/ \E j \in Packets' :
             sent'[j].from = n /\ sent'[j].seq = reminfo'[k][n].top
  BY <1>2, <1>4
<1>6. \A k \in Muds : reminfo'[k][k] = Unknown
  BY <1>2
<1>7. QED
  BY <1>3, <1>5, <1>6 DEF RouteInv, Infos
-----------------------------------------------------------------------------
LEMMA ImcSendKeeps ==
  ASSUME IInv, NEW m \in Members, NEW to \in Members \cup {All}, ImcSend(m, to)
  PROVE  IInv'
<1> USE DEF IInv
<1> DEFINE rec == [from |-> m, seq |-> sequence[m], to |-> to, since |-> trouble]
<1>1. /\ m \in Muds /\ rec \in Recs
  BY Neighbours DEF SendInv, Recs
<1>2. /\ sent' = Append(sent, rec) /\ packets > 0 /\ packets' = packets - 1
      /\ sequence' = [sequence EXCEPT ![m] = @ + 1]
      /\ Forward(m, Len(sent) + 1, <<>>, wire)
      /\ UNCHANGED <<links, now, up, rewound, trouble, changes>>
      /\ rec.from = m /\ rec.seq = sequence[m]
  BY DEF ImcSend
<1> HIDE DEF rec
<1>3. /\ sent' \in Seq(Recs) /\ Len(sent') = Len(sent) + 1 /\ Len(sent) \in Nat
      /\ \A i \in 1 .. Len(sent) : sent'[i] = sent[i]
      /\ sent'[Len(sent) + 1] = rec
  BY <1>1, <1>2, AppendProperties DEF SendInv
<1>4. Grown
  BY <1>3 DEF Grown
<1>5. SendInv'
  <2>1. sequence \in [Muds -> Nat] /\ sequence' \in [Muds -> Nat]
        /\ sequence'[m] = sequence[m] + 1
        /\ \A n \in Muds : sequence[n] <= sequence'[n]
    BY <1>1, <1>2 DEF SendInv
  <2>2. \A i \in Packets' : i \in Packets \/ i = Len(sent) + 1
    BY <1>3 DEF Packets
  <2>3. \A i \in Packets : /\ sent'[i] = sent[i] /\ sent[i].from \in Muds /\ sent[i].seq \in Nat
                           /\ i < Len(sent) + 1 /\ i \in Nat
    BY <1>3, RecIs DEF Packets, SendInv
  <2>4. ASSUME NEW i \in Packets', sent'[i].from \notin rewound'
        PROVE  sent'[i].seq < sequence'[sent'[i].from]
    <3>1. CASE i = Len(sent) + 1
      BY <1>1, <1>2, <1>3, <2>1, <3>1
    <3>2. CASE i \in Packets
      <4>1. sent[i].seq < sequence[sent[i].from]
        BY <1>2, <2>3, <2>4, <3>2 DEF SendInv
      <4>2. QED
        BY <2>1, <2>3, <3>2, <4>1
    <3>3. QED
      BY <2>2, <3>1, <3>2
  <2>5. ASSUME NEW i \in Packets', NEW j \in Packets', i < j, sent'[i].from = sent'[j].from,
               sent'[i].from \notin rewound'
        PROVE  sent'[i].seq < sent'[j].seq
    <3>1. i \in Packets
      BY <1>3, <2>2, <2>3, <2>5
    <3>2. CASE j \in Packets
      BY <1>2, <2>3, <2>5, <3>1, <3>2 DEF SendInv
    <3>3. CASE j = Len(sent) + 1
      <4>1. sent[i].from = m /\ sent[i].from \notin rewound
        BY <1>2, <1>3, <2>3, <2>5, <3>1, <3>3
      <4>2. sent[i].seq < sequence[m]
        BY <3>1, <4>1 DEF SendInv
      <4>3. QED
        BY <1>2, <1>3, <2>3, <3>1, <3>3, <4>2
    <3>4. QED
      BY <2>2, <3>2, <3>3
  <2>6. packets' \in Nat
    BY <1>2 DEF SendInv
  <2>7. up' \in [Wires' -> BOOLEAN]
    BY <1>2, Unchanging DEF SendInv
  <2>8. QED
    BY <1>2, <1>3, <2>1, <2>4, <2>5, <2>6, <2>7 DEF SendInv
<1>6. Arrived(m, Len(sent) + 1, <<>>) /\ Len(sent) + 1 \in 1 .. Len(sent')
  BY <1>2, <1>3 DEF Arrived
<1>7. GoodWires(sent, wire)
  BY DEF WireInv
<1>8. QED
  BY <1>1, <1>2, <1>4, <1>5, <1>6, <1>7, Forwarding

(* The clock and the numbers taken from it never go back.                  *)
LEMMA NumbersGrow ==
  ASSUME SendInv, UNCHANGED <<links, sent, rewound>>, now' \in Nat,
         trouble' \in Nat, packets' \in Nat, changes' \in Nat, up' \in [Wires -> BOOLEAN],
         sequence' \in [Muds -> Nat], \A n \in Muds : sequence[n] <= sequence'[n]
  PROVE  SendInv'
<1>1. \A i \in Packets : sent[i].from \in Muds /\ sent[i].seq \in Nat
  BY RecIs DEF Packets, SendInv
<1>2. \A i \in Packets : sent[i].from \notin rewound => sent[i].seq < sequence'[sent[i].from]
  <2> SUFFICES ASSUME NEW i \in Packets, sent[i].from \notin rewound
               PROVE  sent[i].seq < sequence'[sent[i].from]
    OBVIOUS
  <2>1. sent[i].seq < sequence[sent[i].from] /\ sequence[sent[i].from] \in Nat
    BY <1>1 DEF SendInv
  <2>2. QED
    BY <1>1, <2>1
<1>3. Packets' = Packets
  BY DEF Packets
<1>4. QED
  BY <1>2, <1>3, Unchanging DEF SendInv

LEMMA CatchingUp ==
  ASSUME SendInv, NEW m \in Muds, sequence' = [sequence EXCEPT ![m] = CaughtUp(m)]
  PROVE  sequence' \in [Muds -> Nat] /\ \A n \in Muds : sequence[n] <= sequence'[n]
  BY DEF SendInv, CaughtUp

LEMMA ImcReceiveKeeps ==
  ASSUME IInv, NEW m \in Members, NEW n \in Peers(m), ImcReceive(m, n)
  PROVE  IInv'
<1> USE DEF IInv
<1> DEFINE w == <<n, m>>
           msg == Head(wire[w])
           wires == [wire EXCEPT ![w] = Tail(@)]
<1>1. m \in Muds /\ n \in Muds /\ w \in Wires
  BY Neighbours
<1>2. /\ wire[w] # <<>> /\ sequence' = [sequence EXCEPT ![m] = CaughtUp(m)]
      /\ sent' = sent
      /\ Forward(m, msg.id, msg.path, wires)
      /\ UNCHANGED <<links, now, up, rewound, trouble, packets, changes>>
  BY DEF ImcReceive
<1>3. /\ wire[w] \in Seq(Msgs) /\ Len(wire[w]) \in Nat /\ 1 \in 1 .. Len(wire[w])
      /\ msg = wire[w][1]
  <2>1. wire[w] \in Seq(Msgs)
    BY <1>1 DEF WireInv, GoodWires
  <2>2. QED
    BY <1>2, <2>1
<1>4. GoodMsg(sent, w, msg)
  BY <1>1, <1>3 DEF WireInv, GoodWires
<1>5. Grown
  BY <1>2, Standing
<1>6. SendInv'
  <2>1. sequence' \in [Muds -> Nat] /\ \A k \in Muds : sequence[k] <= sequence'[k]
    BY <1>1, <1>2, CatchingUp
  <2>2. now' \in Nat /\ trouble' \in Nat /\ packets' \in Nat /\ changes' \in Nat
        /\ up' \in [Wires -> BOOLEAN]
    BY <1>2 DEF SendInv
  <2>3. QED
    BY <1>2, <2>1, <2>2, NumbersGrow
<1>7. Arrived(m, msg.id, msg.path) /\ msg.id \in 1 .. Len(sent')
  BY <1>2, <1>4 DEF Arrived, GoodMsg
<1>8. GoodWires(sent, wires)
  <2>1. /\ Tail(wire[w]) \in Seq(Msgs) /\ Len(Tail(wire[w])) = Len(wire[w]) - 1
        /\ \A k \in 1 .. Len(Tail(wire[w])) : Tail(wire[w])[k] = wire[w][k + 1]
    BY <1>2, <1>3, HeadTailProperties
  <2>2. \A k \in 1 .. Len(Tail(wire[w])) : GoodMsg(sent, w, Tail(wire[w])[k])
    <3>1. \A k \in 1 .. Len(Tail(wire[w])) : k + 1 \in 1 .. Len(wire[w])
      BY <1>3, <2>1
    <3>2. QED
      BY <1>1, <2>1, <3>1 DEF WireInv, GoodWires
  <2>3. wires \in [Wires -> Seq(Msgs)]
    BY <2>1 DEF WireInv, GoodWires
  <2>4. ASSUME NEW v \in Wires, NEW k \in 1 .. Len(wires[v])
        PROVE  GoodMsg(sent, v, wires[v][k])
    <3>1. CASE v = w
      <4>1. wires[v] = Tail(wire[w])
        BY <1>1, <3>1 DEF WireInv, GoodWires
      <4>2. k \in 1 .. Len(Tail(wire[w]))
        BY <2>4, <4>1
      <4>3. QED
        BY <2>2, <3>1, <4>1, <4>2
    <3>2. CASE v # w
      <4>1. wires[v] = wire[v]
        BY <3>2 DEF WireInv, GoodWires
      <4>2. QED
        BY <2>4, <4>1 DEF WireInv, GoodWires
    <3>3. QED
      BY <3>1, <3>2
  <2>5. QED
    BY <2>3, <2>4 DEF GoodWires
<1> HIDE DEF w, msg, wires
<1>9. QED
  BY <1>1, <1>2, <1>5, <1>6, <1>7, <1>8, Forwarding
-----------------------------------------------------------------------------
LEMMA RoutesUntouched ==
  ASSUME IInv, UNCHANGED <<links, sent, reminfo>> PROVE RouteInv'
  BY Standing, RoutesSame DEF IInv

LEMMA WiresUntouched ==
  ASSUME IInv, UNCHANGED <<links, sent, wire>> PROVE WireInv'
  BY Unchanging DEF IInv, WireInv, GoodWires

LEMMA ClockKeeps ==
  ASSUME IInv, Tick \/ \E m \in Members : ImcIdle(m)
  PROVE  IInv'
<1>1. /\ UNCHANGED <<links, sent, wire, up, memory, reminfo, seen, twice, refused, rewound,
                     trouble, packets>>
      /\ now' \in Nat /\ changes' \in Nat
      /\ sequence' \in [Muds -> Nat] /\ \A n \in Muds : sequence[n] <= sequence'[n]
  <2>1. CASE Tick
    BY <2>1 DEF Tick, Spend, IInv, SendInv
  <2>2. ASSUME NEW m \in Members, ImcIdle(m)
        PROVE  /\ UNCHANGED <<links, sent, wire, up, memory, reminfo, seen, twice, refused,
                              rewound, trouble, packets, now, changes>>
               /\ sequence' \in [Muds -> Nat] /\ \A n \in Muds : sequence[n] <= sequence'[n]
    BY <2>2, Neighbours, CatchingUp DEF ImcIdle, IInv
  <2>3. QED
    BY <2>1, <2>2 DEF IInv, SendInv
<1>2. SendInv'
  BY <1>1, NumbersGrow DEF IInv, SendInv
<1>3. QED
  BY <1>1, <1>2, WiresUntouched, RoutesUntouched, QuietKeeps

LEMMA Spending == ASSUME SendInv, Change PROVE /\ trouble' \in Nat /\ changes' \in Nat /\ packets' \in Nat
  BY DEF SendInv, Change, Spend

LEMMA DoCloseKeeps ==
  ASSUME IInv, NEW m \in Members, NEW n \in Peers(m), DoClose(m, n),
         trouble' \in Nat, changes' \in Nat, packets' \in Nat
  PROVE  IInv'
<1> USE DEF IInv
<1>1. /\ m \in Muds /\ n \in Muds /\ m # n
      /\ up' = [up EXCEPT ![<<m, n>>] = FALSE]
      /\ wire' = [wire EXCEPT ![<<n, m>>] = <<>>]
      /\ reminfo' = [reminfo EXCEPT ![m] = [@ EXCEPT ![n] = Unknown]]
      /\ UNCHANGED <<links, now, sequence, sent, memory, seen, twice, refused, rewound>>
  BY Neighbours DEF DoClose, Forget
<1>2. SendInv'
  <2>1. up' \in [Wires -> BOOLEAN]
    BY <1>1 DEF SendInv
  <2>2. now' \in Nat /\ sequence' \in [Muds -> Nat] /\ \A k \in Muds : sequence[k] <= sequence'[k]
    BY <1>1 DEF SendInv
  <2>3. QED
    BY <1>1, <2>1, <2>2, NumbersGrow
<1>3. WireInv'
  <2>1. wire \in [Wires -> Seq(Msgs)] /\ <<>> \in Seq(Msgs)
    BY DEF WireInv, GoodWires
  <2>2. /\ wire' \in [Wires -> Seq(Msgs)]
        /\ \A w \in Wires : wire'[w] = wire[w] \/ wire'[w] = <<>>
    BY <1>1, <2>1
  <2>3. QED
    BY <1>1, <2>2, WiresCleared
<1>4. RouteInv'
  <2>1. reminfo = [k \in Muds |-> reminfo[k]]
        /\ \A k \in Muds : reminfo[k] = [l \in Muds |-> reminfo[k][l]]
    BY DEF RouteInv
  <2>2. /\ DOMAIN reminfo' = Muds /\ reminfo' = [k \in Muds |-> reminfo'[k]]
        /\ \A k \in Muds : reminfo'[k] = [l \in Muds |-> reminfo'[k][l]]
        /\ \A k, l \in Muds : reminfo'[k][l] \in {Unknown, reminfo[k][l]}
    BY <1>1, <2>1
  <2>3. Fading
    BY <2>2 DEF Fading
  <2>4. QED
    BY <1>1, <2>3, RoutesFade
<1>5. QED
  BY <1>1, <1>2, <1>3, <1>4, QuietKeeps

LEMMA LinkUpKeeps ==
  ASSUME IInv, NEW m \in Members, NEW n \in Peers(m), LinkUp(m, n)
  PROVE  IInv'
<1> USE DEF IInv
<1>1. /\ up' = [up EXCEPT ![<<m, n>>] = TRUE, ![<<n, m>>] = TRUE]
      /\ wire' = [wire EXCEPT ![<<m, n>>] = <<>>, ![<<n, m>>] = <<>>]
      /\ UNCHANGED <<links, now, sequence, sent, memory, reminfo, seen, twice, refused, rewound>>
      /\ trouble' \in Nat /\ changes' \in Nat /\ packets' \in Nat
  BY Spending DEF LinkUp
<1>2. SendInv'
  <2>1. up' \in [Wires -> BOOLEAN]
    BY <1>1 DEF SendInv
  <2>2. now' \in Nat /\ sequence' \in [Muds -> Nat] /\ \A k \in Muds : sequence[k] <= sequence'[k]
    BY <1>1 DEF SendInv
  <2>3. QED
    BY <1>1, <2>1, <2>2, NumbersGrow
<1>3. WireInv'
  <2>1. wire \in [Wires -> Seq(Msgs)] /\ <<>> \in Seq(Msgs)
    BY DEF WireInv, GoodWires
  <2>2. /\ wire' \in [Wires -> Seq(Msgs)]
        /\ \A w \in Wires : wire'[w] = wire[w] \/ wire'[w] = <<>>
    BY <1>1, <2>1
  <2>3. QED
    BY <1>1, <2>2, WiresCleared
<1>4. QED
  BY <1>1, <1>2, <1>3, RoutesUntouched, QuietKeeps

LEMMA ExpiryKeeps ==
  ASSUME IInv, NEW m \in Members, NEW n \in Members, ExpireReminfo(m, n) \/ DropReminfo(m, n)
  PROVE  IInv'
<1> USE DEF IInv
<1>1. /\ m \in Muds /\ n \in Muds
      /\ reminfo[m][n].type \in {"normal", "expired", "revived"}
      /\ \/ reminfo' = [reminfo EXCEPT ![m][n].type = "expired"]
         \/ reminfo' = [reminfo EXCEPT ![m] = [@ EXCEPT ![n] = Unknown]]
      /\ UNCHANGED <<links, now, sequence, sent, wire, up, memory, seen, twice, refused, rewound>>
      /\ trouble' \in Nat /\ changes' \in Nat /\ packets' \in Nat
  BY Neighbours, Spending DEF ExpireReminfo, DropReminfo, Forget, SendInv
<1>2. SendInv'
  <2>1. /\ now' \in Nat /\ sequence' \in [Muds -> Nat] /\ up' \in [Wires -> BOOLEAN]
        /\ \A k \in Muds : sequence[k] <= sequence'[k]
    BY <1>1 DEF SendInv
  <2>2. QED
    BY <1>1, <2>1, NumbersGrow
<1>3. RouteInv'
  <2>1. /\ reminfo = [k \in Muds |-> reminfo[k]] /\ reminfo[m][m] = Unknown
        /\ \A k \in Muds : reminfo[k] = [l \in Muds |-> reminfo[k][l]]
    BY <1>1 DEF RouteInv
  <2>2. reminfo[m][n] # Unknown /\ m # n
    BY <1>1, <2>1 DEF Unknown
  <2>3. /\ DOMAIN reminfo' = Muds /\ reminfo' = [k \in Muds |-> reminfo'[k]]
        /\ \A k \in Muds : reminfo'[k] = [l \in Muds |-> reminfo'[k][l]]
        /\ \A k, l \in Muds :
             \/ reminfo'[k][l] \in {Unknown, reminfo[k][l]}
             \/ /\ k = m /\ l = n
                /\ reminfo'[k][l] = [reminfo[k][l] EXCEPT !.type = "expired"]
    BY <1>1, <2>1
  <2>4. Fading
    BY <2>2, <2>3 DEF Fading
  <2>5. QED
    BY <1>1, <2>4, RoutesFade
<1>4. QED
  BY <1>1, <1>2, <1>3, WiresUntouched, QuietKeeps

LEMMA RestartKeeps ==
  ASSUME IInv, NEW m \in Members, Restart(m)
  PROVE  IInv'
<1> USE DEF IInv
<1>1. /\ m \in Muds
      /\ sequence' = [sequence EXCEPT ![m] = now]
      /\ rewound' = IF sequence[m] > now THEN rewound \cup {m} ELSE rewound
      /\ memory' = [memory EXCEPT ![m] = <<>>]
      /\ reminfo' = [reminfo EXCEPT ![m] = [n \in Muds |-> Unknown]]
      /\ seen' = [seen EXCEPT ![m] = {}]
      /\ twice' = {t \in twice : t[1] # m}
      /\ up' = [w \in Wires |-> w[1] # m /\ up[w]]
      /\ wire' = [w \in Wires |-> IF w[2] = m THEN <<>> ELSE wire[w]]
      /\ UNCHANGED <<links, now, sent, refused>>
      /\ trouble' \in Nat /\ changes' \in Nat /\ packets' \in Nat
  BY Neighbours, Spending DEF Restart
<1>2. Grown /\ Packets' = Packets
  BY <1>1, Standing DEF Packets
<1>3. SendInv'
  <2>1. sequence' \in [Muds -> Nat] /\ up' \in [Wires -> BOOLEAN]
    <3>1. up' \in [Wires -> BOOLEAN]
      BY <1>1 DEF SendInv
    <3>2. sequence' \in [Muds -> Nat]
      BY <1>1 DEF SendInv
    <3>3. QED
      BY <3>1, <3>2
  <2>2. \A n \in Muds : n \notin rewound' => n \notin rewound /\ sequence[n] <= sequence'[n]
    BY <1>1 DEF SendInv
  <2>3. ASSUME NEW i \in Packets, sent[i].from \notin rewound'
        PROVE  sent[i].seq < sequence'[sent[i].from]
    <3>1. sent[i].from \in Muds /\ sent[i].seq \in Nat
      BY RecIs DEF Packets, SendInv
    <3>2. sent[i].seq < sequence[sent[i].from] /\ sequence[sent[i].from] <= sequence'[sent[i].from]
      BY <2>2, <2>3, <3>1 DEF SendInv
    <3>3. sequence[sent[i].from] \in Nat /\ sequence'[sent[i].from] \in Nat
      BY <2>1, <3>1 DEF SendInv
    <3>4. QED
      BY <3>1, <3>2, <3>3
  <2>4. \A i, j \in Packets :
          i < j /\ sent[i].from = sent[j].from /\ sent[i].from \notin rewound'
            => sent[i].seq < sent[j].seq
    <3>1. rewound \subseteq rewound'
      BY <1>1
    <3>2. QED
      BY <3>1 DEF SendInv
  <2>5. QED
    BY <1>1, <1>2, <2>1, <2>3, <2>4, Unchanging DEF SendInv
<1>4. WireInv'
  <2>1. wire \in [Wires -> Seq(Msgs)] /\ <<>> \in Seq(Msgs)
    BY DEF WireInv, GoodWires
  <2>2. /\ wire' \in [Wires -> Seq(Msgs)]
        /\ \A w \in Wires : wire'[w] = wire[w] \/ wire'[w] = <<>>
    BY <1>1, <2>1
  <2>3. QED
    BY <1>1, <2>2, WiresCleared
<1>5. RouteInv'
  <2>1. reminfo = [k \in Muds |-> reminfo[k]]
        /\ \A k \in Muds : reminfo[k] = [l \in Muds |-> reminfo[k][l]]
    BY DEF RouteInv
  <2>2. /\ DOMAIN reminfo' = Muds /\ reminfo' = [k \in Muds |-> reminfo'[k]]
        /\ \A k \in Muds : reminfo'[k] = [l \in Muds |-> reminfo'[k][l]]
        /\ \A k, l \in Muds : reminfo'[k][l] \in {Unknown, reminfo[k][l]}
    BY <1>1, <2>1
  <2>3. Fading
    BY <2>2 DEF Fading
  <2>4. QED
    BY <1>1, <2>3, RoutesFade
<1>6. \A n \in Muds : n # m => memory'[n] = memory[n] /\ seen'[n] = seen[n]
  BY <1>1
<1>7. memory'[m] = <<>> /\ seen'[m] = {} /\ Len(<<>>) = 0
  BY <1>1 DEF MemInv
<1>8. MemInv'
  <2>1. memory' \in [Muds -> Seq(Keys)] /\ seen' \in [Muds -> SUBSET Packets']
    <3>1. memory \in [Muds -> Seq(Keys)] /\ seen \in [Muds -> SUBSET Packets] /\ <<>> \in Seq(Keys)
      BY DEF MemInv
    <3>2. QED
      BY <1>1, <1>2, <3>1
  <2>2. ASSUME NEW n \in Muds
        PROVE  /\ Len(memory'[n]) <= IMC_MEMORY
               /\ \A j, k \in 1 .. Len(memory'[n]) : memory'[n][j] = memory'[n][k] => j = k
               /\ \A k \in 1 .. Len(memory'[n]) :
                    \E j \in Packets : /\ memory'[n][k] = Key(sent, j)
                                       /\ j \in seen'[n] \/ <<n, j>> \in refused
    <3>1. CASE n = m
      BY <1>7, <3>1, ForwardAssumption
    <3>2. CASE n # m
      BY <1>6, <3>2 DEF MemInv
    <3>3. QED
      BY <3>1, <3>2
  <2>3. QED
    BY <1>1, <1>2, <2>1, <2>2 DEF MemInv
<1>9. OnceInv'
  <2> SUFFICES ASSUME Len(sent) <= IMC_MEMORY
               PROVE  /\ twice' = {}
                      /\ \A n \in Muds : \A i \in seen'[n] :
                           \E k \in 1 .. Len(memory'[n]) : memory'[n][k] = Key(sent, i)
    BY <1>1 DEF OnceInv
  <2>1. twice' = {}
    BY <1>1 DEF OnceInv
  <2>2. ASSUME NEW n \in Muds, NEW i \in seen'[n]
        PROVE  \E k \in 1 .. Len(memory'[n]) : memory'[n][k] = Key(sent, i)
    BY <1>6, <1>7, <2>2 DEF OnceInv
  <2>3. QED
    BY <2>1, <2>2
<1>10. RefusedForAReason'
  BY <1>1, <1>2, RefusedSame
<1>11. QED
  BY <1>1, <1>3, <1>4, <1>5, <1>8, <1>9, <1>10, Unchanging
-----------------------------------------------------------------------------
LEMMA InitIInv == Init => IInv
<1> SUFFICES ASSUME Init PROVE IInv
  OBVIOUS
<1>1. NetInv /\ packets \in Nat /\ changes \in Nat
  BY ForwardAssumption DEF Init, NetInv
<1>2. sent = <<>> /\ Len(sent) = 0 /\ Packets = {}
  BY DEF Init, Packets
<1>3. SendInv
  BY <1>1, <1>2 DEF Init, SendInv
<1>4. WireInv
  BY DEF Init, WireInv, GoodWires
<1>5. MemInv
  BY ForwardAssumption DEF Init, MemInv
<1>6. OnceInv
  BY DEF Init, OnceInv
<1>7. RouteInv
  BY DEF Init, RouteInv
<1>8. RefusedForAReason
  BY DEF Init, RefusedForAReason
<1>9. QED
  BY <1>1, <1>3, <1>4, <1>5, <1>6, <1>7, <1>8 DEF IInv

LEMMA NextIInv == IInv /\ [Next]_vars => IInv'
<1> SUFFICES ASSUME IInv, [Next]_vars PROVE IInv'
  OBVIOUS
<1>1. ASSUME NEW m \in Members, NEW to \in Members \cup {All}, ImcSend(m, to) PROVE IInv'
  BY <1>1, ImcSendKeeps
<1>2. ASSUME NEW m \in Members, ImcIdle(m) PROVE IInv'
  BY <1>2, ClockKeeps
<1>3. ASSUME NEW m \in Members, Restart(m) PROVE IInv'
  BY <1>3, RestartKeeps
<1>4. ASSUME NEW m \in Members, NEW n \in Peers(m), ImcReceive(m, n) PROVE IInv'
  BY <1>4, ImcReceiveKeeps
<1>5. ASSUME NEW m \in Members, NEW n \in Peers(m), Break(m, n) \/ ReadEof(m, n) PROVE IInv'
  <2>1. DoClose(m, n)
    BY <1>5 DEF Break, ReadEof
  <2>2. trouble' \in Nat /\ changes' \in Nat /\ packets' \in Nat
    BY <1>5, Spending DEF Break, ReadEof, IInv, SendInv
  <2>3. QED
    BY <2>1, <2>2, DoCloseKeeps
<1>6. ASSUME NEW m \in Members, NEW n \in Peers(m), LinkUp(m, n) PROVE IInv'
  BY <1>6, LinkUpKeeps
<1>7. ASSUME NEW m \in Members, NEW n \in Members, ExpireReminfo(m, n) \/ DropReminfo(m, n)
      PROVE  IInv'
  BY <1>7, ExpiryKeeps
<1>8. CASE Tick
  BY <1>8, ClockKeeps
<1>9. CASE UNCHANGED vars
  <2>1. UNCHANGED <<links, sent, wire, up, memory, reminfo, seen, twice, refused, rewound,
                    trouble, packets, changes, now, sequence>>
    BY <1>9 DEF vars
  <2>2. SendInv'
    BY <2>1, Unchanging DEF IInv, SendInv, Packets
  <2>3. QED
    BY <2>1, <2>2, WiresUntouched, RoutesUntouched, QuietKeeps
<1>10. QED
  BY <1>1, <1>2, <1>3, <1>4, <1>5, <1>6, <1>7, <1>8, <1>9 DEF Next

LEMMA TypesFollow == IInv => TypeOK
<1> SUFFICES ASSUME IInv PROVE TypeOK
  OBVIOUS
<1> USE DEF IInv
<1>1. ASSUME NEW w \in Wires, NEW k \in DOMAIN wire[w]
      PROVE  /\ wire[w][k].id \in Packets
             /\ wire[w][k].path # <<>> /\ IsInjective(wire[w][k].path)
             /\ Last(wire[w][k].path) = w[1]
             /\ Head(wire[w][k].path) = sent[wire[w][k].id].from
  <2>1. k \in 1 .. Len(wire[w])
    BY DEF WireInv, GoodWires
  <2> DEFINE msg == wire[w][k]
             path == msg.path
  <2>2. GoodMsg(sent, w, msg)
    BY <2>1 DEF WireInv, GoodWires
  <2> HIDE DEF msg
  <2>3. /\ msg.id \in Packets /\ path \in Seq(Muds) /\ path # <<>>
        /\ path[Len(path)] = w[1] /\ path[1] = sent[msg.id].from
        /\ \A i, j \in 1 .. Len(path) : path[i] = path[j] => i = j
    BY <2>2 DEF GoodMsg, Passed, Packets
  <2> HIDE DEF path
  <2>4. IsInjective(path)
    BY <2>3 DEF IsInjective
  <2>5. Last(path) = w[1] /\ Head(path) = sent[msg.id].from
    BY <2>3 DEF Last
  <2>6. QED
    BY <2>3, <2>4, <2>5 DEF msg, path
<1>2. \A m \in Muds : /\ Len(memory[m]) <= IMC_MEMORY
                      /\ reminfo[m][m] = Unknown
                      /\ \A n \in Muds : \/ reminfo[m][n] = Unknown
                                         \/ /\ reminfo[m][n].type \in {"normal", "expired", "revived"}
                                            /\ reminfo[m][n].route \in Peers(m)
  BY DEF MemInv, RouteInv, Entry
<1>3. \A m \in Muds : seen[m] \subseteq Packets
  BY DEF MemInv
<1>4. QED
  BY <1>1, <1>2, <1>3 DEF TypeOK, SendInv, Recs

(* The strengthened invariant: paths name the muds passed, keys are what   *)
(* senders have used, numbers grow, and routes lead to neighbours.         *)
THEOREM Invariant == Spec => []IInv
  BY InitIInv, NextIInv, PTL DEF Spec

(* A packet never comes back to a mud it has passed: paths on the wires    *)
(* name each mud once, begin at the sender and end at the wire's mud.      *)
THEOREM TypeCorrect == Spec => []TypeOK
  BY Invariant, TypesFollow, PTL

(* forward never takes a packet in twice between two starts of a mud, as   *)
(* long as all packets fit into imc_memory, however they flood.            *)
THEOREM TakenInOnce == Spec => []AtMostOnce
<1>1. IInv => AtMostOnce
  BY DEF IInv, OnceInv, AtMostOnce
<1>2. QED
  BY Invariant, <1>1, PTL

(* checkrepeat and the age test turn a new packet away only if its sender  *)
(* restarted with its numbers ahead of the clock or later packets of the   *)
(* same sender overtook it by more than the lifetime.                      *)
THEOREM AlwaysRefusedForAReason == Spec => []RefusedForAReason
<1>1. IInv => RefusedForAReason
  BY DEF IInv
<1>2. QED
  BY Invariant, <1>1, PTL
-----------------------------------------------------------------------------
(* How a packet spreads.  Recent: nothing has happened to the network     *)
(* since it was sent.  Fresh: a recent broadcast.                          *)
Recent(i) == sent[i].since = trouble
Fresh(i) == Recent(i) /\ sent[i].to = All /\ sent[i].from \notin rewound

Carries(s, i) == \E msg \in ToSet(s) : msg.id = i
Ahead(s, i, j) == \A k \in 1 .. Len(s) :
                    s[k].id = j => \E l \in 1 .. Len(s) : l < k /\ s[l].id = i
Both(m, n) == <<m, n>> \in Wires /\ up[<<m, n>>] /\ up[<<n, m>>]

SinceInv == /\ \A i \in Packets : sent[i].since <= trouble
            /\ \A i, j \in Packets : i < j => sent[i].since <= sent[j].since

(* An end that is closed receives nothing; recent packets come over wires  *)
(* whose sending end is open, and have been taken in by all they passed.   *)
EndsInv == \A w \in Wires : ~up[<<w[2], w[1]>>] => wire[w] = <<>>
PathInv == \A w \in Wires : \A msg \in ToSet(wire[w]) : Recent(msg.id) =>
             up[w] /\ \A x \in ToSet(msg.path) : msg.id \in seen[x]
SenderInv == \A i \in Packets : Recent(i) /\ sent[i].from \notin rewound => i \in seen[sent[i].from]

(* A top sequence number is that of a packet the mud took in.              *)
TopInv == \A m, n \in Muds : Known(m, n) =>
            \/ reminfo[m][n].top = 0
            \/ \E j \in seen[m] : sent[j].from = n /\ sent[j].seq = reminfo[m][n].top

(* Whoever has taken in a fresh broadcast has passed it to all neighbours, *)
(* ahead of all later packets of the same sender.                          *)
FloodInv == \A i \in Packets : Fresh(i) =>
  /\ \A n \in Muds : <<n, i>> \notin refused
  /\ \A m, n \in Muds : Both(m, n) /\ i \in seen[m]
       => i \in seen[n] \/ Carries(wire[<<m, n>>], i)
  /\ \A j \in Packets : j > i /\ sent[j].from = sent[i].from =>
       /\ \A m \in Muds : j \in seen[m] => i \in seen[m]
       /\ \A m, n \in Muds : Both(m, n) => i \in seen[n] \/ Ahead(wire[<<m, n>>], i, j)

(* While the network is untouched: whoever has a route has it through a    *)
(* neighbour that has one, or to the neighbour; and whoever has taken in a *)
(* packet that has not arrived has passed it to everybody, to the          *)
(* addressee, or to a neighbour with a route.                              *)
Got(i, m, n) == i \in seen[n] \/ Carries(wire[<<m, n>>], i) \/ <<n, i>> \in refused
Onward(i, m) ==
  LET to == sent[i].to IN
  \/ \A n \in Peers(m) : Got(i, m, n)
  \/ to \in Peers(m) /\ Got(i, m, to)
  \/ /\ Known(m, to) /\ to \notin Peers(m)
     /\ \E h \in Peers(m) : Known(h, to) /\ Got(i, m, h)

CalmInv == trouble = 0 =>
  /\ rewound = {} /\ \A w \in Wires : up[w]
  /\ \A m, t \in Muds : Known(m, t) =>
       /\ reminfo[m][t].type = "normal"
       /\ reminfo[m][t].route = t \/ Known(reminfo[m][t].route, t)
  /\ \A w \in Wires : \A msg \in ToSet(wire[w]) : \A t \in ToSet(msg.path) :
       t = w[1] \/ Known(w[1], t)
OnwardInv == trouble = 0 =>
  \A i \in Packets : sent[i].to \in Muds /\ i \notin seen[sent[i].to] =>
    \A m \in Muds : i \in seen[m] => Onward(i, m)
FlowInv == /\ SinceInv /\ EndsInv /\ PathInv /\ SenderInv /\ TopInv /\ FloodInv
           /\ CalmInv /\ OnwardInv

LEMMA AppendSet ==
  ASSUME NEW s \in Seq(Msgs), NEW msg \in Msgs
  PROVE  ToSet(Append(s, msg)) = ToSet(s) \cup {msg}
<1> DEFINE t == Append(s, msg)
<1>1. /\ t \in Seq(Msgs) /\ Len(t) = Len(s) + 1 /\ Len(s) \in Nat
      /\ \A k \in 1 .. Len(s) : t[k] = s[k]
      /\ t[Len(s) + 1] = msg
  BY AppendProperties
<1> HIDE DEF t
<1>2. DOMAIN s = 1 .. Len(s) /\ DOMAIN t = 1 .. Len(t)
  BY <1>1
<1>3. \A k \in 1 .. Len(t) : k \in 1 .. Len(s) \/ k = Len(s) + 1
  BY <1>1
<1>4. 1 .. Len(s) \subseteq 1 .. Len(t) /\ Len(s) + 1 \in 1 .. Len(t)
  BY <1>1
<1>5. ToSet(t) = ToSet(s) \cup {msg}
  BY <1>1, <1>2, <1>3, <1>4 DEF ToSet
<1>6. QED
  BY <1>5 DEF t

LEMMA TailSet ==
  ASSUME NEW s \in Seq(Msgs), s # <<>>
  PROVE  /\ ToSet(Tail(s)) \subseteq ToSet(s) /\ Head(s) \in ToSet(s)
         /\ ToSet(s) \subseteq ToSet(Tail(s)) \cup {Head(s)}
         /\ Tail(s) \in Seq(Msgs)
<1> DEFINE t == Tail(s)
<1>1. /\ t \in Seq(Msgs) /\ Len(t) = Len(s) - 1 /\ Len(s) \in Nat /\ Len(s) > 0
      /\ \A k \in 1 .. Len(t) : t[k] = s[k + 1]
      /\ Head(s) = s[1]
  BY HeadTailProperties
<1> HIDE DEF t
<1>2. DOMAIN s = 1 .. Len(s) /\ DOMAIN t = 1 .. Len(t) /\ Len(t) \in Nat
  BY <1>1
<1>3. \A k \in 1 .. Len(t) : k + 1 \in 1 .. Len(s)
  BY <1>1
<1>4. \A k \in 1 .. Len(s) : k = 1 \/ (k - 1 \in 1 .. Len(t) /\ s[k] = t[k - 1])
  BY <1>1
<1>5. ToSet(t) \subseteq ToSet(s)
  BY <1>1, <1>2, <1>3 DEF ToSet
<1>6. \A k \in 1 .. Len(s) : s[k] \in ToSet(t) \cup {Head(s)}
  <2>1. \A k \in 1 .. Len(t) : t[k] \in ToSet(t)
    BY <1>2 DEF ToSet
  <2>2. QED
    BY <1>1, <1>4, <2>1
<1>7. Head(s) \in ToSet(s)
  <2>1. 1 \in 1 .. Len(s)
    BY <1>1
  <2>2. QED
    BY <1>1, <1>2, <2>1 DEF ToSet
<1>8. ToSet(s) \subseteq ToSet(t) \cup {Head(s)}
  BY <1>2, <1>6 DEF ToSet
<1>9. QED
  BY <1>1, <1>5, <1>7, <1>8 DEF t

LEMMA AheadTail ==
  ASSUME NEW s \in Seq(Msgs), s # <<>>, NEW i, NEW j, Ahead(s, i, j)
  PROVE  /\ i # j => Head(s).id # j
         /\ Head(s).id # i => Ahead(Tail(s), i, j)
<1> DEFINE t == Tail(s)
<1>1. /\ t \in Seq(Msgs) /\ Len(t) = Len(s) - 1 /\ Len(s) \in Nat /\ Len(s) > 0
      /\ \A k \in 1 .. Len(t) : t[k] = s[k + 1]
      /\ Head(s) = s[1]
  BY HeadTailProperties
<1> HIDE DEF t
<1>2. Head(s).id # j
  BY <1>1 DEF Ahead
<1>3. ASSUME Head(s).id # i, NEW k \in 1 .. Len(t), t[k].id = j
      PROVE  \E l \in 1 .. Len(t) : l < k /\ t[l].id = i
  <2>1. k + 1 \in 1 .. Len(s) /\ s[k + 1].id = j
    BY <1>1, <1>3
  <2>2. PICK l \in 1 .. Len(s) : l < k + 1 /\ s[l].id = i
    BY <2>1 DEF Ahead
  <2>3. l # 1
    BY <1>1, <1>3, <2>2
  <2>4. l - 1 \in 1 .. Len(t) /\ l - 1 < k /\ t[l - 1] = s[(l - 1) + 1] /\ (l - 1) + 1 = l
    BY <1>1, <2>2, <2>3
  <2>5. QED
    BY <2>2, <2>4
<1>4. QED
  BY <1>2, <1>3 DEF Ahead, t

LEMMA AheadAppend ==
  ASSUME NEW s \in Seq(Msgs), NEW msg \in Msgs, NEW i, NEW j, Ahead(s, i, j),
         msg.id = j => Carries(s, i)
  PROVE  Ahead(Append(s, msg), i, j)
<1> DEFINE t == Append(s, msg)
<1>1. /\ t \in Seq(Msgs) /\ Len(t) = Len(s) + 1 /\ Len(s) \in Nat
      /\ \A k \in 1 .. Len(s) : t[k] = s[k]
      /\ t[Len(s) + 1] = msg
  BY AppendProperties
<1> HIDE DEF t
<1>2. ASSUME NEW k \in 1 .. Len(t), t[k].id = j
      PROVE  \E l \in 1 .. Len(t) : l < k /\ t[l].id = i
  <2>1. \E l \in 1 .. Len(s) : l < k /\ s[l].id = i
    <3>1. CASE k \in 1 .. Len(s)
      BY <1>1, <1>2, <3>1 DEF Ahead
    <3>2. CASE k = Len(s) + 1
      <4>1. Carries(s, i)
        BY <1>1, <1>2, <3>2
      <4>2. PICK l \in DOMAIN s : s[l].id = i
        BY <4>1 DEF Carries, ToSet
      <4>3. QED
        BY <1>1, <3>2, <4>2
    <3>3. QED
      BY <1>1, <3>1, <3>2
  <2>2. PICK l \in 1 .. Len(s) : l < k /\ s[l].id = i
    BY <2>1
  <2>3. l \in 1 .. Len(t) /\ t[l] = s[l]
    BY <1>1
  <2>4. QED
    BY <2>2, <2>3
<1>3. QED
  BY <1>2 DEF Ahead, t

(* On a wire with no copy of j, any packet is ahead of it.                 *)
LEMMA AheadOfNone ==
  ASSUME NEW s \in Seq(Msgs), NEW i, NEW j, ~Carries(s, j)
  PROVE  Ahead(s, i, j)
<1>1. \A k \in 1 .. Len(s) : s[k] \in ToSet(s)
  BY DEF ToSet
<1>2. QED
  BY <1>1 DEF Ahead, Carries

-----------------------------------------------------------------------------
(* Where a packet that is forwarded has come from, and what becomes of it. *)
Came(m, i, path, wires) ==
  \/ /\ path = <<>> /\ wires = wire /\ i = Len(sent) + 1 /\ Len(sent') = Len(sent) + 1
     /\ sent'[i].from = m /\ sent'[i].since = trouble
  \/ \E n \in Peers(m) :
       /\ wire[<<n, m>>] # <<>> /\ up[<<m, n>>] /\ sent' = sent
       /\ i = Head(wire[<<n, m>>]).id /\ path = Head(wire[<<n, m>>]).path
       /\ wires = [wire EXCEPT ![<<n, m>>] = Tail(@)]

Copy(m, i, path) == [id |-> i, path |-> Append(path, m)]
Spreading(m, i, path, wires) ==
  /\ reminfo' = [reminfo EXCEPT ![m] = UpdateRoutes(m, sent'[i], path)]
  /\ wire' = [w \in Wires |->
                IF /\ w[1] = m /\ up[<<w[2], m>>]
                   /\ w[2] \in NextHops(m, path, sent'[i].to, UpdateRoutes(m, sent'[i], path))
                THEN Append(wires[w], Copy(m, i, path)) ELSE wires[w]]
  /\ seen' = [seen EXCEPT ![m] = @ \cup {i}]
  /\ refused' = refused
Refusal(m, i, wires) ==
  /\ wire' = wires /\ UNCHANGED <<reminfo, seen>>
  /\ refused' = refused \cup (IF i \in seen[m] THEN {} ELSE {<<m, i>>})

Forwarded(m, i, path, wires) ==
  /\ IInv /\ IInv' /\ FlowInv /\ Grown /\ UNCHANGED <<links, up, rewound, trouble>>
  /\ m \in Muds /\ i \in 1 .. Len(sent') /\ Arrived(m, i, path)
  /\ Came(m, i, path, wires) /\ Forward(m, i, path, wires)

LEMMA SpreadOrNot ==
  ASSUME NEW m, NEW i, NEW path, NEW wires, Forwarded(m, i, path, wires)
  PROVE  \/ Spreading(m, i, path, wires)
         \/ /\ Refusal(m, i, wires)
            /\ CheckRepeat(m, sent'[i]) \/ TooOld(m, sent'[i])
<1> DEFINE p == sent'[i]
<1> USE DEF Forwarded
<1>1. m \notin ToSet(path)
  BY DEF Arrived, Passed, ToSet
<1>2. CASE CheckRepeat(m, p) \/ TooOld(m, p)
  <2>1. Refuse(m, i, wires, memory[m]) \/ Refuse(m, i, wires, Remember(m, p))
    BY <1>1, <1>2 DEF Forward
  <2>2. QED
    BY <1>2, <2>1 DEF Refuse, Refusal
<1>3. CASE ~CheckRepeat(m, p) /\ ~TooOld(m, p)
  <2>1. TakeIn(m, i, path, wires, Remember(m, p))
    BY <1>1, <1>3 DEF Forward
  <2> DEFINE hops == NextHops(m, path, p.to, UpdateRoutes(m, p, path))
  <2>2. /\ reminfo' = [reminfo EXCEPT ![m] = UpdateRoutes(m, p, path)]
        /\ wire' = [w \in Wires |-> IF w[1] = m /\ w[2] \in hops /\ up[<<w[2], m>>]
                                    THEN Append(wires[w], [id |-> i, path |-> Append(path, m)])
                                    ELSE wires[w]]
        /\ seen' = [seen EXCEPT ![m] = @ \cup {i}]
        /\ refused' = refused
    BY <2>1 DEF TakeIn
  <2> HIDE DEF hops
  <2>3. wire' = [w \in Wires |-> IF w[1] = m /\ up[<<w[2], m>>] /\ w[2] \in hops
                                 THEN Append(wires[w], Copy(m, i, path)) ELSE wires[w]]
    BY <2>2 DEF Copy
  <2>4. QED
    BY <2>2, <2>3 DEF Spreading, hops
<1>4. QED
  BY <1>2, <1>3

(* Packets and wires before and after.                                     *)
LEMMA Setting ==
  ASSUME NEW m, NEW i, NEW path, NEW wires, Forwarded(m, i, path, wires)
  PROVE  /\ NetInv /\ m \in Muds /\ Wires' = Wires /\ i \in Packets'
         /\ \A x : Peers(x)' = Peers(x)
         /\ Packets \subseteq Packets' /\ Packets' \subseteq Packets \cup {i}
         /\ \A k \in Packets : sent'[k] = sent[k] /\ k \in Nat
         /\ i \in Nat /\ \A k \in Packets : i \notin Packets => k < i
         /\ i \notin Packets => path = <<>> /\ sent'[i].from = m /\ sent'[i].since = trouble
         /\ i \in Packets => sent' = sent
         /\ seen \in [Muds -> SUBSET Packets] /\ refused \subseteq Muds \X Packets
         /\ seen' \in [Muds -> SUBSET Packets'] /\ refused' \subseteq Muds \X Packets'
         /\ \A w \in Wires : wire[w] \in Seq(Msgs) /\ wire'[w] \in Seq(Msgs)
         /\ \A w \in Wires : \A c \in ToSet(wire[w]) : c.id \in Packets
         /\ rewound' = rewound /\ trouble' = trouble /\ up' = up
<1> USE DEF Forwarded, IInv
<1>1. Packets = 1 .. Len(sent) /\ Packets' = 1 .. Len(sent') /\ Len(sent) \in Nat
  BY DEF Packets, Grown
<1>2. \/ path = <<>> /\ i = Len(sent) + 1 /\ Len(sent') = Len(sent) + 1
         /\ sent'[i].from = m /\ sent'[i].since = trouble
      \/ sent' = sent
  BY DEF Came
<1>3. Packets \subseteq Packets' /\ \A k \in Packets : sent'[k] = sent[k] /\ k \in Nat
  BY <1>1, KeysStay
<1>4. /\ Packets' \subseteq Packets \cup {i} /\ i \in Nat
      /\ i \notin Packets => path = <<>> /\ i = Len(sent) + 1
                             /\ sent'[i].from = m /\ sent'[i].since = trouble
      /\ i \in Packets => sent' = sent
  BY <1>1, <1>2
<1>5. \A k \in Packets : i \notin Packets => k < i
  BY <1>1, <1>4
<1>6. \A w \in Wires : /\ wire[w] \in Seq(Msgs)
                       /\ \A k \in 1 .. Len(wire[w]) : wire[w][k].id \in Packets
  BY <1>1 DEF WireInv, GoodWires, GoodMsg
<1>7. \A w \in Wires : \A c \in ToSet(wire[w]) : c.id \in Packets
  BY <1>6 DEF ToSet
<1>8. \A w \in Wires : wire'[w] \in Seq(Msgs)
  BY Unchanging DEF WireInv, GoodWires
<1>9. /\ seen \in [Muds -> SUBSET Packets] /\ refused \subseteq Muds \X Packets
      /\ seen' \in [Muds -> SUBSET Packets'] /\ refused' \subseteq Muds \X Packets'
  BY DEF MemInv
<1>10. NetInv /\ Wires' = Wires /\ \A x : Peers(x)' = Peers(x)
  BY Unchanging
<1>11. QED
  BY <1>1, <1>3, <1>4, <1>5, <1>6, <1>7, <1>8, <1>9, <1>10

(* What happens on a wire: the head is taken off, or a copy is appended.   *)
Moves(m, i, path, wires, w) ==
  /\ w[1] = m => wires[w] = wire[w]
  /\ wires[w] # wire[w] =>
       /\ w = <<w[1], m>> /\ up[<<m, w[1]>>] /\ sent' = sent
       /\ wire[w] # <<>> /\ wires[w] = Tail(wire[w])
       /\ Head(wire[w]).id = i /\ Head(wire[w]).path = path
  /\ wire'[w] # wires[w] =>
       /\ w = <<m, w[2]>> /\ up[w] /\ up[<<w[2], m>>] /\ w[2] \notin ToSet(path)
       /\ Copy(m, i, path) \in Msgs
       /\ wire'[w] = Append(wire[w], Copy(m, i, path))
       /\ Spreading(m, i, path, wires)

LEMMA WireMoves ==
  ASSUME NEW m, NEW i, NEW path, NEW wires, Forwarded(m, i, path, wires), NEW w \in Wires
  PROVE  Moves(m, i, path, wires, w)
<1> USE DEF Forwarded, IInv
<1>1. wire \in [Wires -> Seq(Msgs)]
  BY DEF WireInv, GoodWires
<1>2. \A x \in Wires : x = <<x[1], x[2]>> /\ x[1] \in Muds /\ x[2] \in Muds /\ x[1] # x[2]
  BY Neighbours
<1>3. \A n \in Peers(m) : n \in Muds /\ n # m /\ <<n, m>> \in Wires
  BY Neighbours
<1>4. /\ w[1] = m => wires[w] = wire[w]
      /\ \/ wires[w] = wire[w]
         \/ /\ w = <<w[1], m>> /\ up[<<m, w[1]>>] /\ sent' = sent
            /\ wire[w] # <<>> /\ wires[w] = Tail(wire[w])
            /\ Head(wire[w]).id = i /\ Head(wire[w]).path = path
  <2>1. CASE wires = wire
    BY <2>1
  <2>2. CASE \E n \in Peers(m) :
               /\ wire[<<n, m>>] # <<>> /\ up[<<m, n>>] /\ sent' = sent
               /\ i = Head(wire[<<n, m>>]).id /\ path = Head(wire[<<n, m>>]).path
               /\ wires = [wire EXCEPT ![<<n, m>>] = Tail(@)]
    <3>1. PICK n \in Peers(m) :
            /\ wire[<<n, m>>] # <<>> /\ up[<<m, n>>] /\ sent' = sent
            /\ i = Head(wire[<<n, m>>]).id /\ path = Head(wire[<<n, m>>]).path
            /\ wires = [wire EXCEPT ![<<n, m>>] = Tail(@)]
      BY <2>2
    <3>2. CASE w = <<n, m>>
      <4>1. wires[w] = Tail(wire[w]) /\ w[1] = n /\ n # m
        BY <1>1, <1>3, <3>1, <3>2
      <4>2. QED
        BY <3>1, <3>2, <4>1
    <3>3. CASE w # <<n, m>>
      BY <1>1, <3>1, <3>3
    <3>4. QED
      BY <3>2, <3>3
  <2>3. QED
    BY <2>1, <2>2 DEF Came
<1>5. ASSUME wire'[w] # wires[w]
      PROVE  /\ w = <<m, w[2]>> /\ up[w] /\ up[<<w[2], m>>] /\ w[2] \notin ToSet(path)
             /\ Copy(m, i, path) \in Msgs
             /\ wire'[w] = Append(wire[w], Copy(m, i, path))
             /\ Spreading(m, i, path, wires)
  <2>1. Spreading(m, i, path, wires)
    BY <1>5, SpreadOrNot DEF Refusal
  <2> DEFINE hops == NextHops(m, path, sent'[i].to, UpdateRoutes(m, sent'[i], path))
  <2>2. wire'[w] = IF w[1] = m /\ up[<<w[2], m>>] /\ w[2] \in hops
                   THEN Append(wires[w], Copy(m, i, path)) ELSE wires[w]
    BY <2>1 DEF Spreading
  <2>3. hops \subseteq Connected(m) \ ToSet(path)
    BY DEF NextHops
  <2> HIDE DEF hops
  <2>4. w[1] = m /\ up[<<w[2], m>>] /\ w[2] \in hops /\ wire'[w] = Append(wires[w], Copy(m, i, path))
    BY <1>5, <2>2
  <2>5. w = <<m, w[2]>> /\ up[w] /\ w[2] \notin ToSet(path) /\ w[2] \in Muds /\ w[2] # m
    BY <1>2, <2>3, <2>4 DEF Connected
  <2>6. Copy(m, i, path) \in Msgs
    BY <2>5, GoodCopy DEF Copy
  <2>7. QED
    BY <1>4, <2>1, <2>4, <2>5, <2>6
<1>6. QED
  BY <1>4, <1>5 DEF Moves

LEMMA WireContents ==
  ASSUME NEW m, NEW i, NEW path, NEW wires, Forwarded(m, i, path, wires), NEW w \in Wires
  PROVE  /\ \A c \in ToSet(wire'[w]) :
              \/ c \in ToSet(wire[w])
              \/ w = <<m, w[2]>> /\ up[w] /\ c = Copy(m, i, path) /\ Spreading(m, i, path, wires)
         /\ \A k : Carries(wire[w], k) => Carries(wire'[w], k) \/ (k = i /\ w[2] = m)
<1>1. wire[w] \in Seq(Msgs) /\ Moves(m, i, path, wires, w)
  BY Setting, WireMoves
<1>2. CASE wire'[w] = wire[w]
  BY <1>2
<1>3. CASE wire'[w] = wires[w] /\ wires[w] # wire[w]
  <2>1. /\ w = <<w[1], m>> /\ wire[w] # <<>> /\ wires[w] = Tail(wire[w]) /\ Head(wire[w]).id = i
    BY <1>1, <1>3 DEF Moves
  <2>2. /\ ToSet(wire'[w]) \subseteq ToSet(wire[w])
        /\ ToSet(wire[w]) \subseteq ToSet(wire'[w]) \cup {Head(wire[w])}
    BY <1>1, <1>3, <2>1, TailSet
  <2>3. w[2] = m
    BY <2>1
  <2>4. QED
    BY <2>1, <2>2, <2>3 DEF Carries
<1>4. CASE wire'[w] # wires[w]
  <2>1. /\ w = <<m, w[2]>> /\ up[w] /\ Copy(m, i, path) \in Msgs
        /\ wire'[w] = Append(wire[w], Copy(m, i, path)) /\ Spreading(m, i, path, wires)
    BY <1>1, <1>4 DEF Moves
  <2>2. ToSet(wire'[w]) = ToSet(wire[w]) \cup {Copy(m, i, path)}
    BY <1>1, <2>1, AppendSet
  <2>3. QED
    BY <2>1, <2>2 DEF Carries
<1>5. QED
  BY <1>2, <1>3, <1>4

LEMMA SeenMore ==
  ASSUME NEW m, NEW i, NEW path, NEW wires, Forwarded(m, i, path, wires)
  PROVE  /\ \A x \in Muds : /\ seen[x] \subseteq seen'[x] /\ seen'[x] \subseteq seen[x] \cup {i}
                            /\ x # m => seen'[x] = seen[x]
         /\ i \in seen'[m] \/ <<m, i>> \in refused'
         /\ refused \subseteq refused'
         /\ i \in seen'[m] => refused' = refused
         /\ \A x \in Muds : \A k \in Packets : <<x, k>> \in refused' =>
              <<x, k>> \in refused \/ (x = m /\ k = i)
         /\ i \in seen'[m] => i \in seen[m] \/ Spreading(m, i, path, wires)
<1>1. seen \in [Muds -> SUBSET Packets] /\ m \in Muds
  BY Setting
<1>2. CASE Spreading(m, i, path, wires)
  BY <1>1, <1>2 DEF Spreading
<1>3. CASE Refusal(m, i, wires)
  BY <1>1, <1>3 DEF Refusal
<1>4. QED
  BY <1>2, <1>3, SpreadOrNot

LEMMA KnownMore ==
  ASSUME NEW m, NEW i, NEW path, NEW wires, Forwarded(m, i, path, wires)
  PROVE  /\ \A x \in Muds : x # m => reminfo'[x] = reminfo[x]
         /\ \/ reminfo'[m] = reminfo[m]
            \/ /\ i \in seen'[m] /\ reminfo'[m] = UpdateRoutes(m, sent'[i], path)
               /\ Spreading(m, i, path, wires)
         /\ \A x, t \in Muds : Known(x, t) => Known(x, t)'
         /\ Spreading(m, i, path, wires) =>
              \A t \in Muds : t # m /\ t \in ToSet(path) => Known(m, t)'
<1>1. m \in Muds /\ reminfo \in [Muds -> [Muds -> {Unknown} \cup
        [type : {"normal", "expired", "revived"}, route : Muds, top : Nat]]]
  BY DEF Forwarded, IInv, RouteInv
<1>2. CASE Refusal(m, i, wires)
  <2>1. reminfo' = reminfo
    BY <1>2 DEF Refusal
  <2>2. Spreading(m, i, path, wires) => reminfo'[m] = UpdateRoutes(m, sent'[i], path) /\ i \in seen'[m]
    BY <1>1, Setting DEF Spreading
  <2>3. UpdateRoutes(m, sent'[i], path) = reminfo'[m] =>
          \A t \in Muds : t # m /\ t \in ToSet(path) => Known(m, t)'
    <3>1. ASSUME NEW t \in Muds, t # m, t \in ToSet(path)
          PROVE  UpdateRoutes(m, sent'[i], path)[t] # Unknown
      <4>1. UpdateRoutes(m, sent'[i], path)[t].type \in {"normal", "revived"}
        BY <3>1 DEF UpdateRoutes
      <4>2. QED
        BY <4>1 DEF Unknown
    <3>2. QED
      BY <3>1 DEF Known
  <2>4. QED
    BY <2>1, <2>2, <2>3 DEF Known
<1>3. CASE Spreading(m, i, path, wires)
  <2> DEFINE routes == UpdateRoutes(m, sent'[i], path)
  <2>1. reminfo' = [reminfo EXCEPT ![m] = routes]
    BY <1>3 DEF Spreading
  <2>2. i \in seen'[m]
    BY <1>3, Setting DEF Spreading
  <2>3. ASSUME NEW t \in Muds
        PROVE  /\ reminfo[m][t] # Unknown => routes[t] # Unknown
               /\ t # m /\ t \in ToSet(path) => routes[t] # Unknown
    <3>1. CASE t # m /\ t \in ToSet(path)
      <4>1. routes[t].type \in {"normal", "revived"}
        BY <3>1 DEF UpdateRoutes
      <4>2. QED
        BY <4>1 DEF Unknown
    <3>2. CASE ~(t # m /\ t \in ToSet(path)) /\ reminfo[m][t] # Unknown
      <4>1. reminfo[m][t] \in [type : {"normal", "expired", "revived"}, route : Muds, top : Nat]
        BY <1>1, <3>2
      <4>2. routes[t].type = reminfo[m][t].type
        BY <3>2, <4>1 DEF UpdateRoutes
      <4>3. QED
        BY <4>1, <4>2 DEF Unknown
    <3>3. QED
      BY <3>1, <3>2
  <2> HIDE DEF routes
  <2>4. reminfo'[m] = routes /\ \A x \in Muds : x # m => reminfo'[x] = reminfo[x]
    BY <1>1, <2>1
  <2>5. \A x, t \in Muds : Known(x, t) => Known(x, t)'
    <3>1. \A x, t \in Muds : reminfo[x][t] # Unknown => reminfo'[x][t] # Unknown
      BY <2>3, <2>4
    <3>2. QED
      BY <3>1 DEF Known
  <2>6. \A t \in Muds : t # m /\ t \in ToSet(path) => Known(m, t)'
    BY <2>3, <2>4 DEF Known
  <2>7. QED
    BY <1>3, <2>2, <2>4, <2>5, <2>6 DEF routes
<1>4. QED
  BY <1>2, <1>3, SpreadOrNot

LEMMA FromWire ==
  ASSUME NEW m, NEW i, NEW path, NEW wires, Forwarded(m, i, path, wires)
  PROVE  /\ path = <<>> => /\ i \notin Packets /\ wires = wire
                           /\ sent'[i].from = m /\ sent'[i].since = trouble
         /\ path # <<>> =>
              /\ i \in Packets /\ sent' = sent
              /\ \E n \in Peers(m) :
                   /\ <<n, m>> \in Wires /\ n \in Muds /\ n # m
                   /\ wire[<<n, m>>] # <<>> /\ wire[<<n, m>>] \in Seq(Msgs)
                   /\ up[<<m, n>>] /\ n = Last(path) /\ n \in ToSet(path)
                   /\ i = Head(wire[<<n, m>>]).id /\ path = Head(wire[<<n, m>>]).path
                   /\ Head(wire[<<n, m>>]) \in ToSet(wire[<<n, m>>])
<1> USE DEF Forwarded, IInv
<1>1. CASE /\ path = <<>> /\ wires = wire /\ i = Len(sent) + 1
           /\ sent'[i].from = m /\ sent'[i].since = trouble
  <2>1. i \notin Packets
    BY <1>1 DEF Packets, Grown
  <2>2. QED
    BY <1>1, <2>1
<1>2. ASSUME NEW n \in Peers(m),
             wire[<<n, m>>] # <<>>, up[<<m, n>>], sent' = sent,
             i = Head(wire[<<n, m>>]).id, path = Head(wire[<<n, m>>]).path
      PROVE  /\ path # <<>> /\ i \in Packets
             /\ <<n, m>> \in Wires /\ n \in Muds /\ n # m
             /\ wire[<<n, m>>] \in Seq(Msgs) /\ n = Last(path) /\ n \in ToSet(path)
             /\ Head(wire[<<n, m>>]) \in ToSet(wire[<<n, m>>])
  <2>1. <<n, m>> \in Wires /\ n \in Muds /\ n # m
    BY Neighbours
  <2>2. wire[<<n, m>>] \in Seq(Msgs)
    BY <2>1 DEF WireInv, GoodWires
  <2>3. Head(wire[<<n, m>>]) = wire[<<n, m>>][1] /\ 1 \in 1 .. Len(wire[<<n, m>>])
    BY <1>2, <2>2
  <2>4. GoodMsg(sent, <<n, m>>, Head(wire[<<n, m>>]))
    BY <2>1, <2>3 DEF WireInv, GoodWires
  <2>5. /\ i \in Packets /\ path \in Seq(Muds) /\ path # <<>> /\ path[Len(path)] = n
    BY <1>2, <2>4 DEF GoodMsg, Passed, Packets
  <2>6. n = Last(path) /\ n \in ToSet(path)
    <3>1. Len(path) \in DOMAIN path
      BY <2>5
    <3>2. QED
      BY <2>5, <3>1 DEF Last, ToSet
  <2>7. Head(wire[<<n, m>>]) \in ToSet(wire[<<n, m>>])
    BY <1>2, <2>2, TailSet
  <2>8. QED
    BY <2>1, <2>2, <2>5, <2>6, <2>7
<1>3. QED
  BY <1>1, <1>2 DEF Came

(* Nothing is remembered of a mud's new packet.                            *)
LEMMA OwnTaken ==
  ASSUME NEW m, NEW i, NEW path, NEW wires, Forwarded(m, i, path, wires),
         path = <<>>, m \notin rewound
  PROVE  i \in seen'[m]
<1> USE DEF Forwarded, IInv
<1>1. i \notin Packets /\ i \in Packets' /\ sent'[i].from = m /\ m \in Muds
  BY FromWire, Setting
<1>2. ~TooOld(m, sent'[i])
  BY <1>1 DEF TooOld, Known, RouteInv
<1>3. ~CheckRepeat(m, sent'[i])
  <2> SUFFICES ASSUME CheckRepeat(m, sent'[i]) PROVE FALSE
    OBVIOUS
  <2>1. PICK k \in 1 .. Len(memory[m]) : memory[m][k] = Key(sent', i)
    <3>1. memory[m] \in Seq(Keys)
      BY DEF MemInv
    <3>2. QED
      BY <3>1 DEF CheckRepeat, ToSet, Key
  <2>2. PICK j \in Packets : /\ memory[m][k] = Key(sent, j)
                             /\ j \in seen[m] \/ <<m, j>> \in refused
    BY <1>1 DEF MemInv
  <2>3. j \in Packets' /\ Key(sent', j) = Key(sent', i)
    BY <2>1, <2>2, KeysStay
  <2>4. i = j
    BY <1>1, <2>3, KeysUnique
  <2>5. QED
    BY <1>1, <2>4
<1>4. Spreading(m, i, path, wires)
  BY <1>2, <1>3, SpreadOrNot
<1>5. QED
  BY <1>1, <1>4, Setting DEF Spreading

(* What the sender of a fresh broadcast sent later comes after it.         *)
LEMMA Earlier ==
  ASSUME NEW m, NEW i, NEW path, NEW wires, Forwarded(m, i, path, wires), path # <<>>,
         NEW k \in Packets, Fresh(k), k < i, sent[i].from = sent[k].from
  PROVE  k \in seen[m]
<1> USE DEF Forwarded, FlowInv
<1>1. i \in Packets /\ m \in Muds
  BY FromWire, Setting
<1>2. PICK n \in Peers(m) :
        /\ <<n, m>> \in Wires /\ n \in Muds
        /\ wire[<<n, m>>] # <<>> /\ wire[<<n, m>>] \in Seq(Msgs) /\ up[<<m, n>>]
        /\ i = Head(wire[<<n, m>>]).id
        /\ Head(wire[<<n, m>>]) \in ToSet(wire[<<n, m>>])
  BY FromWire
<1>3. Recent(i)
  <2>1. sent[k].since <= sent[i].since /\ sent[i].since <= trouble /\ sent[k].since = trouble
    BY <1>1 DEF SinceInv, Fresh, Recent
  <2>2. sent[i].since \in Nat /\ trouble \in Nat
    <3>1. sent[i] \in Recs /\ trouble \in Nat
      BY <1>1, RecIs DEF IInv, SendInv, Packets
    <3>2. QED
      BY <3>1 DEF Recs
  <2>3. QED
    BY <2>1, <2>2 DEF Recent
<1>4. up[<<n, m>>]
  BY <1>2, <1>3 DEF PathInv
<1>5. Both(n, m)
  BY <1>2, <1>4 DEF Both
<1>6. k \in seen[m] \/ Ahead(wire[<<n, m>>], k, i)
  BY <1>1, <1>2, <1>5 DEF FloodInv
<1>7. k # i
  BY Setting
<1>8. QED
  BY <1>2, <1>6, <1>7, AheadTail

LEMMA FreshTaken ==
  ASSUME NEW m, NEW i, NEW path, NEW wires, Forwarded(m, i, path, wires), Fresh(i)'
  PROVE  i \in seen'[m]
<1> USE DEF Forwarded, IInv
<1>1. m \in Muds /\ i \in Packets' /\ rewound' = rewound /\ trouble' = trouble
  BY Setting
<1>2. CASE path = <<>>
  <2>1. m \notin rewound
    BY <1>1, <1>2, FromWire DEF Fresh
  <2>2. QED
    BY <1>2, <2>1, OwnTaken
<1>3. CASE path # <<>>
  <2>1. i \in Packets /\ sent' = sent
    BY <1>3, FromWire
  <2>2. Fresh(i)
    BY <1>1, <2>1 DEF Fresh, Recent
  <2>3. CASE CheckRepeat(m, sent'[i])
    <3>1. PICK k \in 1 .. Len(memory[m]) : memory[m][k] = Key(sent', i)
      <4>1. memory[m] \in Seq(Keys)
        BY <1>1 DEF MemInv
      <4>2. QED
        BY <2>3, <4>1 DEF CheckRepeat, ToSet, Key
    <3>2. PICK j \in Packets : /\ memory[m][k] = Key(sent, j)
                               /\ j \in seen[m] \/ <<m, j>> \in refused
      BY <1>1 DEF MemInv
    <3>3. j \in Packets' /\ Key(sent', i) = Key(sent', j) /\ sent'[i].from \notin rewound'
      BY <2>1, <3>1, <3>2, KeysStay DEF Fresh
    <3>4. i = j
      BY <1>1, <3>3, KeysUnique
    <3>5. <<m, i>> \notin refused
      BY <1>1, <2>1, <2>2 DEF FlowInv, FloodInv
    <3>6. i \in seen[m]
      BY <3>2, <3>4, <3>5
    <3>7. QED
      BY <1>1, <3>6, SeenMore
  <2>4. CASE TooOld(m, sent'[i])
    <3> DEFINE p == sent[i]
               top == reminfo[m][p.from].top
    <3>1. p.from \in Muds /\ p.seq \in Nat /\ p = sent'[i]
      BY <2>1, RecIs DEF SendInv, Packets
    <3>2. Known(m, p.from) /\ p.seq + IMC_PACKET_LIFETIME < top /\ top \in Nat
      BY <1>1, <2>4, <3>1 DEF TooOld, RouteInv, Entry, Known
    <3>3. top # 0 /\ p.seq < top
      BY <3>1, <3>2, ForwardAssumption
    <3>4. PICK j \in seen[m] : sent[j].from = p.from /\ sent[j].seq = top
      BY <1>1, <3>1, <3>2, <3>3 DEF FlowInv, TopInv
    <3> HIDE DEF top
    <3>5. j \in Packets /\ j \in Nat /\ i \in Nat
      BY <1>1, <2>1, Setting
    <3>6. ~(j < i) /\ j # i
      <4>1. j < i => sent[j].seq < sent[i].seq
        BY <2>1, <2>2, <3>4, <3>5 DEF SendInv, Fresh
      <4>2. QED
        BY <3>1, <3>2, <3>3, <3>4, <4>1
    <3>7. j > i
      BY <3>5, <3>6
    <3>8. i \in seen[m]
      BY <1>1, <2>1, <2>2, <3>4, <3>5, <3>7 DEF FlowInv, FloodInv
    <3>9. QED
      BY <1>1, <3>8, SeenMore
  <2>5. CASE Spreading(m, i, path, wires)
    BY <1>1, <2>5, Setting DEF Spreading
  <2>6. QED
    BY <2>3, <2>4, <2>5, SpreadOrNot
<1>4. QED
  BY <1>2, <1>3

-----------------------------------------------------------------------------
(* What a step of forward does to the parts of FlowInv.                    *)
LEMMA RecentOld ==
  ASSUME NEW m, NEW i, NEW path, NEW wires, Forwarded(m, i, path, wires)
  PROVE  \A k \in Packets : /\ Recent(k)' <=> Recent(k)
                            /\ Fresh(k)' <=> Fresh(k)
                            /\ sent'[k] = sent[k]
  BY Setting DEF Recent, Fresh

LEMMA SinceForward ==
  ASSUME NEW m, NEW i, NEW path, NEW wires, Forwarded(m, i, path, wires)
  PROVE  SinceInv' /\ EndsInv' /\ SenderInv'
<1> USE DEF Forwarded, FlowInv, IInv
<1>1. /\ m \in Muds /\ Wires' = Wires /\ rewound' = rewound /\ trouble' = trouble /\ up' = up
      /\ Packets \subseteq Packets' /\ Packets' \subseteq Packets \cup {i} /\ trouble \in Nat
      /\ \A k \in Packets : sent'[k] = sent[k] /\ k \in Nat /\ (i \notin Packets => k < i)
      /\ i \notin Packets => path = <<>> /\ sent'[i].from = m /\ sent'[i].since = trouble
      /\ i \in Nat
  BY Setting DEF SendInv
<1>2. SinceInv'
  <2>1. \A k \in Packets' : sent'[k].since <= trouble
    BY <1>1 DEF SinceInv
  <2>2. ASSUME NEW k \in Packets', NEW j \in Packets', k < j
        PROVE  sent'[k].since <= sent'[j].since
    <3>1. CASE j \in Packets /\ k \in Packets
      BY <1>1, <2>2, <3>1 DEF SinceInv
    <3>2. CASE j \notin Packets
      BY <1>1, <2>1, <3>2
    <3>3. CASE j \in Packets /\ k \notin Packets
      BY <1>1, <2>2, <3>3
    <3>4. QED
      BY <3>1, <3>2, <3>3
  <2>3. QED
    BY <1>1, <2>1, <2>2 DEF SinceInv
<1>3. EndsInv'
  <2> SUFFICES ASSUME NEW w \in Wires, ~up[<<w[2], w[1]>>] PROVE wire'[w] = <<>>
    BY <1>1 DEF EndsInv
  <2>1. wire[w] = <<>>
    BY DEF EndsInv
  <2>2. Moves(m, i, path, wires, w)
    BY WireMoves
  <2>3. wire'[w] # wires[w] => w = <<m, w[2]>> /\ up[<<w[2], m>>]
    BY <2>2 DEF Moves
  <2>4. wire'[w] # wires[w] => w[1] = m
    BY <2>3
  <2>5. wires[w] = wire[w]
    BY <2>1, <2>2 DEF Moves
  <2>6. QED
    BY <2>1, <2>3, <2>4, <2>5
<1>4. SenderInv'
  <2> SUFFICES ASSUME NEW k \in Packets', Recent(k)', sent'[k].from \notin rewound
               PROVE  k \in seen'[sent'[k].from]
    BY <1>1 DEF SenderInv
  <2>1. CASE k \in Packets
    <3>1. sent[k].from \in Muds
      BY <2>1, RecIs DEF SendInv, Packets
    <3>2. k \in seen[sent[k].from]
      BY <1>1, <2>1, RecentOld DEF SenderInv
    <3>3. QED
      BY <1>1, <2>1, <3>1, <3>2, SeenMore
  <2>2. CASE k \notin Packets
    BY <1>1, <2>2, OwnTaken
  <2>3. QED
    BY <2>1, <2>2
<1>5. QED
  BY <1>2, <1>3, <1>4

(* Those a packet has passed have taken it in.                             *)
LEMMA PathHas ==
  ASSUME NEW m, NEW i, NEW path, NEW wires, Forwarded(m, i, path, wires), Recent(i)'
  PROVE  \A x \in ToSet(path) : x \in Muds /\ i \in seen[x]
<1>1. CASE path = <<>>
  BY <1>1 DEF ToSet
<1>2. CASE path # <<>>
  <2>1. PICK n \in Peers(m) :
          /\ <<n, m>> \in Wires
          /\ i = Head(wire[<<n, m>>]).id /\ path = Head(wire[<<n, m>>]).path
          /\ Head(wire[<<n, m>>]) \in ToSet(wire[<<n, m>>])
    BY <1>2, FromWire
  <2>2. Recent(i)
    BY <1>2, FromWire, RecentOld
  <2>3. \A x \in ToSet(path) : i \in seen[x]
    BY <2>1, <2>2 DEF Forwarded, FlowInv, PathInv
  <2>4. path \in Seq(Muds)
    BY <1>2 DEF Forwarded, Arrived, Passed
  <2>5. QED
    BY <2>3, <2>4 DEF ToSet
<1>3. QED
  BY <1>1, <1>2

LEMMA CopyPath ==
  ASSUME NEW m, NEW i, NEW path, NEW wires, Forwarded(m, i, path, wires)
  PROVE  /\ Copy(m, i, path).id = i
         /\ \A x \in ToSet(Copy(m, i, path).path) : x = m \/ x \in ToSet(path)
<1>1. path \in Seq(Muds) /\ m \in Muds
  <2>1. CASE path = <<>>
    <3>1. path \in Seq(Muds)
      BY <2>1
    <3>2. QED
      BY <3>1, Setting
  <2>2. CASE path # <<>>
    <3>1. path \in Seq(Muds)
      BY <2>2 DEF Forwarded, Arrived, Passed
    <3>2. QED
      BY <3>1, Setting
  <2>3. QED
    BY <2>1, <2>2
<1>2. /\ Append(path, m) \in Seq(Muds) /\ Len(Append(path, m)) = Len(path) + 1
      /\ \A k \in 1 .. Len(path) : Append(path, m)[k] = path[k]
      /\ Append(path, m)[Len(path) + 1] = m /\ Len(path) \in Nat
  BY <1>1, AppendProperties
<1> DEFINE new == Append(path, m)
<1> HIDE DEF new
<1>3. \A k \in 1 .. Len(new) : k \in 1 .. Len(path) \/ k = Len(path) + 1
  BY <1>2 DEF new
<1>4. \A k \in 1 .. Len(new) : new[k] = m \/ new[k] \in ToSet(path)
  BY <1>1, <1>2, <1>3 DEF ToSet, new
<1>5. \A x \in ToSet(new) : x = m \/ x \in ToSet(path)
  BY <1>2, <1>4 DEF ToSet, new
<1>6. QED
  BY <1>5 DEF Copy, new

LEMMA PathForward ==
  ASSUME NEW m, NEW i, NEW path, NEW wires, Forwarded(m, i, path, wires)
  PROVE  PathInv'
<1>1. m \in Muds /\ Wires' = Wires /\ up' = up
  BY Setting
<1> SUFFICES ASSUME NEW w \in Wires, NEW c \in ToSet(wire'[w]), Recent(c.id)'
             PROVE  up[w] /\ \A x \in ToSet(c.path) : c.id \in seen'[x]
  BY <1>1 DEF PathInv
<1>2. CASE c \in ToSet(wire[w])
  <2>1. c.id \in Packets
    BY <1>2, Setting
  <2>2. up[w] /\ \A x \in ToSet(c.path) : c.id \in seen[x]
    BY <1>2, <2>1, RecentOld DEF Forwarded, FlowInv, PathInv
  <2>3. \A x \in ToSet(c.path) : x \in Muds
    <3>1. PICK k \in DOMAIN wire[w] : c = wire[w][k]
      BY <1>2 DEF ToSet
    <3>2. GoodMsg(sent, w, c)
      <4>1. wire[w] \in Seq(Msgs)
        BY Setting
      <4>2. k \in 1 .. Len(wire[w])
        BY <4>1
      <4>3. QED
        BY <3>1, <4>2 DEF Forwarded, IInv, WireInv, GoodWires
    <3>3. c.path \in Seq(Muds)
      BY <3>2 DEF GoodMsg, Passed
    <3>4. QED
      BY <3>3 DEF ToSet
  <2>4. QED
    BY <2>2, <2>3, SeenMore
<1>3. CASE c \notin ToSet(wire[w])
  <2>1. up[w] /\ c = Copy(m, i, path) /\ Spreading(m, i, path, wires)
    BY <1>3, WireContents
  <2>2. c.id = i /\ \A x \in ToSet(c.path) : x = m \/ x \in ToSet(path)
    BY <2>1, CopyPath
  <2>3. i \in seen'[m]
    BY <1>1, <2>1, Setting DEF Spreading
  <2>4. \A x \in ToSet(path) : x \in Muds /\ i \in seen[x]
    <3>1. Recent(i)'
      BY <2>2
    <3>2. QED
      BY <3>1, PathHas
  <2>5. \A x \in ToSet(path) : i \in seen'[x]
    BY <2>4, SeenMore
  <2>6. \A x \in ToSet(c.path) : i \in seen'[x]
    BY <2>2, <2>3, <2>5
  <2>7. QED
    BY <2>1, <2>2, <2>6
<1>4. QED
  BY <1>2, <1>3

LEMMA TopForward ==
  ASSUME NEW m, NEW i, NEW path, NEW wires, Forwarded(m, i, path, wires)
  PROVE  TopInv'
<1> DEFINE Fits(s, x, r, t) == r # Unknown =>
             r.top = 0 \/ \E j \in s : sent'[j].from = t /\ sent'[j].seq = r.top
<1>1. \A x, t \in Muds : Fits(seen[x], x, reminfo[x][t], t)
  <2>1. \A x, t \in Muds : reminfo[x][t] # Unknown =>
          \/ reminfo[x][t].top = 0
          \/ \E j \in seen[x] : sent[j].from = t /\ sent[j].seq = reminfo[x][t].top
    BY DEF Forwarded, FlowInv, TopInv, Known
  <2>2. \A x \in Muds : \A j \in seen[x] : sent'[j] = sent[j]
    BY Setting
  <2>3. QED
    BY <2>1, <2>2
<1>2. \A x \in Muds : seen[x] \subseteq seen'[x]
  BY SeenMore
<1>3. m \in Muds
  BY Setting
<1>4. ASSUME NEW t \in Muds, i \in seen'[m]
      PROVE  Fits(seen'[m], m, UpdateRoutes(m, sent'[i], path)[t], t)
  <2> DEFINE old == reminfo[m][t]
             p == sent'[i]
             type == IF old.type \in {"expired", "revived"} THEN "revived" ELSE "normal"
             top == IF old = Unknown THEN 0
                    ELSE IF t = p.from /\ p.seq > old.top THEN p.seq ELSE old.top
             new == UpdateRoutes(m, p, path)[t]
  <2>1. new = IF t # m /\ t \in ToSet(path) THEN [type |-> type, route |-> Last(path), top |-> top]
              ELSE IF old = Unknown THEN old ELSE [old EXCEPT !.top = top]
    BY DEF UpdateRoutes
  <2>2. old # Unknown => old \in [type : {"normal", "expired", "revived"}, route : Muds, top : Nat]
    BY <1>3 DEF Forwarded, IInv, RouteInv
  <2>3. new # Unknown => new.top = top
    <3> HIDE DEF top, type
    <3>1. CASE t # m /\ t \in ToSet(path)
      BY <2>1, <3>1
    <3>2. CASE ~(t # m /\ t \in ToSet(path)) /\ old # Unknown
      <4>1. new = [old EXCEPT !.top = top]
        BY <2>1, <3>2
      <4> HIDE DEF new, old
      <4>2. QED
        BY <2>2, <3>2, <4>1
    <3>3. CASE ~(t # m /\ t \in ToSet(path)) /\ old = Unknown
      BY <2>1, <3>3
    <3>4. QED
      BY <3>1, <3>2, <3>3
  <2>4. top = 0 \/ \E j \in seen'[m] : sent'[j].from = t /\ sent'[j].seq = top
    <3>1. CASE old = Unknown
      BY <3>1
    <3>2. CASE old # Unknown /\ t = p.from /\ p.seq > old.top
      BY <1>4, <3>2
    <3>3. CASE old # Unknown /\ ~(t = p.from /\ p.seq > old.top)
      <4>1. top = old.top
        BY <3>3
      <4>2. old.top = 0 \/ \E j \in seen[m] : sent'[j].from = t /\ sent'[j].seq = old.top
        BY <1>1, <1>3, <3>3
      <4>3. QED
        BY <1>2, <1>3, <4>1, <4>2
    <3>4. QED
      BY <3>1, <3>2, <3>3
  <2>5. QED
    BY <2>3, <2>4
<1>5. \A x, t \in Muds : Fits(seen'[x], x, reminfo'[x][t], t)
  <2> SUFFICES ASSUME NEW x \in Muds, NEW t \in Muds PROVE Fits(seen'[x], x, reminfo'[x][t], t)
    OBVIOUS
  <2>1. Fits(seen'[x], x, reminfo[x][t], t)
    BY <1>1, <1>2
  <2>2. CASE reminfo'[x] = reminfo[x]
    BY <2>1, <2>2
  <2>3. CASE reminfo'[x] # reminfo[x]
    <3>1. x = m /\ i \in seen'[m] /\ reminfo'[m] = UpdateRoutes(m, sent'[i], path)
      BY <2>3, KnownMore
    <3> HIDE DEF Fits
    <3>2. QED
      BY <1>4, <3>1
  <2>4. QED
    BY <2>2, <2>3
<1>6. QED
  BY <1>5 DEF TopInv, Known

LEMMA FloodForward ==
  ASSUME NEW m, NEW i, NEW path, NEW wires, Forwarded(m, i, path, wires)
  PROVE  FloodInv'
<1> USE DEF Forwarded
<1>1. /\ m \in Muds /\ Wires' = Wires /\ rewound' = rewound /\ trouble' = trouble /\ up' = up
      /\ Packets \subseteq Packets' /\ Packets' \subseteq Packets \cup {i}
      /\ \A k \in Packets : sent'[k] = sent[k] /\ k \in Nat /\ (i \notin Packets => k < i)
      /\ i \notin Packets => path = <<>> /\ sent'[i].from = m
      /\ refused \subseteq Muds \X Packets /\ i \in Nat
      /\ seen \in [Muds -> SUBSET Packets]
      /\ \A x, y : Both(x, y)' <=> Both(x, y)
  BY Setting DEF Both
<1> SUFFICES ASSUME NEW k \in Packets', Fresh(k)'
             PROVE  /\ \A n \in Muds : <<n, k>> \notin refused'
                    /\ \A x, y \in Muds : Both(x, y) /\ k \in seen'[x]
                         => k \in seen'[y] \/ Carries(wire'[<<x, y>>], k)
                    /\ \A j \in Packets' : j > k /\ sent'[j].from = sent'[k].from =>
                         /\ \A x \in Muds : j \in seen'[x] => k \in seen'[x]
                         /\ \A x, y \in Muds : Both(x, y)
                              => k \in seen'[y] \/ Ahead(wire'[<<x, y>>], k, j)
  BY <1>1 DEF FloodInv
<1>2. k = i => i \in seen'[m]
  BY FreshTaken
<1>3. k \in Packets => Fresh(k) /\ Recent(k)
  BY RecentOld DEF Fresh
<1>4. k \in Packets => \A n \in Muds : <<n, k>> \notin refused
  BY <1>3 DEF FlowInv, FloodInv
<1>5. \A n \in Muds : <<n, k>> \notin refused'
  <2>1. CASE k \in Packets
    BY <1>2, <1>4, <2>1, SeenMore
  <2>2. CASE k \notin Packets
    <3>1. k = i /\ refused' = refused
      BY <1>1, <1>2, <2>2, SeenMore
    <3>2. QED
      BY <1>1, <2>2, <3>1
  <2>3. QED
    BY <2>1, <2>2
<1>6. \A x \in Muds : seen[x] \subseteq seen'[x] /\ seen'[x] \subseteq seen[x] \cup {i}
                      /\ (x # m => seen'[x] = seen[x])
  BY SeenMore
<1>7. ASSUME NEW x \in Muds, NEW y \in Muds, Both(x, y), k \in seen'[x]
      PROVE  k \in seen'[y] \/ Carries(wire'[<<x, y>>], k)
  <2>1. <<x, y>> \in Wires /\ up[<<x, y>>] /\ up[<<y, x>>]
    BY <1>7 DEF Both
  <2>2. CASE k \in seen[x]
    <3>1. k \in Packets
      BY <1>1, <2>2
    <3>2. k \in seen[y] \/ Carries(wire[<<x, y>>], k)
      BY <1>3, <1>7, <2>2, <3>1 DEF FlowInv, FloodInv
    <3>3. Carries(wire[<<x, y>>], k) => Carries(wire'[<<x, y>>], k) \/ (k = i /\ y = m)
      BY <2>1, WireContents
    <3>4. QED
      BY <1>2, <1>6, <3>2, <3>3
  <2>3. CASE k \notin seen[x]
    <3>1. k = i /\ x = m
      BY <1>6, <1>7, <2>3
    <3>2. Spreading(m, i, path, wires)
      BY <1>7, <2>3, <3>1, SeenMore
    <3>3. sent'[i].to = All
      BY <3>1 DEF Fresh
    <3>4. y \in Connected(m)
      BY <2>1, <3>1 DEF Connected, Peers, Wires
    <3>5. CASE y \in ToSet(path)
      <4>1. i \in seen[y]
        <5>1. Recent(i)'
          BY <3>1 DEF Fresh
        <5>2. QED
          BY <3>5, <5>1, PathHas
      <4>2. QED
        BY <1>6, <3>1, <4>1
    <3>6. CASE y \notin ToSet(path)
      <4>1. y \in NextHops(m, path, sent'[i].to, UpdateRoutes(m, sent'[i], path))
        BY <3>3, <3>4, <3>6 DEF NextHops
      <4>2. wire'[<<m, y>>] = Append(wires[<<m, y>>], Copy(m, i, path))
        BY <2>1, <3>1, <3>2, <4>1 DEF Spreading
      <4>3. wires[<<m, y>>] = wire[<<m, y>>] /\ wire[<<m, y>>] \in Seq(Msgs)
        <5> DEFINE w == <<m, y>>
        <5>1. w \in Wires /\ w[1] = m
          BY <2>1, <3>1
        <5> HIDE DEF w
        <5>2. Moves(m, i, path, wires, w)
          BY <5>1, WireMoves
        <5>3. wire[w] \in Seq(Msgs)
          BY <5>1, Setting
        <5>4. QED
          BY <5>1, <5>2, <5>3 DEF w, Moves
      <4>4. Copy(m, i, path) \in Msgs
        <5>1. y \in Muds /\ y # m
          BY <2>1, <3>1, Neighbours DEF IInv
        <5>2. QED
          BY <1>1, <3>6, <5>1, GoodCopy DEF Copy
      <4>5. ToSet(wire'[<<m, y>>]) = ToSet(wire[<<m, y>>]) \cup {Copy(m, i, path)}
        BY <4>2, <4>3, <4>4, AppendSet
      <4>6. Carries(wire'[<<m, y>>], i)
        BY <4>5, CopyPath DEF Carries
      <4>7. QED
        BY <3>1, <4>6
    <3>7. QED
      BY <3>5, <3>6
  <2>4. QED
    BY <2>2, <2>3
<1>8. ASSUME NEW j \in Packets', j > k, sent'[j].from = sent'[k].from
      PROVE  /\ k \in Packets /\ j \in Packets => sent[j].from = sent[k].from
             /\ k \in Packets /\ k # j
  <2>1. j \in Nat /\ k \in Nat
    BY <1>1
  <2>2. k \in Packets
    BY <1>1, <1>8, <2>1
  <2>3. QED
    BY <1>1, <1>8, <2>1, <2>2
<1>9. ASSUME NEW j \in Packets', j > k, sent'[j].from = sent'[k].from,
             NEW x \in Muds, j \in seen'[x]
      PROVE  k \in seen'[x]
  <2>1. k \in Packets /\ Fresh(k) /\ Recent(k) /\ k # j
    BY <1>3, <1>8, <1>9
  <2>2. CASE j \in seen[x]
    <3>1. j \in Packets
      BY <1>1, <2>2
    <3>2. sent[j].from = sent[k].from
      BY <1>8, <1>9, <3>1
    <3>3. k \in seen[x]
      BY <1>9, <2>1, <2>2, <3>1, <3>2 DEF FlowInv, FloodInv
    <3>4. QED
      BY <1>6, <3>3
  <2>3. CASE j \notin seen[x]
    <3>1. j = i /\ x = m
      BY <1>6, <1>9, <2>3
    <3>2. CASE path = <<>>
      <4>1. sent'[i].from = m
        BY <3>2, FromWire
      <4>2. sent[k].from = m /\ sent[k].from \notin rewound
        BY <1>1, <1>9, <2>1, <3>1, <4>1 DEF Fresh
      <4>3. k \in seen[m]
        BY <2>1, <4>2 DEF FlowInv, SenderInv
      <4>4. QED
        BY <1>6, <3>1, <4>3
    <3>3. CASE path # <<>>
      <4>1. i \in Packets
        BY <3>3, FromWire
      <4>2. sent[i].from = sent[k].from /\ k < i
        BY <1>1, <1>8, <1>9, <3>1, <4>1
      <4>3. k \in seen[m]
        BY <2>1, <3>3, <4>2, Earlier
      <4>4. QED
        BY <1>6, <3>1, <4>3
    <3>4. QED
      BY <3>2, <3>3
  <2>4. QED
    BY <2>2, <2>3
<1>10. ASSUME NEW j \in Packets', j > k, sent'[j].from = sent'[k].from,
              NEW x \in Muds, NEW y \in Muds, Both(x, y), k \notin seen'[y]
       PROVE  Ahead(wire'[<<x, y>>], k, j)
  <2> DEFINE w == <<x, y>>
  <2>1. k \in Packets /\ Fresh(k) /\ k # j
    BY <1>3, <1>8, <1>10
  <2>2. w \in Wires /\ wire[w] \in Seq(Msgs) /\ w[1] = x /\ w[2] = y
    BY <1>10, Setting DEF Both
  <2>3. k \notin seen[y]
    BY <1>6, <1>10
  <2>4. Ahead(wire[w], k, j)
    <3>1. CASE j \in Packets
      <4>1. sent[j].from = sent[k].from
        BY <1>8, <1>10, <3>1
      <4>2. QED
        BY <1>10, <2>1, <2>3, <3>1, <4>1 DEF FlowInv, FloodInv
    <3>2. CASE j \notin Packets
      <4>1. ~Carries(wire[w], j)
        BY <2>2, <3>2, Setting DEF Carries
      <4>2. QED
        BY <2>2, <4>1, AheadOfNone
    <3>3. QED
      BY <3>1, <3>2
  <2> HIDE DEF w
  <2>5. Moves(m, i, path, wires, w)
    BY <2>2, WireMoves
  <2>6. CASE wire'[w] = wire[w]
    BY <2>4, <2>6 DEF w
  <2>7. CASE wire'[w] = wires[w] /\ wires[w] # wire[w]
    <3>1. wire[w] # <<>> /\ wire'[w] = Tail(wire[w]) /\ Head(wire[w]).id = i /\ w[2] = m
      BY <2>5, <2>7 DEF Moves
    <3>2. k # i
      BY <1>2, <1>10, <2>2, <3>1
    <3>3. Ahead(Tail(wire[w]), k, j)
      BY <2>2, <2>4, <3>1, <3>2, AheadTail
    <3>4. QED
      BY <3>1, <3>3 DEF w
  <2>8. CASE wire'[w] # wires[w]
    <3>1. /\ wire'[w] = Append(wire[w], Copy(m, i, path)) /\ Copy(m, i, path) \in Msgs
          /\ w[1] = m /\ Spreading(m, i, path, wires)
      BY <2>5, <2>8 DEF Moves
    <3>2. Copy(m, i, path).id = j => Carries(wire[w], k)
      <4> SUFFICES ASSUME Copy(m, i, path).id = j PROVE Carries(wire[w], k)
        OBVIOUS
      <4>1. j = i /\ x = m
        BY <2>2, <3>1, CopyPath
      <4>2. i \in seen'[m]
        BY <1>1, <3>1, Setting DEF Spreading
      <4>3. k \in seen'[m] /\ k # i
        BY <1>9, <1>10, <2>1, <4>1, <4>2
      <4>4. k \in seen[m]
        BY <1>1, <1>6, <4>3
      <4>5. QED
        BY <1>10, <2>1, <2>3, <4>1, <4>4 DEF FlowInv, FloodInv, w
    <3>3. Ahead(Append(wire[w], Copy(m, i, path)), k, j)
      BY <2>2, <2>4, <3>1, <3>2, AheadAppend
    <3>4. QED
      BY <3>1, <3>3 DEF w
  <2>9. QED
    BY <2>6, <2>7, <2>8
<1>11. QED
  BY <1>5, <1>7, <1>9, <1>10

LEMMA CalmForward ==
  ASSUME NEW m, NEW i, NEW path, NEW wires, Forwarded(m, i, path, wires)
  PROVE  CalmInv'
<1> USE DEF Forwarded
<1>1. m \in Muds /\ Wires' = Wires /\ rewound' = rewound /\ trouble' = trouble /\ up' = up
  BY Setting
<1> SUFFICES ASSUME trouble = 0
             PROVE  /\ rewound = {} /\ \A w \in Wires : up[w]
                    /\ \A x, t \in Muds : Known(x, t)' =>
                         /\ reminfo'[x][t].type = "normal"
                         /\ reminfo'[x][t].route = t \/ reminfo'[reminfo'[x][t].route][t] # Unknown
                    /\ \A w \in Wires : \A c \in ToSet(wire'[w]) : \A t \in ToSet(c.path) :
                         t = w[1] \/ Known(w[1], t)'
  BY <1>1 DEF CalmInv, Known
<1>2. /\ rewound = {} /\ \A w \in Wires : up[w]
      /\ \A x, t \in Muds : Known(x, t) =>
           /\ reminfo[x][t].type = "normal"
           /\ reminfo[x][t].route = t \/ Known(reminfo[x][t].route, t)
      /\ \A w \in Wires : \A c \in ToSet(wire[w]) : \A t \in ToSet(c.path) :
           t = w[1] \/ Known(w[1], t)
  BY DEF FlowInv, CalmInv
<1>3. reminfo \in [Muds -> [Muds -> {Unknown} \cup
        [type : {"normal", "expired", "revived"}, route : Muds, top : Nat]]]
  BY DEF IInv, RouteInv
<1>4. path \in Seq(Muds)
  <2>1. CASE path = <<>>
    BY <2>1
  <2>2. CASE path # <<>>
    BY <2>2 DEF Arrived, Passed
  <2>3. QED
    BY <2>1, <2>2
<1>5. \A x, t \in Muds : Known(x, t) => Known(x, t)'
  BY KnownMore
<1>6. \A t \in ToSet(path) : t \in Muds /\ path # <<>>
  BY <1>4 DEF ToSet
(* The last hop of a path knows the way to the others in it.               *)
<1>7. \A t \in ToSet(path) : /\ Last(path) \in Muds /\ Last(path) # m
                             /\ Last(path) = t \/ Known(Last(path), t)
  <2> SUFFICES ASSUME NEW t \in ToSet(path)
               PROVE  /\ Last(path) \in Muds /\ Last(path) # m
                      /\ Last(path) = t \/ Known(Last(path), t)
    OBVIOUS
  <2>1. path # <<>>
    BY <1>6
  <2>2. PICK n \in Peers(m) :
          /\ <<n, m>> \in Wires /\ n \in Muds /\ n # m /\ n = Last(path)
          /\ path = Head(wire[<<n, m>>]).path
          /\ Head(wire[<<n, m>>]) \in ToSet(wire[<<n, m>>])
    BY <2>1, FromWire
  <2>3. t = n \/ Known(n, t)
    <3> DEFINE w == <<n, m>>
    <3>1. w \in Wires /\ w[1] = n /\ Head(wire[w]) \in ToSet(wire[w]) /\ t \in ToSet(Head(wire[w]).path)
      BY <2>2
    <3> HIDE DEF w
    <3>2. QED
      BY <1>2, <3>1
  <2>4. QED
    BY <2>2, <2>3
<1>8. ASSUME NEW x \in Muds, NEW t \in Muds, Known(x, t)'
      PROVE  /\ reminfo'[x][t].type = "normal"
             /\ reminfo'[x][t].route = t \/ reminfo'[reminfo'[x][t].route][t] # Unknown
  <2>1. CASE reminfo'[x] = reminfo[x]
    <3>1. Known(x, t)
      BY <1>8, <2>1 DEF Known
    <3>2. reminfo[x][t].route \in Muds
      BY <1>3, <3>1 DEF Known
    <3>3. QED
      BY <1>2, <1>5, <2>1, <3>1, <3>2 DEF Known
  <2>2. CASE reminfo'[x] # reminfo[x]
    <3> DEFINE old == reminfo[m][t]
               p == sent'[i]
               type == IF old.type \in {"expired", "revived"} THEN "revived" ELSE "normal"
               top == IF old = Unknown THEN 0
                      ELSE IF t = p.from /\ p.seq > old.top THEN p.seq ELSE old.top
               new == UpdateRoutes(m, p, path)[t]
    <3>1. x = m /\ reminfo'[m] = UpdateRoutes(m, p, path)
      BY <2>2, KnownMore
    <3>2. new = IF t # m /\ t \in ToSet(path)
                THEN [type |-> type, route |-> Last(path), top |-> top]
                ELSE IF old = Unknown THEN old ELSE [old EXCEPT !.top = top]
      BY DEF UpdateRoutes
    <3>3. reminfo'[x][t] = new /\ new # Unknown
      BY <1>8, <3>1 DEF Known
    <3>4. CASE t # m /\ t \in ToSet(path)
      <4>0. old.type \notin {"expired", "revived"}
        BY <1>1, <1>2 DEF Known, Unknown
      <4>1. new.type = "normal" /\ new.route = Last(path)
        BY <3>2, <3>4, <4>0
      <4>2. Last(path) = t \/ reminfo'[Last(path)][t] # Unknown
        BY <1>5, <1>7, <3>4 DEF Known
      <4> HIDE DEF new
      <4>3. QED
        BY <3>3, <4>1, <4>2
    <3>5. CASE ~(t # m /\ t \in ToSet(path))
      <4>1. old # Unknown /\ new = [old EXCEPT !.top = top]
        BY <3>2, <3>3, <3>5
      <4>2. old \in [type : {"normal", "expired", "revived"}, route : Muds, top : Nat]
        BY <1>1, <1>3, <4>1
      <4> HIDE DEF top, new, old
      <4>3. new.type = old.type /\ new.route = old.route /\ old.route \in Muds
        BY <4>1, <4>2
      <4>4. Known(m, t)
        BY <4>1 DEF Known, old
      <4>5. old.type = "normal" /\ (old.route = t \/ Known(old.route, t))
        BY <1>1, <1>2, <4>4 DEF old
      <4>6. QED
        BY <1>5, <3>3, <4>3, <4>5 DEF Known
    <3>6. QED
      BY <3>4, <3>5
  <2>3. QED
    BY <2>1, <2>2
<1>9. ASSUME NEW w \in Wires, NEW c \in ToSet(wire'[w]), NEW t \in ToSet(c.path), t # w[1]
      PROVE  Known(w[1], t)'
  <2>1. CASE c \in ToSet(wire[w])
    <3>1. Known(w[1], t)
      BY <1>2, <1>9, <2>1
    <3>2. w[1] \in Muds
      BY Neighbours DEF IInv
    <3>3. t \in Muds
      <4>1. wire[w] \in Seq(Msgs)
        BY Setting
      <4>2. PICK k \in 1 .. Len(wire[w]) : c = wire[w][k]
        BY <2>1, <4>1 DEF ToSet
      <4>3. c.path \in Seq(Muds)
        BY <4>2 DEF IInv, WireInv, GoodWires, GoodMsg, Passed
      <4>4. QED
        BY <4>3 DEF ToSet
    <3>4. QED
      BY <1>5, <3>1, <3>2, <3>3
  <2>2. CASE c \notin ToSet(wire[w])
    <3>1. w = <<m, w[2]>> /\ c = Copy(m, i, path) /\ Spreading(m, i, path, wires)
      BY <2>2, WireContents
    <3>2. w[1] = m
      BY <3>1
    <3>3. t # m /\ t \in ToSet(path)
      BY <1>9, <3>1, <3>2, CopyPath
    <3>4. QED
      BY <1>6, <3>1, <3>2, <3>3, KnownMore
  <2>3. QED
    BY <2>1, <2>2
<1>10. QED
  BY <1>2, <1>8, <1>9

(* Who is sent a packet for one mud, when all connections are alive.       *)
LEMMA HopsFor ==
  ASSUME NEW m, NEW path, NEW to, to # All, to # m, NEW routes,
         to \notin ToSet(path), Connected(m) = Peers(m)
  PROVE  LET hops == NextHops(m, path, to, routes)
             r == routes[to].route
         IN  /\ to \in Peers(m) => to \in hops
             /\ \/ Peers(m) \ ToSet(path) \subseteq hops
                \/ to \in Peers(m)
                \/ r \in hops /\ r \in Peers(m) /\ routes[to].type \in {"normal", "revived"}
<1> DEFINE hops == NextHops(m, path, to, routes)
           r == routes[to].route
           usable == routes[to].type \in {"normal", "revived"} /\ r \notin ToSet(path)
<1>1. CASE usable
  <2> DEFINE direct == IF r # to THEN {to} ELSE {}
  <2>1. hops = (IF r \in Peers(m) /\ <<m, r>> \notin Flooded
                THEN ({r} \cup direct) \cap Peers(m) ELSE Peers(m)) \ ToSet(path)
    BY <1>1 DEF NextHops
  <2>2. QED
    BY <1>1, <2>1
<1>2. CASE ~usable
  <2>1. hops = (IF to \in Peers(m) /\ <<m, to>> \notin Flooded
                THEN ({to} \cup {}) \cap Peers(m) ELSE Peers(m)) \ ToSet(path)
    BY <1>2 DEF NextHops
  <2>2. QED
    BY <2>1
<1>3. QED
  BY <1>1, <1>2

LEMMA OnwardForward ==
  ASSUME NEW m, NEW i, NEW path, NEW wires, Forwarded(m, i, path, wires)
  PROVE  OnwardInv'
<1> USE DEF Forwarded
<1>1. /\ m \in Muds /\ Wires' = Wires /\ rewound' = rewound /\ trouble' = trouble /\ up' = up
      /\ \A x : Peers(x)' = Peers(x)
      /\ seen \in [Muds -> SUBSET Packets] /\ i \in Packets'
      /\ \A k \in Packets : sent'[k] = sent[k]
  BY Setting
<1>2. \A n, y \in Muds : Known(n, y) => Known(n, y)'
  BY KnownMore
<1>3. \A y \in Muds : seen[y] \subseteq seen'[y] /\ seen'[y] \subseteq seen[y] \cup {i}
                      /\ (y # m => seen'[y] = seen[y])
  BY SeenMore
<1>4. \A n \in Muds : \A y \in Peers(n) : y \in Muds /\ y # n /\ <<n, y>> \in Wires
  BY Neighbours DEF IInv
<1> SUFFICES ASSUME trouble = 0, NEW k \in Packets', sent'[k].to \in Muds,
                    k \notin seen'[sent'[k].to], NEW x \in Muds, k \in seen'[x]
             PROVE  Onward(k, x)'
  BY <1>1 DEF OnwardInv
<1> DEFINE to == sent'[k].to
           G(y) == k \in seen'[y] \/ Carries(wire'[<<x, y>>], k) \/ <<y, k>> \in refused'
<1>5. (\/ \A n \in Peers(x) : G(n)
       \/ to \in Peers(x) /\ G(to)
       \/ /\ reminfo'[x][to] # Unknown /\ to \notin Peers(x)
          /\ \E h \in Peers(x) : reminfo'[h][to] # Unknown /\ G(h))
      => Onward(k, x)'
  BY <1>1 DEF Onward, Got, Known
<1>6. CASE k \in seen[x]
  <2>1. k \in Packets /\ to = sent[k].to
    BY <1>1, <1>6
  <2>2. k \notin seen[to]
    BY <1>3
  <2>3. Onward(k, x)
    BY <1>6, <2>1, <2>2 DEF FlowInv, OnwardInv
  <2>4. ASSUME NEW y \in Peers(x), Got(k, x, y) PROVE G(y)
    <3>1. y \in Muds /\ <<x, y>> \in Wires
      BY <1>4
    <3>2. Carries(wire[<<x, y>>], k) => Carries(wire'[<<x, y>>], k) \/ (k = i /\ y = m)
      BY <3>1, WireContents
    <3>3. i \in seen'[m] \/ <<m, i>> \in refused'
      BY SeenMore
    <3>4. <<y, k>> \in refused => <<y, k>> \in refused'
      BY SeenMore
    <3>5. QED
      BY <1>3, <2>4, <3>1, <3>2, <3>3, <3>4 DEF Got
  <2>5. CASE \A n \in Peers(x) : Got(k, x, n)
    BY <1>5, <2>4, <2>5
  <2>6. CASE to \in Peers(x) /\ Got(k, x, to)
    BY <1>5, <2>4, <2>6
  <2>7. CASE /\ Known(x, to) /\ to \notin Peers(x)
             /\ \E h \in Peers(x) : Known(h, to) /\ Got(k, x, h)
    BY <1>2, <1>4, <1>5, <2>4, <2>7 DEF Known
  <2>8. QED
    BY <2>1, <2>3, <2>5, <2>6, <2>7 DEF Onward
<1>7. CASE k \notin seen[x]
  <2>1. k = i /\ x = m
    BY <1>3, <1>7
  <2>2. Spreading(m, i, path, wires)
    BY <1>7, <2>1, SeenMore
  <2> DEFINE routes == UpdateRoutes(m, sent'[i], path)
             hops == NextHops(m, path, to, routes)
  <2>3. Recent(i)'
    <3>1. sent'[i].since <= trouble'
      BY <1>1, SinceForward DEF SinceInv
    <3>2. sent'[i] \in Recs
      BY <1>1, RecIs DEF IInv, SendInv, Packets
    <3>3. sent'[i].since \in Nat
      BY <3>2 DEF Recs
    <3>4. QED
      BY <1>1, <3>1, <3>3 DEF Recent
  <2>4. \A y \in ToSet(path) : i \in seen[y] /\ y \in Muds
    BY <2>3, PathHas
  <2>5. to # All /\ to # m /\ to \notin ToSet(path)
    BY <1>3, <2>1, <2>4, ForwardAssumption
  <2>6. \A w \in Wires : up[w]
    BY DEF FlowInv, CalmInv
  <2>7. Connected(m) = Peers(m)
    BY <1>1, <1>4, <2>6 DEF Connected
  <2>8. ASSUME NEW y \in Peers(m), y \in ToSet(path) \/ y \in hops PROVE G(y)
    <3>1. y \in Muds /\ y # m /\ <<m, y>> \in Wires /\ <<y, m>> \in Wires
      BY <1>1, Neighbours DEF IInv
    <3>2. CASE y \in ToSet(path)
      BY <1>3, <2>1, <2>4, <3>1, <3>2
    <3>3. CASE y \notin ToSet(path)
      <4>1. y \in NextHops(m, path, sent'[i].to, UpdateRoutes(m, sent'[i], path))
        BY <2>1, <2>8, <3>3
      <4>2. wire'[<<m, y>>] = Append(wires[<<m, y>>], Copy(m, i, path))
        BY <2>2, <2>6, <3>1, <4>1 DEF Spreading
      <4>3. wires[<<m, y>>] = wire[<<m, y>>] /\ wire[<<m, y>>] \in Seq(Msgs)
        <5> DEFINE w == <<m, y>>
        <5>1. w \in Wires /\ w[1] = m
          BY <3>1
        <5> HIDE DEF w
        <5>2. Moves(m, i, path, wires, w)
          BY <5>1, WireMoves
        <5>3. wire[w] \in Seq(Msgs)
          BY <5>1, Setting
        <5>4. QED
          BY <5>1, <5>2, <5>3 DEF w, Moves
      <4>4. Copy(m, i, path) \in Msgs
        BY <1>1, <3>1, <3>3, GoodCopy DEF Copy
      <4>5. ToSet(wire'[<<m, y>>]) = ToSet(wire[<<m, y>>]) \cup {Copy(m, i, path)}
        BY <4>2, <4>3, <4>4, AppendSet
      <4>6. Carries(wire'[<<m, y>>], i)
        BY <4>5, CopyPath DEF Carries
      <4>7. QED
        BY <2>1, <4>6
    <3>4. QED
      BY <3>2, <3>3
  <2> HIDE DEF G, to
  <2>9. /\ to \in Peers(m) => to \in hops
        /\ \/ Peers(m) \ ToSet(path) \subseteq hops
           \/ to \in Peers(m)
           \/ /\ routes[to].route \in hops /\ routes[to].route \in Peers(m)
              /\ routes[to].type \in {"normal", "revived"}
    BY <2>5, <2>7, HopsFor
  <2>10. reminfo'[m] = routes
    <3>1. reminfo \in [Muds -> [Muds -> {Unknown} \cup
            [type : {"normal", "expired", "revived"}, route : Muds, top : Nat]]]
      BY DEF IInv, RouteInv
    <3>2. QED
      BY <1>1, <2>2, <3>1 DEF Spreading
  <2> HIDE DEF routes, hops
  <2>11. CASE to \in Peers(m)
    BY <1>5, <2>1, <2>8, <2>9, <2>11
  <2>12. CASE Peers(m) \ ToSet(path) \subseteq hops
    BY <1>5, <2>1, <2>8, <2>12
  <2>13. CASE /\ to \notin Peers(m)
              /\ routes[to].route \in hops /\ routes[to].route \in Peers(m)
              /\ routes[to].type \in {"normal", "revived"}
    <3> DEFINE r == routes[to].route
    <3>1. routes[to] # Unknown
      BY <2>13 DEF Unknown
    <3>2. to \in Muds
      BY DEF to
    <3>3. reminfo'[m][to] # Unknown
      BY <2>10, <3>1
    <3>4. r = to \/ reminfo'[r][to] # Unknown
      BY <1>1, <2>10, <3>2, <3>3, CalmForward DEF CalmInv, Known
    <3>5. r \in Peers(m) /\ G(r)
      BY <2>8, <2>13
    <3>6. r # to
      BY <2>13
    <3>7. \E h \in Peers(m) : reminfo'[h][to] # Unknown /\ G(h)
      BY <3>4, <3>5, <3>6
    <3>8. QED
      BY <1>5, <2>1, <2>13, <3>3, <3>7
  <2>14. QED
    BY <2>9, <2>11, <2>12, <2>13
<1>8. QED
  BY <1>6, <1>7

LEMMA FlowForward ==
  ASSUME NEW m, NEW i, NEW path, NEW wires, Forwarded(m, i, path, wires)
  PROVE  FlowInv'
  BY SinceForward, PathForward, TopForward, FloodForward, CalmForward, OnwardForward DEF FlowInv

-----------------------------------------------------------------------------
LEMMA SendFlow ==
  ASSUME IInv, IInv', FlowInv, NEW m \in Members, NEW to \in Members \cup {All}, ImcSend(m, to)
  PROVE  FlowInv'
<1> DEFINE rec == [from |-> m, seq |-> sequence[m], to |-> to, since |-> trouble]
<1>1. m \in Muds /\ rec \in Recs
  BY Neighbours DEF IInv, SendInv, Recs
<1>2. /\ sent' = Append(sent, rec) /\ rec.from = m /\ rec.since = trouble
      /\ Forward(m, Len(sent) + 1, <<>>, wire)
      /\ UNCHANGED <<links, up, rewound, trouble>>
  BY DEF ImcSend
<1> HIDE DEF rec
<1>3. /\ sent' \in Seq(Recs) /\ Len(sent') = Len(sent) + 1 /\ Len(sent) \in Nat
      /\ \A i \in 1 .. Len(sent) : sent'[i] = sent[i]
      /\ sent'[Len(sent) + 1] = rec
  BY <1>1, <1>2, AppendProperties DEF IInv, SendInv
<1>4. Grown
  BY <1>3 DEF Grown
<1>5. Arrived(m, Len(sent) + 1, <<>>) /\ Len(sent) + 1 \in 1 .. Len(sent')
  BY <1>2, <1>3 DEF Arrived
<1>6. Came(m, Len(sent) + 1, <<>>, wire)
  BY <1>2, <1>3 DEF Came
<1>7. Forwarded(m, Len(sent) + 1, <<>>, wire)
  BY <1>1, <1>2, <1>4, <1>5, <1>6 DEF Forwarded
<1>8. QED
  BY <1>7, FlowForward

LEMMA ReceiveFlow ==
  ASSUME IInv, IInv', FlowInv, NEW m \in Members, NEW n \in Peers(m), ImcReceive(m, n)
  PROVE  FlowInv'
<1> DEFINE w == <<n, m>>
           msg == Head(wire[w])
           wires == [wire EXCEPT ![w] = Tail(@)]
<1>1. m \in Muds /\ n \in Muds /\ w \in Wires
  BY Neighbours DEF IInv
<1>2. /\ wire[w] # <<>> /\ up[<<m, n>>] /\ sent' = sent
      /\ Forward(m, msg.id, msg.path, wires)
      /\ UNCHANGED <<links, up, rewound, trouble>>
  BY DEF ImcReceive
<1>3. wire[w] \in Seq(Msgs) /\ 1 \in 1 .. Len(wire[w]) /\ msg = wire[w][1]
  <2>1. wire[w] \in Seq(Msgs)
    BY <1>1 DEF IInv, WireInv, GoodWires
  <2>2. QED
    BY <1>2, <2>1
<1>4. GoodMsg(sent, w, msg)
  BY <1>1, <1>3 DEF IInv, WireInv, GoodWires
<1>5. Grown
  BY <1>2, Standing DEF IInv
<1>6. Arrived(m, msg.id, msg.path) /\ msg.id \in 1 .. Len(sent')
  BY <1>2, <1>4 DEF Arrived, GoodMsg
<1>7. Came(m, msg.id, msg.path, wires)
  BY <1>2 DEF Came
<1> HIDE DEF w, msg, wires
<1>8. Forwarded(m, msg.id, msg.path, wires)
  BY <1>1, <1>2, <1>5, <1>6, <1>7 DEF Forwarded
<1>9. QED
  BY <1>8, FlowForward

LEMMA PacketsOnWires ==
  ASSUME NEW s, NEW ws, GoodWires(s, ws), NEW w \in Wires, NEW msg \in ToSet(ws[w])
  PROVE  msg.id \in 1 .. Len(s)
<1>1. ws[w] \in Seq(Msgs)
  BY DEF GoodWires
<1>2. PICK k \in 1 .. Len(ws[w]) : msg = ws[w][k]
  BY <1>1 DEF ToSet
<1>3. QED
  BY <1>2 DEF GoodWires, GoodMsg

(* Whatever happens to the network, no packet is recent after it.          *)
LEMMA TroubleFlow ==
  ASSUME IInv, IInv', FlowInv, UNCHANGED <<links, sent>>, trouble' = trouble + 1, EndsInv', TopInv'
  PROVE  FlowInv'
<1>1. trouble \in Nat /\ \A i \in Packets : sent[i].since \in Nat
  <2>1. trouble \in Nat /\ \A i \in Packets : sent[i] \in Recs
    BY RecIs DEF IInv, SendInv, Packets
  <2>2. QED
    BY <2>1 DEF Recs
<1>2. Packets' = Packets /\ sent' = sent
  BY DEF Packets
<1>3. \A i \in Packets : sent[i].since <= trouble
  BY DEF FlowInv, SinceInv
<1>4. \A i \in Packets : ~Recent(i)' /\ ~Fresh(i)' /\ sent[i].since <= trouble'
  BY <1>1, <1>2, <1>3 DEF Recent, Fresh
<1>5. SinceInv'
  BY <1>2, <1>4 DEF FlowInv, SinceInv
<1>6. SenderInv' /\ FloodInv'
  BY <1>2, <1>4 DEF SenderInv, FloodInv
<1>7. CalmInv' /\ OnwardInv'
  BY <1>1 DEF CalmInv, OnwardInv
<1>8. PathInv'
  <2>1. GoodWires(sent, wire')
    BY Unchanging DEF IInv, WireInv, GoodWires
  <2>2. \A w \in Wires : \A msg \in ToSet(wire'[w]) : msg.id \in Packets
    BY <2>1, PacketsOnWires DEF Packets
  <2>3. QED
    BY <1>4, <2>2, Unchanging DEF PathInv
<1>9. QED
  BY <1>5, <1>6, <1>7, <1>8 DEF FlowInv

LEMMA EndsSame ==
  ASSUME FlowInv, UNCHANGED <<links, wire, up>> PROVE EndsInv'
  BY Unchanging DEF FlowInv, EndsInv

LEMMA TopSame ==
  ASSUME FlowInv, UNCHANGED <<sent, seen>>,
         \A x, t \in Muds : reminfo'[x][t] # Unknown =>
           reminfo[x][t] # Unknown /\ reminfo'[x][t].top = reminfo[x][t].top
  PROVE  TopInv'
  BY DEF FlowInv, TopInv, Known

(* An end is closed: what the other end sends from now on is not put on    *)
(* the wire, and what it has sent is lost.                                 *)
LEMMA CloseFlow ==
  ASSUME IInv, IInv', FlowInv, NEW m \in Members, NEW n \in Peers(m), Break(m, n) \/ ReadEof(m, n)
  PROVE  FlowInv'
<1>1. DoClose(m, n)
  BY DEF Break, ReadEof
<1>2. /\ m \in Muds /\ n \in Muds /\ m # n /\ <<m, n>> \in Wires /\ <<n, m>> \in Wires
      /\ \A w \in Wires : w = <<w[1], w[2]>>
  BY Neighbours DEF IInv
<1>3. /\ up' = [up EXCEPT ![<<m, n>>] = FALSE]
      /\ wire' = [wire EXCEPT ![<<n, m>>] = <<>>]
      /\ reminfo' = [reminfo EXCEPT ![m] = [@ EXCEPT ![n] = Unknown]]
      /\ UNCHANGED <<links, sent, seen, refused, rewound>>
  BY <1>1 DEF DoClose, Forget
<1>4. up \in [Wires -> BOOLEAN] /\ wire \in [Wires -> Seq(Msgs)]
      /\ reminfo \in [Muds -> [Muds -> {Unknown} \cup
           [type : {"normal", "expired", "revived"}, route : Muds, top : Nat]]]
  BY DEF IInv, SendInv, WireInv, GoodWires, RouteInv
<1>5. EndsInv'
  <2> SUFFICES ASSUME NEW w \in Wires, ~up'[<<w[2], w[1]>>] PROVE wire'[w] = <<>>
    BY <1>3, Unchanging DEF EndsInv
  <2>1. CASE w = <<n, m>>
    BY <1>2, <1>3, <1>4, <2>1
  <2>2. CASE w # <<n, m>>
    <3>1. <<w[2], w[1]>> # <<m, n>> /\ wire'[w] = wire[w]
      BY <1>2, <1>3, <1>4, <2>2
    <3>2. <<w[2], w[1]>> \in Wires
      BY Neighbours DEF IInv
    <3>3. ~up[<<w[2], w[1]>>]
      BY <1>3, <1>4, <3>1, <3>2
    <3>4. QED
      BY <3>1, <3>3 DEF FlowInv, EndsInv
  <2>3. QED
    BY <2>1, <2>2
<1>6. TopInv'
  <2>1. \A x, t \in Muds : reminfo'[x][t] # Unknown => reminfo'[x][t] = reminfo[x][t]
    BY <1>2, <1>3, <1>4
  <2>2. QED
    BY <1>3, <2>1, TopSame
<1>7. CASE Break(m, n)
  <2>1. trouble' = trouble + 1
    BY <1>7 DEF Break, Change
  <2>2. QED
    BY <1>3, <1>5, <1>6, <2>1, TroubleFlow
<1>8. CASE ReadEof(m, n)
  <2>1. trouble' = trouble /\ ~up[<<n, m>>] /\ wire[<<n, m>>] = <<>>
    BY <1>8 DEF ReadEof
  <2>2. wire' = wire /\ wire[<<m, n>>] = <<>>
    <3>1. wire' = wire
      BY <1>2, <1>3, <1>4, <2>1
    <3>2. wire[<<m, n>>] = <<>>
      <4> DEFINE w == <<m, n>>
      <4>1. w \in Wires /\ ~up[<<w[2], w[1]>>]
        BY <1>2, <2>1
      <4> HIDE DEF w
      <4>2. wire[w] = <<>>
        BY <4>1 DEF FlowInv, EndsInv
      <4>3. QED
        BY <4>2 DEF w
    <3>3. QED
      BY <3>1, <3>2
  <2>3. trouble # 0
    BY <1>2, <2>1 DEF FlowInv, CalmInv
  <2>4. Packets' = Packets /\ Wires' = Wires
    BY <1>3, Unchanging DEF Packets
  <2>5. \A k : (Recent(k)' <=> Recent(k)) /\ (Fresh(k)' <=> Fresh(k))
    BY <1>3, <2>1 DEF Recent, Fresh
  <2>6. \A w \in Wires : w # <<m, n>> => up'[w] = up[w]
    BY <1>2, <1>3, <1>4
  <2>7. \A x, y \in Muds : Both(x, y)' => Both(x, y)
    BY <1>2, <1>3, <1>4, <2>4 DEF Both
  <2>8. PathInv'
    <3> SUFFICES ASSUME NEW w \in Wires, NEW msg \in ToSet(wire[w]), Recent(msg.id)'
                 PROVE  up'[w] /\ \A x \in ToSet(msg.path) : msg.id \in seen[x]
      BY <1>3, <2>2, <2>4 DEF PathInv
    <3>1. up[w] /\ \A x \in ToSet(msg.path) : msg.id \in seen[x]
      BY <2>5 DEF FlowInv, PathInv
    <3>2. w # <<m, n>>
      <4>1. wire[w] # <<>>
        BY DEF ToSet
      <4>2. QED
        BY <2>2, <4>1
    <3>3. QED
      BY <2>6, <3>1, <3>2
  <2>9. SinceInv' /\ SenderInv'
    BY <1>3, <2>1, <2>4, <2>5 DEF FlowInv, SinceInv, SenderInv
  <2>10. FloodInv'
    <3> SUFFICES ASSUME NEW k \in Packets, Fresh(k)
                 PROVE  /\ \A x \in Muds : <<x, k>> \notin refused
                        /\ \A x, y \in Muds : Both(x, y)' /\ k \in seen[x]
                             => k \in seen[y] \/ Carries(wire[<<x, y>>], k)
                        /\ \A j \in Packets : j > k /\ sent[j].from = sent[k].from =>
                             /\ \A x \in Muds : j \in seen[x] => k \in seen[x]
                             /\ \A x, y \in Muds : Both(x, y)'
                                  => k \in seen[y] \/ Ahead(wire[<<x, y>>], k, j)
      BY <1>3, <2>2, <2>4, <2>5 DEF FloodInv
    <3>1. QED
      BY <2>7 DEF FlowInv, FloodInv
  <2>11. CalmInv' /\ OnwardInv'
    BY <2>1, <2>3 DEF CalmInv, OnwardInv
  <2>12. QED
    BY <1>5, <1>6, <2>8, <2>9, <2>10, <2>11 DEF FlowInv
<1>9. QED
  BY <1>7, <1>8

LEMMA LinkUpFlow ==
  ASSUME IInv, IInv', FlowInv, NEW m \in Members, NEW n \in Peers(m), LinkUp(m, n)
  PROVE  FlowInv'
<1>1. /\ m \in Muds /\ n \in Muds /\ m # n /\ <<m, n>> \in Wires /\ <<n, m>> \in Wires
      /\ \A w \in Wires : w = <<w[1], w[2]>>
  BY Neighbours DEF IInv
<1>2. /\ up' = [up EXCEPT ![<<m, n>>] = TRUE, ![<<n, m>>] = TRUE]
      /\ wire' = [wire EXCEPT ![<<m, n>>] = <<>>, ![<<n, m>>] = <<>>]
      /\ UNCHANGED <<links, sent, seen, reminfo>> /\ trouble' = trouble + 1
  BY DEF LinkUp, Change
<1>3. up \in [Wires -> BOOLEAN] /\ wire \in [Wires -> Seq(Msgs)]
  BY DEF IInv, SendInv, WireInv, GoodWires
<1>4. EndsInv'
  <2> SUFFICES ASSUME NEW w \in Wires, ~up'[<<w[2], w[1]>>] PROVE wire'[w] = <<>>
    BY <1>2, Unchanging DEF EndsInv
  <2>1. CASE w = <<n, m>> \/ w = <<m, n>>
    BY <1>1, <1>2, <1>3, <2>1
  <2>2. CASE w # <<n, m>> /\ w # <<m, n>>
    <3>1. <<w[2], w[1]>> # <<m, n>> /\ <<w[2], w[1]>> # <<n, m>> /\ wire'[w] = wire[w]
      BY <1>1, <1>2, <1>3, <2>2
    <3>2. <<w[2], w[1]>> \in Wires
      BY Neighbours DEF IInv
    <3>3. ~up[<<w[2], w[1]>>]
      BY <1>2, <1>3, <3>1, <3>2
    <3>4. QED
      BY <3>1, <3>3 DEF FlowInv, EndsInv
  <2>3. QED
    BY <2>1, <2>2
<1>5. TopInv'
  BY <1>2, TopSame
<1>6. QED
  BY <1>2, <1>4, <1>5, TroubleFlow

LEMMA RestartFlow ==
  ASSUME IInv, IInv', FlowInv, NEW m \in Members, Restart(m)
  PROVE  FlowInv'
<1>1. m \in Muds /\ \A w \in Wires : w = <<w[1], w[2]>> /\ <<w[2], w[1]>> \in Wires
  BY Neighbours DEF IInv
<1>2. /\ reminfo' = [reminfo EXCEPT ![m] = [n \in Muds |-> Unknown]]
      /\ seen' = [seen EXCEPT ![m] = {}]
      /\ up' = [w \in Wires |-> w[1] # m /\ up[w]]
      /\ wire' = [w \in Wires |-> IF w[2] = m THEN <<>> ELSE wire[w]]
      /\ UNCHANGED <<links, sent>> /\ trouble' = trouble + 1
  BY DEF Restart, Change
<1>3. reminfo \in [Muds -> [Muds -> {Unknown} \cup
           [type : {"normal", "expired", "revived"}, route : Muds, top : Nat]]]
      /\ seen \in [Muds -> SUBSET Packets]
  BY DEF IInv, RouteInv, MemInv
<1>4. EndsInv'
  <2> SUFFICES ASSUME NEW w \in Wires, ~up'[<<w[2], w[1]>>] PROVE wire'[w] = <<>>
    BY <1>2, Unchanging DEF EndsInv
  <2>1. w[2] = m \/ ~up[<<w[2], w[1]>>]
    BY <1>1, <1>2
  <2>2. CASE w[2] = m
    BY <1>2, <2>2
  <2>3. CASE ~up[<<w[2], w[1]>>]
    BY <1>2, <2>3 DEF FlowInv, EndsInv
  <2>4. QED
    BY <2>1, <2>2, <2>3
<1>5. TopInv'
  <2>1. \A x \in Muds : x # m => reminfo'[x] = reminfo[x] /\ seen'[x] = seen[x]
    BY <1>2, <1>3
  <2>2. \A t \in Muds : reminfo'[m][t] = Unknown
    BY <1>1, <1>2, <1>3
  <2>3. \A x, t \in Muds : reminfo[x][t] # Unknown =>
          \/ reminfo[x][t].top = 0
          \/ \E j \in seen[x] : sent[j].from = t /\ sent[j].seq = reminfo[x][t].top
    BY DEF FlowInv, TopInv, Known
  <2>4. \A x, t \in Muds : reminfo'[x][t] # Unknown =>
          \/ reminfo'[x][t].top = 0
          \/ \E j \in seen'[x] : sent[j].from = t /\ sent[j].seq = reminfo'[x][t].top
    BY <2>1, <2>2, <2>3
  <2>5. QED
    BY <1>2, <2>4 DEF TopInv, Known
<1>6. QED
  BY <1>2, <1>4, <1>5, TroubleFlow

LEMMA ExpiryFlow ==
  ASSUME IInv, IInv', FlowInv, NEW m \in Members, NEW n \in Members,
         ExpireReminfo(m, n) \/ DropReminfo(m, n)
  PROVE  FlowInv'
<1>1. /\ m \in Muds /\ n \in Muds
      /\ reminfo \in [Muds -> [Muds -> {Unknown} \cup
           [type : {"normal", "expired", "revived"}, route : Muds, top : Nat]]]
  BY Neighbours DEF IInv, RouteInv
<1>2. /\ reminfo[m][n].type \in {"normal", "expired", "revived"}
      /\ \/ reminfo' = [reminfo EXCEPT ![m][n].type = "expired"]
         \/ reminfo' = [reminfo EXCEPT ![m] = [@ EXCEPT ![n] = Unknown]]
      /\ UNCHANGED <<links, sent, wire, up, seen, refused, rewound>>
  BY DEF ExpireReminfo, DropReminfo, Forget
<1>3. reminfo[m][n] # Unknown
  BY <1>2 DEF Unknown
<1>4. EndsInv'
  BY <1>2, EndsSame
<1>5. TopInv'
  <2>1. \A x, t \in Muds : reminfo'[x][t] # Unknown =>
          reminfo[x][t] # Unknown /\ reminfo'[x][t].top = reminfo[x][t].top
    <3> SUFFICES ASSUME NEW x \in Muds, NEW t \in Muds, reminfo'[x][t] # Unknown
                 PROVE  reminfo[x][t] # Unknown /\ reminfo'[x][t].top = reminfo[x][t].top
      OBVIOUS
    <3>1. CASE x = m /\ t = n
      <4>1. reminfo'[m][n] = [reminfo[m][n] EXCEPT !.type = "expired"] \/ reminfo'[m][n] = Unknown
        BY <1>1, <1>2
      <4>2. QED
        BY <1>1, <1>3, <3>1, <4>1
    <3>2. CASE ~(x = m /\ t = n)
      <4>1. reminfo'[x][t] = reminfo[x][t]
        BY <1>1, <1>2, <3>2
      <4>2. QED
        BY <4>1
    <3>3. QED
      BY <3>1, <3>2
  <2>2. QED
    BY <1>2, <2>1, TopSame
<1>6. CASE ExpireReminfo(m, n)
  <2>1. trouble' = trouble + 1
    BY <1>6 DEF ExpireReminfo, Change
  <2>2. QED
    BY <1>2, <1>4, <1>5, <2>1, TroubleFlow
<1>7. CASE DropReminfo(m, n)
  <2>1. trouble' = trouble /\ reminfo[m][n].type \in {"expired", "revived"}
    BY <1>7 DEF DropReminfo
  <2>2. trouble # 0
    BY <1>1, <1>3, <2>1 DEF FlowInv, CalmInv, Known
  <2>3. CalmInv' /\ OnwardInv'
    BY <2>1, <2>2 DEF CalmInv, OnwardInv
  <2>4. Packets' = Packets /\ Wires' = Wires
        /\ \A k : (Recent(k)' <=> Recent(k)) /\ (Fresh(k)' <=> Fresh(k))
    BY <1>2, <2>1, Unchanging DEF Packets, Recent, Fresh
  <2>5. SinceInv' /\ SenderInv' /\ PathInv'
    BY <1>2, <2>1, <2>4 DEF FlowInv, SinceInv, SenderInv, PathInv
  <2>6. FloodInv'
    <3>1. \A x, y : Both(x, y)' <=> Both(x, y)
      BY <1>2, <2>4 DEF Both
    <3>2. QED
      BY <1>2, <2>4, <3>1 DEF FlowInv, FloodInv
  <2>7. QED
    BY <1>4, <1>5, <2>3, <2>5, <2>6 DEF FlowInv
<1>8. QED
  BY <1>6, <1>7

LEMMA StillFlow ==
  ASSUME FlowInv,
         UNCHANGED <<links, sent, wire, up, reminfo, seen, refused, rewound, trouble>>
  PROVE  FlowInv'
<1>1. /\ Packets' = Packets /\ Wires' = Wires /\ \A x : Peers(x)' = Peers(x)
      /\ \A k : (Recent(k)' <=> Recent(k)) /\ (Fresh(k)' <=> Fresh(k))
      /\ \A x, y : (Both(x, y)' <=> Both(x, y)) /\ (Known(x, y)' <=> Known(x, y))
  BY Unchanging DEF Packets, Recent, Fresh, Both, Known
<1>2. SinceInv' /\ EndsInv' /\ PathInv' /\ SenderInv' /\ TopInv'
  BY <1>1 DEF FlowInv, SinceInv, EndsInv, PathInv, SenderInv, TopInv
<1>3. FloodInv'
  BY <1>1 DEF FlowInv, FloodInv
<1>4. CalmInv'
  BY <1>1 DEF FlowInv, CalmInv, Known
<1>5. OnwardInv'
  <2>1. \A k, x : Onward(k, x)' <=> Onward(k, x)
    BY DEF Onward, Got, Known, Peers
  <2>2. QED
    BY <1>1, <2>1 DEF FlowInv, OnwardInv
<1>6. QED
  BY <1>2, <1>3, <1>4, <1>5 DEF FlowInv

LEMMA InitFlow == Init => FlowInv
<1> SUFFICES ASSUME Init PROVE FlowInv
  OBVIOUS
<1>1. sent = <<>> /\ Len(sent) = 0 /\ Packets = {} /\ trouble = 0 /\ rewound = {}
  BY DEF Init, Packets
<1>2. NetInv
  BY InitIInv DEF IInv
<1>3. \A w \in Wires : wire[w] = <<>> /\ ToSet(wire[w]) = {} /\ up[w]
  BY DEF Init, ToSet
<1>4. \A m, n \in Muds : ~Known(m, n)
  BY DEF Init, Known
<1>5. SinceInv /\ SenderInv /\ FloodInv /\ OnwardInv
  BY <1>1 DEF SinceInv, SenderInv, FloodInv, OnwardInv
<1>6. EndsInv /\ PathInv /\ TopInv /\ CalmInv
  BY <1>1, <1>3, <1>4 DEF EndsInv, PathInv, TopInv, CalmInv
<1>7. QED
  BY <1>5, <1>6 DEF FlowInv

LEMMA NextFlow == IInv /\ FlowInv /\ [Next]_vars => FlowInv'
<1> SUFFICES ASSUME IInv, FlowInv, [Next]_vars PROVE FlowInv'
  OBVIOUS
<1>1. IInv'
  BY NextIInv
<1>2. ASSUME NEW m \in Members, NEW to \in Members \cup {All}, ImcSend(m, to) PROVE FlowInv'
  BY <1>1, <1>2, SendFlow
<1>3. ASSUME NEW m \in Members, Restart(m) PROVE FlowInv'
  BY <1>1, <1>3, RestartFlow
<1>4. ASSUME NEW m \in Members, NEW n \in Peers(m), ImcReceive(m, n) PROVE FlowInv'
  BY <1>1, <1>4, ReceiveFlow
<1>5. ASSUME NEW m \in Members, NEW n \in Peers(m), Break(m, n) \/ ReadEof(m, n) PROVE FlowInv'
  BY <1>1, <1>5, CloseFlow
<1>6. ASSUME NEW m \in Members, NEW n \in Peers(m), LinkUp(m, n) PROVE FlowInv'
  BY <1>1, <1>6, LinkUpFlow
<1>7. ASSUME NEW m \in Members, NEW n \in Members, ExpireReminfo(m, n) \/ DropReminfo(m, n)
      PROVE  FlowInv'
  BY <1>1, <1>7, ExpiryFlow
<1>8. ASSUME (\E m \in Members : ImcIdle(m)) \/ Tick \/ UNCHANGED vars PROVE FlowInv'
  <2>1. UNCHANGED <<links, sent, wire, up, reminfo, seen, refused, rewound, trouble>>
    BY <1>8 DEF ImcIdle, Tick, vars
  <2>2. QED
    BY <2>1, StillFlow
<1>9. QED
  BY <1>2, <1>3, <1>4, <1>5, <1>6, <1>7, <1>8 DEF Next

(* How packets spread while nothing happens to the network: what a mud has *)
(* taken in is with its neighbours or on the way to them, but for what     *)
(* routes keep from them (forward, imc_forward's choice of connections).   *)
THEOREM Flow == Spec => []FlowInv
  BY Invariant, InitFlow, NextFlow, PTL DEF Spec
-----------------------------------------------------------------------------

-----------------------------------------------------------------------------
(* A set of muds that no connection leads out of holds all that can be     *)
(* reached from any of them.                                               *)
LEMMA Least ==
  ASSUME NEW S, S \subseteq Nat, S # {}
  PROVE  \E x \in S : \A y \in S : x <= y
<1>1. IsWellFoundedOn(OpToRel(<,Nat), Nat)
  BY NatLessThanWellFounded
<1>2. OpToRel(<,Nat) = {ss \in Nat \X Nat : ss[1] < ss[2]}
  BY DEF OpToRel
<1>3. \E x \in S : \A y \in S : ~(<<y, x>> \in OpToRel(<,Nat))
  BY <1>1, WFMin
<1>4. \E x \in S : \A y \in S : ~(<<y, x>> \in {ss \in Nat \X Nat : ss[1] < ss[2]})
  BY <1>2, <1>3, Zenon
<1>5. PICK x \in S : \A y \in S : ~(<<y, x>> \in {ss \in Nat \X Nat : ss[1] < ss[2]})
  BY <1>4
<1>6. ASSUME NEW y \in S PROVE x <= y
  <2>1. x \in Nat /\ y \in Nat
    OBVIOUS
  <2>2. ~(<<y, x>>[1] < <<y, x>>[2])
    BY <1>5, <2>1
  <2>3. QED
    BY <2>1, <2>2
<1>7. QED
  BY <1>6

Within(m, r, k) == IF k = 0 THEN {m} ELSE r[k - 1] \cup UNION {Alive(n) : n \in r[k - 1]}
Spans(m, r, b) == r = [k \in 0 .. b |-> Within(m, r, k)]

LEMMA SpanExists == ASSUME NEW m, NEW b \in Nat PROVE \E r : Spans(m, r, b)
<1> DEFINE B == {c \in Nat : ~\E r : Spans(m, r, c)}
<1>1. ASSUME B # {} PROVE FALSE
  <2>0. B \subseteq Nat
    OBVIOUS
  <2>1. PICK c \in B : \A k \in B : c <= k
    BY <1>1, <2>0, Least
  <2>2. CASE c = 0
    <3> DEFINE r == [k \in 0 .. 0 |-> {m}]
    <3>1. \A k \in 0 .. 0 : Within(m, r, k) = {m}
      BY DEF Within
    <3>2. Spans(m, r, 0)
      BY <3>1 DEF Spans
    <3>3. QED
      BY <2>1, <2>2, <3>2
  <2>3. CASE c # 0
    <3>1. c - 1 \in Nat /\ c - 1 \notin B
      BY <2>1, <2>3
    <3>2. PICK r : Spans(m, r, c - 1)
      BY <3>1
    <3> DEFINE last == Within(m, r, c)
               q == [k \in 0 .. c |-> IF k = c THEN last ELSE r[k]]
    <3> HIDE DEF last
    <3>3. \A k \in 0 .. c : q[k] = Within(m, q, k)
      <4> TAKE k \in 0 .. c
      <4>1. Within(m, q, k) = Within(m, r, k)
        <5>1. k # 0 => q[k - 1] = r[k - 1]
          BY <2>1
        <5> HIDE DEF q
        <5>2. QED
          BY <5>1 DEF Within
      <4>2. CASE k = c
        BY <4>1, <4>2 DEF last
      <4>3. CASE k # c
        <5>1. k \in 0 .. (c - 1) /\ q[k] = r[k]
          BY <2>1, <4>3
        <5>2. r[k] = Within(m, r, k)
          BY <3>2, <5>1 DEF Spans
        <5>3. QED
          BY <4>1, <5>1, <5>2
      <4>4. QED
        BY <4>2, <4>3
    <3>4. Spans(m, q, c)
      BY <3>3 DEF Spans
    <3>5. QED
      BY <2>1, <3>4
  <2>4. QED
    BY <2>2, <2>3
<1>2. QED
  BY <1>1

LEMMA ReachableIn ==
  ASSUME NEW m, NEW S, m \in S, \A n \in S : Alive(n) \subseteq S
  PROVE  Reachable(m) \subseteq S
<1> DEFINE b == Cardinality(Muds)
           r == CHOOSE x : x = [k \in 0 .. b |-> Within(m, x, k)]
<1>1. b \in Nat
  BY ForwardAssumption, FS_CardinalityType
<1> HIDE DEF b
<1>2. r = [k \in 0 .. b |-> Within(m, r, k)]
  <2>1. \E x : x = [k \in 0 .. b |-> Within(m, x, k)]
    BY <1>1, SpanExists DEF Spans
  <2>2. QED
    BY <2>1
<1>3. Reachable(m) = r[b]
  BY DEF Reachable, Within, b
<1> HIDE DEF r
<1>4. \A k \in 0 .. b : r[k] = Within(m, r, k)
  BY <1>2
<1> DEFINE B == {k \in 0 .. b : ~(r[k] \subseteq S)}
<1>5. ASSUME B # {} PROVE FALSE
  <2>0. B \subseteq Nat
    OBVIOUS
  <2>1. PICK k \in B : \A c \in B : k <= c
    BY <1>5, <2>0, Least
  <2>2. CASE k = 0
    BY <1>4, <2>1, <2>2 DEF Within
  <2>3. CASE k # 0
    <3>1. k - 1 \in 0 .. b /\ k - 1 \notin B
      BY <1>1, <2>1, <2>3
    <3>2. r[k - 1] \subseteq S
      BY <3>1
    <3>3. r[k] = r[k - 1] \cup UNION {Alive(n) : n \in r[k - 1]}
      BY <1>4, <2>1, <2>3 DEF Within
    <3>4. QED
      BY <2>1, <3>2, <3>3
  <2>4. QED
    BY <2>2, <2>3
<1>6. QED
  BY <1>1, <1>3, <1>5

LEMMA NotOnWires ==
  ASSUME IInv, NEW i, i \notin InFlight, NEW w \in Wires
  PROVE  ~Carries(wire[w], i)
<1> SUFFICES ASSUME NEW k \in DOMAIN wire[w], wire[w][k].id = i PROVE FALSE
  BY DEF Carries, ToSet
<1>1. i \in {wire[w][c].id : c \in DOMAIN wire[w]}
  OBVIOUS
<1>2. QED
  BY <1>1 DEF InFlight

(* A fresh broadcast that is under way no longer has been taken in by      *)
(* everybody next to anybody who has taken it in.                          *)
LEMMA BroadcastsArrive == ASSUME IInv, FlowInv PROVE BroadcastReachesAll
<1> SUFFICES ASSUME NEW i \in Packets, i \notin InFlight, sent[i].to = All,
                    sent[i].since = trouble, sent[i].from \notin rewound
             PROVE  \A m \in Reachable(sent[i].from) : i \in seen[m]
  BY DEF BroadcastReachesAll
<1> DEFINE S == {m \in Muds : i \in seen[m]}
<1>1. Fresh(i) /\ sent[i].from \in Muds
  BY RecIs DEF Fresh, Recent, IInv, SendInv, Packets, Recs
<1>2. sent[i].from \in S
  BY <1>1 DEF FlowInv, SenderInv, Fresh
<1>3. ASSUME NEW m \in S, NEW n \in Alive(m) PROVE n \in S
  <2>1. Both(m, n) /\ <<m, n>> \in Wires /\ n \in Muds
    BY DEF Both, Alive, Peers, Wires
  <2>2. ~Carries(wire[<<m, n>>], i)
    BY <2>1, NotOnWires
  <2>3. i \in seen[n]
    BY <1>1, <2>1, <2>2 DEF FlowInv, FloodInv
  <2>4. QED
    BY <2>1, <2>3
<1>4. Reachable(sent[i].from) \subseteq S
  <2> HIDE DEF S
  <2>1. QED
    BY <1>2, <1>3, ReachableIn
<1>5. QED
  BY <1>4

LEMMA RoutesMislead == ASSUME IInv, FlowInv PROVE LostOnlyToRoutes
<1> SUFFICES ASSUME NEW i \in Packets, i \notin InFlight, trouble = 0,
                    sent[i].to \in Reachable(sent[i].from),
                    i \notin seen[sent[i].to], ~Overtaken(i)
             PROVE  \E m \in Muds : \E n \in Peers(m) :
                      /\ i \in seen[m] /\ i \in seen[n]
                      /\ Known(m, sent[i].to) /\ Known(n, sent[i].to)
                      /\ sent[i].to \notin Peers(m) \cup Peers(n)
  BY DEF LostOnlyToRoutes
<1> DEFINE to == sent[i].to
           S == {m \in Muds : i \in seen[m]}
<1>1. sent[i].from \in Muds /\ sent[i].since \in Nat
  BY RecIs DEF IInv, SendInv, Packets, Recs
<1>2. Recent(i) /\ rewound = {}
  BY <1>1 DEF Recent, FlowInv, SinceInv, CalmInv
<1>3. sent[i].from \in S
  BY <1>1, <1>2 DEF FlowInv, SenderInv
<1>4. to \in Muds
  <2>1. \A n \in Muds : Alive(n) \subseteq Muds
    BY DEF Alive, Peers
  <2>2. Reachable(sent[i].from) \subseteq Muds
    BY <1>1, <2>1, ReachableIn
  <2>3. QED
    BY <2>2
<1>5. \A n \in Muds : <<n, i>> \notin refused
  BY <1>2, RefusedIs DEF IInv, Reason, Overtaken
<1>6. ASSUME NEW m \in Muds, NEW n \in Peers(m), Got(i, m, n) PROVE i \in seen[n]
  <2>1. <<m, n>> \in Wires /\ n \in Muds
    BY DEF Peers, Wires
  <2>2. QED
    BY <1>5, <1>6, <2>1, NotOnWires DEF Got
<1>7. \A m \in Muds : i \in seen[m] => Onward(i, m)
  BY <1>4 DEF FlowInv, OnwardInv
<1>8. PICK m \in S : ~(Alive(m) \subseteq S)
  <2> HIDE DEF S
  <2>1. ASSUME \A m \in S : Alive(m) \subseteq S PROVE FALSE
    <3>1. to \in S
      BY <1>3, <2>1, ReachableIn
    <3>2. QED
      BY <3>1 DEF S
  <2>2. QED
    BY <2>1
<1>9. PICK n \in Peers(m) : i \notin seen[n]
  BY <1>8 DEF Alive, Peers
<1>10. /\ Known(m, to) /\ to \notin Peers(m)
       /\ \E h \in Peers(m) : Known(h, to) /\ Got(i, m, h)
  BY <1>6, <1>7, <1>8, <1>9 DEF Onward
<1>11. PICK h \in Peers(m) : Known(h, to) /\ Got(i, m, h)
  BY <1>10
<1>12. i \in seen[h] /\ h \in Muds
  BY <1>6, <1>8, <1>11 DEF Peers
<1>13. to \notin Peers(h)
  BY <1>6, <1>7, <1>12 DEF Onward
<1>14. QED
  BY <1>8, <1>10, <1>11, <1>12, <1>13

(* What forward and checkrepeat suppress never cuts a packet off from      *)
(* where it is to go (imc.c:606-640): a broadcast reaches everybody, and a *)
(* packet for one mud is lost only to routes that mislead.                 *)
THEOREM PacketsAlwaysArrive == Spec => []PacketsArrive
<1>1. IInv /\ FlowInv => PacketsArrive
  BY BroadcastsArrive, RoutesMislead DEF PacketsArrive
<1>2. QED
  BY <1>1, Invariant, Flow, PTL
=============================================================================
