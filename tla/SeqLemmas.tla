----------------------------- MODULE SeqLemmas -----------------------------
(***************************************************************************)
(* Facts about the intrusive lists of the runtime (wait lists, ready       *)
(* lists, inboxes, channel buffers), modelled as sequences: which elements *)
(* a list has after a push, a pop or an unlink, and that it still holds    *)
(* none of them twice.                                                     *)
(***************************************************************************)
EXTENDS WqList, SequenceTheorems, TLAPS

(* The elements of a list are what its positions hold.                     *)
LEMMA RangeFacts ==
    ASSUME NEW S, NEW s \in Seq(S)
    PROVE  /\ \A e : e \in Range(s) <=> \E i \in 1..Len(s) : s[i] = e
           /\ Range(s) \subseteq S
           /\ s = <<>> <=> Range(s) = {}
           /\ IsInjective(s) <=> \A i, j \in 1..Len(s) : s[i] = s[j] => i = j
<1>1. Range(s) = {s[i] : i \in 1..Len(s)}
  BY RangeEquality
<1>2. Len(s) \in Nat /\ DOMAIN s = 1..Len(s)
  BY LenProperties
<1>3. Range(s) \subseteq S
  BY RangeOfSeq
<1>4. s # <<>> => Len(s) \in Nat \ {0}
  BY EmptySeq
<1>5. s # <<>> => s[1] \in Range(s)
  BY <1>1, <1>4
<1>6. s = <<>> => Range(s) = {}
  BY <1>1, EmptySeq
<1>7. IsInjective(s) <=> \A i, j \in 1..Len(s) : s[i] = s[j] => i = j
  BY <1>2 DEF IsInjective
<1> QED BY <1>1, <1>3, <1>5, <1>6, <1>7

(* s_wq_push, suspenders_ready_enqueue: append at the tail.                *)
LEMMA AppendFacts ==
    ASSUME NEW S, NEW s \in Seq(S), NEW e \in S
    PROVE  /\ Append(s, e) \in Seq(S) /\ Append(s, e) # <<>>
           /\ Range(Append(s, e)) = Range(s) \cup {e}
           /\ IsInjective(s) /\ e \notin Range(s) => IsInjective(Append(s, e))
<1> DEFINE t == Append(s, e)
<1>1. /\ t \in Seq(S) /\ t # <<>> /\ Len(t) = Len(s) + 1 /\ Len(s) \in Nat
      /\ \A i \in 1..Len(s) : t[i] = s[i]
      /\ t[Len(s) + 1] = e
  BY AppendProperties, LenProperties
<1>2. /\ \A u : u \in Range(s) <=> \E i \in 1..Len(s) : s[i] = u
      /\ IsInjective(s) <=> \A i, j \in 1..Len(s) : s[i] = s[j] => i = j
  BY RangeFacts
<1>3. /\ \A u : u \in Range(t) <=> \E i \in 1..Len(t) : t[i] = u
      /\ IsInjective(t) <=> \A i, j \in 1..Len(t) : t[i] = t[j] => i = j
  BY ZenonT(60), <1>1, RangeFacts
<1> HIDE DEF t
<1>4. \A i \in 1..Len(t) : i \in 1..Len(s) \/ i = Len(s) + 1
  BY <1>1
<1>5. \A i \in 1..Len(s) : i \in 1..Len(t)
  BY <1>1
<1>6. Len(s) + 1 \in 1..Len(t)
  BY <1>1
<1>7. \A u : u \in Range(t) <=> u \in Range(s) \/ u = e
  BY SMTT(30), <1>1, <1>2, <1>3, <1>4, <1>5, <1>6
<1>8. IsInjective(s) /\ e \notin Range(s) => IsInjective(t)
  BY <1>1, <1>2, <1>3, <1>4
<1> QED BY <1>1, <1>7, <1>8 DEF t

(* s_wq_pop, suspenders_ready_dequeue: take the head.                      *)
LEMMA PopFacts ==
    ASSUME NEW S, NEW s \in Seq(S), s # <<>>
    PROVE  /\ Head(s) \in S /\ Tail(s) \in Seq(S)
           /\ Range(s) = Range(Tail(s)) \cup {Head(s)}
           /\ IsInjective(s) => IsInjective(Tail(s)) /\ Head(s) \notin Range(Tail(s))
<1> DEFINE t == Tail(s)
<1>1. /\ Head(s) \in S /\ t \in Seq(S) /\ Len(t) = Len(s) - 1 /\ Len(s) \in Nat \ {0}
      /\ \A i \in 1..Len(t) : t[i] = s[i + 1]
  BY HeadTailProperties, EmptySeq
<1>2. Head(s) = s[1]
  OBVIOUS
<1>3. /\ \A u : u \in Range(s) <=> \E i \in 1..Len(s) : s[i] = u
      /\ IsInjective(s) <=> \A i, j \in 1..Len(s) : s[i] = s[j] => i = j
  BY RangeFacts
<1>4. /\ \A u : u \in Range(t) <=> \E i \in 1..Len(t) : t[i] = u
      /\ IsInjective(t) <=> \A i, j \in 1..Len(t) : t[i] = t[j] => i = j
  BY ZenonT(40), <1>1, RangeFacts
<1> HIDE DEF t
<1>5. \A i \in 1..Len(s) : i = 1 \/ (i - 1 \in 1..Len(t) /\ t[i - 1] = s[i])
  BY <1>1
<1>6. \A i \in 1..Len(t) : i + 1 \in 1..Len(s) /\ i + 1 # 1
  BY <1>1
<1>7. 1 \in 1..Len(s)
  BY <1>1
<1>8. \A u : u \in Range(s) <=> u \in Range(t) \/ u = Head(s)
  BY SMTT(60), <1>1, <1>2, <1>3, <1>4, <1>5, <1>6, <1>7
<1>9. ASSUME IsInjective(s) PROVE IsInjective(t) /\ Head(s) \notin Range(t)
  <2>1. \A i, j \in 1..Len(t) : t[i] = t[j] => i = j
    <3> SUFFICES ASSUME NEW i \in 1..Len(t), NEW j \in 1..Len(t), t[i] = t[j]
                 PROVE  i = j
      OBVIOUS
    <3>1. s[i + 1] = s[j + 1] /\ i + 1 \in 1..Len(s) /\ j + 1 \in 1..Len(s)
      BY <1>1, <1>6
    <3> QED BY <1>9, <1>3, <3>1
  <2>2. \A i \in 1..Len(t) : t[i] # s[1]
    <3> SUFFICES ASSUME NEW i \in 1..Len(t), t[i] = s[1] PROVE FALSE
      OBVIOUS
    <3>1. s[i + 1] = s[1] /\ i + 1 \in 1..Len(s) /\ i + 1 # 1
      BY <1>1, <1>6
    <3> QED BY <1>9, <1>3, <1>7, <3>1
  <2> QED BY <1>2, <1>4, <2>1, <2>2
<1> QED BY <1>1, <1>8, <1>9 DEF t

(* A list nobody is on.                                                    *)
LEMMA EmptyFacts ==
    ASSUME NEW S
    PROVE  <<>> \in Seq(S) /\ Range(<<>>) = {} /\ IsInjective(<<>>)
<1>1. <<>> \in Seq(S) /\ Len(<<>>) = 0
  BY EmptySeq
<1>2. Range(<<>>) = {}
  BY <1>1, RangeFacts, Zenon
<1>3. DOMAIN <<>> = 1..0
  BY <1>1, LenProperties
<1>4. IsInjective(<<>>)
  BY <1>3 DEF IsInjective
<1> QED BY <1>1, <1>2, <1>4

(* What is left after an unlink is a list of nodes.                        *)
LEMMA RemoveType ==
    ASSUME NEW S, NEW s \in Seq(S), NEW e
    PROVE  s_wq_remove(s, e) \in Seq(S)
<1>1. CASE e \notin Range(s)
  BY <1>1 DEF s_wq_remove
<1>2. CASE e \in Range(s)
  <2> DEFINE i == CHOOSE i \in 1..Len(s) : s[i] = e
  <2>1. i \in 1..Len(s) /\ Len(s) \in Nat
    BY <1>2, RangeFacts, LenProperties
  <2>2. s_wq_remove(s, e) = SubSeq(s, 1, i - 1) \o SubSeq(s, i + 1, Len(s))
    BY ZenonT(40), <1>2 DEF s_wq_remove
  <2> HIDE DEF i
  <2>3. \A k \in 1..Len(s) : s[k] \in S
    BY ElementOfSeq
  <2>4. SubSeq(s, 1, i - 1) \in Seq(S) /\ SubSeq(s, i + 1, Len(s)) \in Seq(S)
    BY <2>1, <2>3, SubSeqProperties
  <2> QED BY <2>2, <2>4, ConcatProperties
<1> QED BY <1>1, <1>2

(* s_wq_remove: unlink one node, keep the others in their order.           *)
LEMMA RemoveFacts ==
    ASSUME NEW S, NEW s \in Seq(S), NEW e \in S, IsInjective(s)
    PROVE  /\ s_wq_remove(s, e) \in Seq(S)
           /\ Range(s_wq_remove(s, e)) = Range(s) \ {e}
           /\ IsInjective(s_wq_remove(s, e))
<1>1. CASE e \notin Range(s)
  BY <1>1 DEF s_wq_remove
<1>2. CASE e \in Range(s)
  <2> DEFINE i == CHOOSE i \in 1..Len(s) : s[i] = e
             a == SubSeq(s, 1, i - 1)
             b == SubSeq(s, i + 1, Len(s))
             t == a \o b
  <2>1. /\ \A u : u \in Range(s) <=> \E k \in 1..Len(s) : s[k] = u
        /\ \A k, l \in 1..Len(s) : s[k] = s[l] => k = l
        /\ Len(s) \in Nat
    BY RangeFacts, LenProperties
  <2>2. i \in 1..Len(s) /\ s[i] = e
    BY <1>2, <2>1
  <2>3. s_wq_remove(s, e) = t
    BY ZenonT(40), <1>2 DEF s_wq_remove
  <2> HIDE DEF i
  <2>4. \A k \in 1..Len(s) : s[k] \in S
    BY ElementOfSeq
  <2>5. /\ a \in Seq(S) /\ Len(a) = i - 1
        /\ \A k \in 1..i - 1 : a[k] = s[k]
    <3>1. \A k \in 1..i - 1 : s[k] \in S
      BY <2>1, <2>2, <2>4
    <3>2. /\ a \in Seq(S)
          /\ Len(a) = IF 1 <= i - 1 THEN i - 1 - 1 + 1 ELSE 0
          /\ \A k \in 1..(i - 1) - 1 + 1 : a[k] = s[1 + k - 1]
      BY <2>1, <2>2, <3>1, SubSeqProperties
    <3> QED BY <2>1, <2>2, <3>2
  <2>6. /\ b \in Seq(S) /\ Len(b) = Len(s) - i
        /\ \A k \in 1..Len(s) - i : b[k] = s[i + k]
    <3>1. \A k \in i + 1..Len(s) : s[k] \in S
      BY <2>1, <2>2, <2>4
    <3>2. /\ b \in Seq(S)
          /\ Len(b) = IF i + 1 <= Len(s) THEN Len(s) - (i + 1) + 1 ELSE 0
          /\ \A k \in 1..Len(s) - (i + 1) + 1 : b[k] = s[(i + 1) + k - 1]
      BY <2>1, <2>2, <3>1, SubSeqProperties
    <3> QED BY <2>1, <2>2, <3>2
  <2> HIDE DEF a, b
  <2>7. /\ t \in Seq(S) /\ Len(t) = Len(s) - 1
        /\ \A k \in 1..Len(s) - 1 : t[k] = IF k <= i - 1 THEN s[k] ELSE s[k + 1]
    <3>1. /\ t \in Seq(S) /\ Len(t) = Len(a) + Len(b)
          /\ \A k \in 1..Len(a) + Len(b) :
                t[k] = IF k <= Len(a) THEN a[k] ELSE b[k - Len(a)]
      BY ZenonT(40), <2>5, <2>6, ConcatProperties
    <3> QED BY SMTT(30), <2>1, <2>2, <2>5, <2>6, <3>1
  <2> HIDE DEF t
  <2>8. /\ \A u : u \in Range(t) <=> \E k \in 1..Len(t) : t[k] = u
        /\ IsInjective(t) <=> \A k, l \in 1..Len(t) : t[k] = t[l] => k = l
    BY ZenonT(40), <2>7, RangeFacts
  <2>9. \A k, l \in 1..Len(t) : t[k] = t[l] => k = l
    <3> SUFFICES ASSUME NEW k \in 1..Len(t), NEW l \in 1..Len(t), t[k] = t[l]
                 PROVE  k = l
      OBVIOUS
    <3> DEFINE at(n) == IF n <= i - 1 THEN n ELSE n + 1
    <3>1. /\ at(k) \in 1..Len(s) /\ at(l) \in 1..Len(s)
          /\ t[k] = s[at(k)] /\ t[l] = s[at(l)]
      BY SMTT(60), <2>1, <2>2, <2>7
    <3>2. at(k) = at(l)
      BY ZenonT(40), <2>1, <3>1
    <3> QED BY <2>1, <2>2, <2>7, <3>2
  <2>10. \A u : u \in Range(t) => u \in Range(s) /\ u # e
    <3> SUFFICES ASSUME NEW k \in 1..Len(t) PROVE t[k] \in Range(s) /\ t[k] # e
      BY <2>8
    <3>1. \E n \in 1..Len(s) : n # i /\ t[k] = s[n]
      <4>1. CASE k <= i - 1
        BY SMTT(30), <4>1, <2>1, <2>2, <2>7
      <4>2. CASE ~(k <= i - 1)
        <5>1. k + 1 \in 1..Len(s) /\ k + 1 # i /\ t[k] = s[k + 1]
          BY <4>2, <2>1, <2>2, <2>7
        <5> QED BY <5>1
      <4> QED BY <4>1, <4>2
    <3> QED BY <2>1, <2>2, <3>1
  <2>11. \A u : u \in Range(s) /\ u # e => u \in Range(t)
    <3> SUFFICES ASSUME NEW n \in 1..Len(s), s[n] # e PROVE s[n] \in Range(t)
      BY <2>1
    <3>1. CASE n < i
      BY SMTT(30), <3>1, <2>1, <2>2, <2>7, <2>8
    <3>2. CASE n > i
      <4>1. n - 1 \in 1..Len(t) /\ t[n - 1] = s[n]
        BY <3>2, <2>1, <2>2, <2>7
      <4> QED BY <4>1, <2>8
    <3> QED BY <3>1, <3>2, <2>1, <2>2
  <2> QED BY <2>3, <2>7, <2>8, <2>9, <2>10, <2>11
<1> QED BY <1>1, <1>2
=============================================================================
