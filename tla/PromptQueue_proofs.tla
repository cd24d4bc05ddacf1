------------------------- MODULE PromptQueue_proofs -------------------------
(***************************************************************************)
(* What the operations of PromptQueue do to the waiting requests, for a    *)
(* queue of any length.                                                    *)
(***************************************************************************)
EXTENDS PromptQueue, SequenceTheorems, TLAPS

(* The set of a sequence, by its positions *)
LEMMA ToSetElements ==
  ASSUME NEW S, NEW s \in Seq(S), NEW x
  PROVE  x \in ToSet(s) <=> \E k \in 1..Len(s) : s[k] = x
BY LenProperties DEF ToSet

(* Taking out one element: the others keep their order *)
LEMMA RemoveAtElements ==
  ASSUME NEW S, NEW s \in Seq(S), NEW i \in 1..Len(s)
  PROVE  /\ RemoveAt(s, i) \in Seq(S)
         /\ Len(RemoveAt(s, i)) = Len(s) - 1
         /\ \A k \in 1..(Len(s) - 1) : RemoveAt(s, i)[k] = IF k < i THEN s[k] ELSE s[k + 1]
<1> DEFINE front == SubSeq(s, 1, i - 1)
           back == SubSeq(s, i + 1, Len(s))
<1>1. Len(s) \in Nat
  BY LenProperties
<1>2. /\ front \in Seq(S)
      /\ Len(front) = i - 1
      /\ \A k \in 1..(i - 1) : front[k] = s[k]
  BY <1>1, SubSeqProperties, ElementOfSeq
<1>3. /\ back \in Seq(S)
      /\ Len(back) = Len(s) - i
      /\ \A k \in 1..(Len(s) - i) : back[k] = s[i + k]
  BY <1>1, SubSeqProperties, ElementOfSeq
<1>4. RemoveAt(s, i) = front \o back
  BY DEF RemoveAt
<1> HIDE DEF front, back
<1>5. /\ front \o back \in Seq(S)
      /\ Len(front \o back) = Len(front) + Len(back)
      /\ \A k \in 1..(Len(front) + Len(back)) :
           (front \o back)[k] = IF k <= Len(front) THEN front[k] ELSE back[k - Len(front)]
  BY <1>2, <1>3, ConcatProperties
<1>6. ASSUME NEW k \in 1..(Len(s) - 1)
      PROVE  (front \o back)[k] = IF k < i THEN s[k] ELSE s[k + 1]
  <2>1. CASE k < i
    BY <2>1, <1>1, <1>2, <1>3, <1>5
  <2>2. CASE ~(k < i)
    <3>1. k - (i - 1) \in 1..(Len(s) - i)
      BY <2>2, <1>1
    <3>2. back[k - (i - 1)] = s[i + (k - (i - 1))]
      BY <3>1, <1>3
    <3>3. QED
      BY <2>2, <3>2, <1>1, <1>2, <1>3, <1>5
  <2>3. QED
    BY <2>1, <2>2
<1>7. QED
  BY <1>1, <1>2, <1>3, <1>4, <1>5, <1>6

(* Putting one element in *)
LEMMA InsertAtElements ==
  ASSUME NEW S, NEW t \in Seq(S), NEW j \in 1..(Len(t) + 1), NEW e \in S
  PROVE  /\ InsertAt(t, j, e) \in Seq(S)
         /\ Len(InsertAt(t, j, e)) = Len(t) + 1
         /\ \A k \in 1..(Len(t) + 1) :
              InsertAt(t, j, e)[k] = IF k < j THEN t[k] ELSE IF k = j THEN e ELSE t[k - 1]
<1> DEFINE front == SubSeq(t, 1, j - 1)
           back == SubSeq(t, j, Len(t))
           start == front \o <<e>>
<1>1. Len(t) \in Nat
  BY LenProperties
<1>2. /\ front \in Seq(S)
      /\ Len(front) = j - 1
      /\ \A k \in 1..(j - 1) : front[k] = t[k]
  BY <1>1, SubSeqProperties, ElementOfSeq
<1>3. /\ back \in Seq(S)
      /\ Len(back) = Len(t) - j + 1
      /\ \A k \in 1..(Len(t) - j + 1) : back[k] = t[j + k - 1]
  BY <1>1, SubSeqProperties, ElementOfSeq
<1>4. <<e>> \in Seq(S) /\ Len(<<e>>) = 1 /\ <<e>>[1] = e
  OBVIOUS
<1> HIDE DEF front, back
<1>5. /\ start \in Seq(S)
      /\ Len(start) = j
      /\ \A k \in 1..j : start[k] = IF k < j THEN t[k] ELSE e
  <2>1. /\ start \in Seq(S)
        /\ Len(start) = Len(front) + 1
        /\ \A k \in 1..(Len(front) + 1) :
             start[k] = IF k <= Len(front) THEN front[k] ELSE <<e>>[k - Len(front)]
    BY <1>2, <1>4, ConcatProperties
  <2>2. QED
    BY <2>1, <1>1, <1>2, <1>4
<1>6. InsertAt(t, j, e) = start \o back
  BY DEF InsertAt, front, back
<1> HIDE DEF start
<1> DEFINE whole == start \o back
<1>7. /\ whole \in Seq(S)
      /\ Len(whole) = Len(start) + Len(back)
      /\ \A k \in 1..(Len(start) + Len(back)) :
           whole[k] = IF k <= Len(start) THEN start[k] ELSE back[k - Len(start)]
  BY <1>3, <1>5, ConcatProperties
<1> HIDE DEF whole
<1>8. ASSUME NEW k \in 1..(Len(t) + 1)
      PROVE  whole[k] = IF k < j THEN t[k] ELSE IF k = j THEN e ELSE t[k - 1]
  <2>1. CASE k \in 1..j
    BY <2>1, <1>1, <1>3, <1>5, <1>7
  <2>2. CASE k \in (j + 1)..(Len(t) + 1)
    <3>1. k - j \in 1..(Len(t) - j + 1)
      BY <2>2, <1>1
    <3>2. back[k - j] = t[j + (k - j) - 1]
      BY <3>1, <1>3
    <3>3. QED
      BY <2>2, <3>2, <1>1, <1>3, <1>5, <1>7
  <2>3. QED
    BY <2>1, <2>2, <1>1
<1>9. QED
  BY <1>1, <1>3, <1>5, <1>6, <1>7, <1>8 DEF whole

(* remove() takes exactly one request out of a queue without duplicates *)
LEMMA RemoveAtSet ==
  ASSUME NEW S, NEW s \in Seq(S), NEW i \in 1..Len(s), IsInjective(s)
  PROVE  /\ RemoveAt(s, i) \in Seq(S)
         /\ ToSet(RemoveAt(s, i)) = ToSet(s) \ {s[i]}
         /\ IsInjective(RemoveAt(s, i))
<1> DEFINE t == RemoveAt(s, i)
<1>1. Len(s) \in Nat /\ DOMAIN s = 1..Len(s)
  BY LenProperties
<1>2. /\ t \in Seq(S)
      /\ Len(t) = Len(s) - 1
      /\ \A k \in 1..(Len(s) - 1) : t[k] = IF k < i THEN s[k] ELSE s[k + 1]
  BY RemoveAtElements
<1> HIDE DEF t
<1>3. DOMAIN t = 1..(Len(s) - 1)
  BY <1>2, LenProperties
<1>4. IsInjective(t)
  <2>1. SUFFICES ASSUME NEW k \in 1..(Len(s) - 1), NEW l \in 1..(Len(s) - 1), t[k] = t[l]
                 PROVE  k = l
    BY <1>3 DEF IsInjective
  <2> DEFINE from(n) == IF n < i THEN n ELSE n + 1
  <2>2. /\ from(k) \in 1..Len(s) /\ t[k] = s[from(k)]
        /\ from(l) \in 1..Len(s) /\ t[l] = s[from(l)]
    BY <1>1, <1>2
  <2>3. from(k) = from(l)
    BY <2>1, <2>2, <1>1 DEF IsInjective
  <2>4. QED
    BY <2>3, <1>1
<1>5. ToSet(t) = ToSet(s) \ {s[i]}
  <2>1. ToSet(t) \subseteq ToSet(s) \ {s[i]}
    BY <1>1, <1>2, <1>3 DEF ToSet, IsInjective
  <2>2. ASSUME NEW k \in 1..Len(s), k # i
        PROVE  s[k] \in ToSet(t)
    <3>1. CASE k < i
      BY <3>1, <1>1, <1>2, <1>3 DEF ToSet
    <3>2. CASE k > i
      <4>1. k - 1 \in 1..(Len(s) - 1) /\ t[k - 1] = s[(k - 1) + 1]
        BY <3>2, <1>1, <1>2
      <4>2. QED
        BY <4>1, <1>1, <1>3 DEF ToSet
    <3>3. QED
      BY <2>2, <3>1, <3>2, <1>1
  <2>3. QED
    BY <2>1, <2>2, <1>1 DEF ToSet
<1>6. QED
  BY <1>2, <1>4, <1>5 DEF t

(* move() keeps the requests of a queue and duplicates none *)
LEMMA MovedSet ==
  ASSUME NEW S, NEW s \in Seq(S), NEW i \in 1..Len(s), NEW j \in 1..Len(s), IsInjective(s)
  PROVE  /\ Moved(s, i, j) \in Seq(S)
         /\ Len(Moved(s, i, j)) = Len(s)
         /\ ToSet(Moved(s, i, j)) = ToSet(s)
         /\ IsInjective(Moved(s, i, j))
<1> DEFINE t == RemoveAt(s, i)
           e == s[i]
           u == InsertAt(t, j, e)
<1>1. Len(s) \in Nat /\ DOMAIN s = 1..Len(s) /\ e \in S /\ e \in ToSet(s)
  BY LenProperties, ElementOfSeq DEF ToSet
<1>2. /\ t \in Seq(S)
      /\ ToSet(t) = ToSet(s) \ {e}
      /\ IsInjective(t)
      /\ Len(t) = Len(s) - 1
      /\ DOMAIN t = 1..Len(t)
  BY RemoveAtSet, RemoveAtElements, LenProperties
<1> HIDE DEF t, e
<1>3. /\ u \in Seq(S)
      /\ Len(u) = Len(s)
      /\ \A k \in 1..Len(s) : u[k] = IF k < j THEN t[k] ELSE IF k = j THEN e ELSE t[k - 1]
  <2>1. j \in 1..(Len(t) + 1) /\ Len(t) + 1 = Len(s)
    BY <1>1, <1>2
  <2>2. t \in Seq(S) /\ e \in S
    BY <1>1, <1>2
  <2>3. /\ u \in Seq(S)
        /\ Len(u) = Len(t) + 1
        /\ \A k \in 1..(Len(t) + 1) :
             u[k] = IF k < j THEN t[k] ELSE IF k = j THEN e ELSE t[k - 1]
    BY <2>1, <2>2, InsertAtElements
  <2>4. QED
    BY <2>1, <2>3
<1> HIDE DEF u
<1>4. DOMAIN u = 1..Len(s)
  BY <1>3, LenProperties
<1>5. \A k \in 1..Len(t) : t[k] \in ToSet(s) /\ t[k] # e
  BY <1>2 DEF ToSet
<1>6. ToSet(u) = ToSet(s)
  <2>1. ToSet(u) \subseteq ToSet(s)
    <3>1. ASSUME NEW k \in 1..Len(s)  PROVE u[k] \in ToSet(s)
      BY <1>1, <1>2, <1>3, <1>5
    <3>2. QED
      BY <3>1, <1>4 DEF ToSet
  <2>2. e \in ToSet(u)
    BY <1>1, <1>3, <1>4 DEF ToSet
  <2>3. ASSUME NEW k \in 1..Len(t)  PROVE t[k] \in ToSet(u)
    <3>1. CASE k < j
      <4>1. k \in 1..Len(s) /\ u[k] = t[k]
        BY <3>1, <1>1, <1>2, <1>3
      <4>2. QED
        BY <4>1, <1>4 DEF ToSet
    <3>2. CASE ~(k < j)
      <4>1. k + 1 \in 1..Len(s) /\ u[k + 1] = t[(k + 1) - 1] /\ (k + 1) - 1 = k
        BY <3>2, <1>1, <1>2, <1>3
      <4>2. QED
        BY <4>1, <1>4 DEF ToSet
    <3>3. QED
      BY <3>1, <3>2
  <2>4. ToSet(t) \subseteq ToSet(u)
    BY <2>3, <1>2 DEF ToSet
  <2>5. QED
    BY <2>1, <2>2, <2>4, <1>2
<1>7. IsInjective(u)
  <2>1. SUFFICES ASSUME NEW k \in 1..Len(s), NEW l \in 1..Len(s), u[k] = u[l], k < l
                 PROVE  FALSE
    BY <1>1, <1>4 DEF IsInjective
  <2>2. CASE l = j
    BY <2>1, <2>2, <1>1, <1>2, <1>3, <1>5
  <2>3. CASE k = j
    <3>1. l - 1 \in 1..Len(t) /\ u[l] = t[l - 1] /\ u[k] = e
      BY <2>1, <2>3, <1>1, <1>2, <1>3
    <3>2. QED
      BY <3>1, <2>1, <1>5
  <2>4. CASE k # j /\ l # j
    <3> DEFINE from(n) == IF n < j THEN n ELSE n - 1
    <3>1. from(k) \in 1..Len(t) /\ u[k] = t[from(k)]
      BY <2>1, <2>4, <1>1, <1>2, <1>3
    <3>2. from(l) \in 1..Len(t) /\ u[l] = t[from(l)]
      BY <2>1, <2>4, <1>1, <1>2, <1>3
    <3>3. from(k) = from(l)
      <4> HIDE DEF from
      <4>1. QED
        BY <3>1, <3>2, <2>1, <1>2 DEF IsInjective
    <3>4. QED
      BY <3>3, <2>1, <2>4, <1>1
  <2>5. QED
    BY <2>2, <2>3, <2>4
<1>8. QED
  BY <1>3, <1>6, <1>7 DEF Moved, t, e, u

(* takeNext() *)
LEMMA TailSet ==
  ASSUME NEW S, NEW s \in Seq(S), s # <<>>, IsInjective(s)
  PROVE  /\ Tail(s) \in Seq(S)
         /\ ToSet(Tail(s)) = ToSet(s) \ {Head(s)}
         /\ Head(s) \in ToSet(s)
         /\ IsInjective(Tail(s))
<1> DEFINE t == Tail(s)
<1>1. /\ Len(s) \in Nat \ {0} /\ DOMAIN s = 1..Len(s)
      /\ t \in Seq(S) /\ Len(t) = Len(s) - 1 /\ DOMAIN t = 1..(Len(s) - 1)
      /\ \A k \in 1..(Len(s) - 1) : t[k] = s[k + 1]
      /\ Head(s) = s[1]
  BY EmptySeq, LenProperties, HeadTailProperties
<1> HIDE DEF t
<1>2. IsInjective(t)
  <2>1. SUFFICES ASSUME NEW k \in 1..(Len(s) - 1), NEW l \in 1..(Len(s) - 1), t[k] = t[l]
                 PROVE  k = l
    BY <1>1 DEF IsInjective
  <2>2. k + 1 \in 1..Len(s) /\ l + 1 \in 1..Len(s) /\ s[k + 1] = s[l + 1]
    BY <2>1, <1>1
  <2>3. k + 1 = l + 1
    BY <2>2, <1>1 DEF IsInjective
  <2>4. QED
    BY <2>3
<1>3. \A x : x \in ToSet(t) <=> \E k \in 1..Len(t) : t[k] = x
  BY <1>1, ToSetElements
<1>4. \A x : x \in ToSet(s) <=> \E k \in 1..Len(s) : s[k] = x
  BY ToSetElements
<1>5. ToSet(t) \subseteq ToSet(s) \ {Head(s)}
  <2>1. ASSUME NEW k \in 1..(Len(s) - 1)
        PROVE  k + 1 \in 1..Len(s) /\ t[k] = s[k + 1] /\ t[k] # s[1]
    BY <1>1 DEF IsInjective
  <2>2. QED
    BY <2>1, <1>1, <1>3, <1>4
<1>6. ASSUME NEW k \in 1..Len(s), k # 1  PROVE s[k] \in ToSet(t)
  <2>1. k - 1 \in 1..Len(t) /\ t[k - 1] = s[(k - 1) + 1] /\ (k - 1) + 1 = k
    BY <1>1, <1>6
  <2>2. QED
    BY <2>1, <1>3
<1>7. ToSet(s) \ {Head(s)} \subseteq ToSet(t) /\ Head(s) \in ToSet(s)
  BY <1>1, <1>4, <1>6
<1>8. QED
  BY <1>1, <1>2, <1>5, <1>7 DEF t

(* enqueue() of requests that are not in the queue yet *)
LEMMA ConcatSet ==
  ASSUME NEW S, NEW s \in Seq(S), NEW t \in Seq(S), IsInjective(s), IsInjective(t),
         ToSet(s) \cap ToSet(t) = {}
  PROVE  /\ s \o t \in Seq(S)
         /\ ToSet(s \o t) = ToSet(s) \cup ToSet(t)
         /\ IsInjective(s \o t)
<1> DEFINE u == s \o t
<1>1. /\ Len(s) \in Nat /\ DOMAIN s = 1..Len(s)
      /\ Len(t) \in Nat /\ DOMAIN t = 1..Len(t)
  BY LenProperties
<1>2. /\ u \in Seq(S)
      /\ Len(u) = Len(s) + Len(t)
      /\ \A i \in 1..(Len(s) + Len(t)) : u[i] = IF i <= Len(s) THEN s[i] ELSE t[i - Len(s)]
  BY ConcatProperties
<1> HIDE DEF u
<1>3. DOMAIN u = 1..(Len(s) + Len(t))
  BY <1>2, LenProperties
<1>4. /\ \A x : x \in ToSet(s) <=> \E k \in 1..Len(s) : s[k] = x
      /\ \A x : x \in ToSet(t) <=> \E k \in 1..Len(t) : t[k] = x
      /\ \A x : x \in ToSet(u) <=> \E k \in 1..Len(u) : u[k] = x
  BY <1>2, ToSetElements
<1>5. ASSUME NEW k \in 1..Len(u)
      PROVE  \/ k \in 1..Len(s) /\ u[k] = s[k] /\ u[k] \in ToSet(s)
             \/ k - Len(s) \in 1..Len(t) /\ u[k] = t[k - Len(s)] /\ u[k] \in ToSet(t)
  <2>1. CASE k <= Len(s)
    BY <2>1, <1>1, <1>2, <1>4
  <2>2. CASE k > Len(s)
    <3>1. k - Len(s) \in 1..Len(t) /\ u[k] = t[k - Len(s)]
      BY <2>2, <1>1, <1>2
    <3>2. QED
      BY <3>1, <1>4
  <2>3. QED
    BY <2>1, <2>2, <1>1, <1>2
<1>6. ToSet(s) \subseteq ToSet(u)
  <2>1. ASSUME NEW k \in 1..Len(s)  PROVE k \in 1..Len(u) /\ u[k] = s[k]
    BY <1>1, <1>2
  <2>2. QED
    BY <2>1, <1>4
<1>7. ToSet(t) \subseteq ToSet(u)
  <2>1. ASSUME NEW k \in 1..Len(t)  PROVE t[k] \in ToSet(u)
    <3>1. k + Len(s) \in 1..Len(u) /\ u[k + Len(s)] = t[(k + Len(s)) - Len(s)]
          /\ (k + Len(s)) - Len(s) = k
      BY <1>1, <1>2
    <3>2. QED
      BY <3>1, <1>4
  <2>2. QED
    BY <2>1, <1>4
<1>8. ToSet(u) \subseteq ToSet(s) \cup ToSet(t)
  BY <1>4, <1>5
<1>9. IsInjective(u)
  <2>1. SUFFICES ASSUME NEW k \in 1..Len(u), NEW l \in 1..Len(u), u[k] = u[l]
                 PROVE  k = l
    BY <1>2, <1>3 DEF IsInjective
  <2>2. CASE k \in 1..Len(s) /\ u[k] = s[k] /\ l \in 1..Len(s) /\ u[l] = s[l]
    BY <2>1, <2>2, <1>1 DEF IsInjective
  <2>3. CASE /\ k - Len(s) \in 1..Len(t) /\ u[k] = t[k - Len(s)]
             /\ l - Len(s) \in 1..Len(t) /\ u[l] = t[l - Len(s)]
    <3>1. k - Len(s) = l - Len(s)
      BY <2>1, <2>3, <1>1 DEF IsInjective
    <3>2. QED
      BY <3>1, <1>1
  <2>4. QED
    BY <2>1, <2>2, <2>3, <1>5
<1>10. QED
  BY <1>2, <1>6, <1>7, <1>8, <1>9 DEF u

(* Taking the first k requests, one after the other *)
LEMMA RestSet ==
  ASSUME NEW S, NEW s \in Seq(S), NEW k \in 0..Len(s), IsInjective(s)
  PROVE  /\ SubSeq(s, k + 1, Len(s)) \in Seq(S)
         /\ ToSet(SubSeq(s, k + 1, Len(s))) = ToSet(s) \ {s[i] : i \in 1..k}
         /\ IsInjective(SubSeq(s, k + 1, Len(s)))
<1> DEFINE t == SubSeq(s, k + 1, Len(s))
           first == {s[i] : i \in 1..k}
<1>1. Len(s) \in Nat /\ DOMAIN s = 1..Len(s) /\ k \in Nat
  BY LenProperties
<1>2. /\ t \in Seq(S)
      /\ Len(t) = Len(s) - k
      /\ \A i \in 1..(Len(s) - k) : t[i] = s[k + i]
  BY <1>1, SubSeqProperties, ElementOfSeq
<1> HIDE DEF t
<1>3. DOMAIN t = 1..(Len(s) - k)
  BY <1>2, LenProperties
<1>4. /\ \A x : x \in ToSet(s) <=> \E i \in 1..Len(s) : s[i] = x
      /\ \A x : x \in ToSet(t) <=> \E i \in 1..(Len(s) - k) : t[i] = x
  BY <1>1, <1>3 DEF ToSet
<1>5. \A x : x \in first <=> \E i \in 1..k : s[i] = x
  OBVIOUS
<1> HIDE DEF first
<1>6. ASSUME NEW i \in 1..(Len(s) - k)
      PROVE  k + i \in 1..Len(s) /\ k + i > k /\ t[i] = s[k + i]
  BY <1>1, <1>2
<1>7. IsInjective(t)
  <2>1. SUFFICES ASSUME NEW i \in 1..(Len(s) - k), NEW j \in 1..(Len(s) - k), t[i] = t[j]
                 PROVE  i = j
    BY <1>3 DEF IsInjective
  <2>2. k + i = k + j
    BY <1>1, <1>6, <2>1 DEF IsInjective
  <2>3. QED
    BY <1>1, <2>2
<1>8. ASSUME NEW i \in 1..(Len(s) - k)
      PROVE  t[i] \in ToSet(s) /\ t[i] \notin first
  <2>1. \A j \in 1..k : j \in 1..Len(s) /\ j # k + i
    BY <1>1, <1>6
  <2>2. \A j \in 1..k : s[j] # s[k + i]
    BY <1>1, <1>6, <2>1 DEF IsInjective
  <2>3. QED
    BY <1>4, <1>5, <1>6, <2>2
<1>9. ASSUME NEW i \in 1..Len(s), s[i] \notin first
      PROVE  s[i] \in ToSet(t)
  <2>1. i - k \in 1..(Len(s) - k) /\ k + (i - k) = i
    BY <1>1, <1>5, <1>9
  <2>2. t[i - k] = s[i]
    BY <1>6, <2>1
  <2>3. QED
    BY <1>4, <2>1, <2>2
<1>10. ToSet(t) = ToSet(s) \ first
  BY <1>4, <1>8, <1>9
<1>11. QED
  BY <1>2, <1>7, <1>10 DEF t, first
=============================================================================
