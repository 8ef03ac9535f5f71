--------------------------- MODULE ReceptionProofs ---------------------------
(***************************************************************************)
(* What CarBusReceive and CanIdRouter guarantee for any set of channels,   *)
(* identifiers and rules, and any length of the queues.                    *)
(***************************************************************************)
EXTENDS CanIdRouter, SequenceTheorems, FiniteSetTheorems, TLAPS

-----------------------------------------------------------------------------
(* Members of sequences *)

LEMMA ConcatMembers ==
  ASSUME NEW T, NEW s \in Seq(T), NEW t \in Seq(T)
  PROVE  ToSet(s \o t) = ToSet(s) \cup ToSet(t)
<1>. DEFINE u == s \o t
<1>1. /\ u \in Seq(T) /\ Len(u) = Len(s) + Len(t)
      /\ \A i \in 1 .. Len(s) + Len(t) : u[i] = IF i <= Len(s) THEN s[i] ELSE t[i - Len(s)]
  BY ConcatProperties
<1>2. /\ Len(s) \in Nat /\ Len(t) \in Nat
      /\ DOMAIN s = 1 .. Len(s) /\ DOMAIN t = 1 .. Len(t) /\ DOMAIN u = 1 .. Len(s) + Len(t)
  BY <1>1, LenProperties
<1>. HIDE DEF u
<1>3. ASSUME NEW i \in DOMAIN u PROVE u[i] \in ToSet(s) \cup ToSet(t)
  <2>1. CASE i <= Len(s)
    <3>1. i \in DOMAIN s /\ u[i] = s[i]  BY <1>1, <1>2, <2>1
    <3>. QED  BY <3>1 DEF ToSet
  <2>2. CASE ~(i <= Len(s))
    <3>1. i - Len(s) \in DOMAIN t /\ u[i] = t[i - Len(s)]  BY <1>1, <1>2, <2>2
    <3>. QED  BY <3>1 DEF ToSet
  <2>. QED  BY <2>1, <2>2
<1>4. ASSUME NEW i \in DOMAIN s PROVE s[i] \in ToSet(u)
  <2>1. i \in DOMAIN u /\ u[i] = s[i]  BY <1>1, <1>2
  <2>. QED  BY <2>1 DEF ToSet
<1>5. ASSUME NEW i \in DOMAIN t PROVE t[i] \in ToSet(u)
  <2>1. Len(s) + i \in DOMAIN u /\ ~(Len(s) + i <= Len(s)) /\ Len(s) + i - Len(s) = i
    BY <1>2
  <2>2. u[Len(s) + i] = t[i]  BY <1>1, <1>2, <2>1
  <2>. QED  BY <2>1, <2>2 DEF ToSet
<1>6. ToSet(u) = ToSet(s) \cup ToSet(t)
  <2>1. ToSet(u) \subseteq ToSet(s) \cup ToSet(t)  BY <1>3 DEF ToSet
  <2>2. ToSet(s) \subseteq ToSet(u)  BY <1>4 DEF ToSet
  <2>3. ToSet(t) \subseteq ToSet(u)  BY <1>5 DEF ToSet
  <2>. QED  BY <2>1, <2>2, <2>3
<1>. QED  BY <1>6 DEF u

LEMMA AppendMembers ==
  ASSUME NEW T, NEW s \in Seq(T), NEW x \in T
  PROVE  ToSet(Append(s, x)) = ToSet(s) \cup {x}
<1>1. <<x>> \in Seq(T) /\ Append(s, x) = s \o <<x>>  BY AppendIsConcat
<1>2. DOMAIN <<x>> = {1} /\ <<x>>[1] = x  OBVIOUS
<1>3. ToSet(<<x>>) = {x}  BY <1>2 DEF ToSet
<1>. DEFINE one == <<x>>
<1>. HIDE DEF one
<1>4. one \in Seq(T)  BY <1>1 DEF one
<1>5. ToSet(s \o one) = ToSet(s) \cup ToSet(one)  BY <1>4, ConcatMembers
<1>. QED  BY <1>1, <1>3, <1>5 DEF one

LEMMA HeadMembers ==
  ASSUME NEW T, NEW s \in Seq(T), s # <<>>
  PROVE  ToSet(s) = {Head(s)} \cup ToSet(Tail(s))
<1>1. /\ Head(s) \in T /\ Head(s) = s[1] /\ Tail(s) \in Seq(T) /\ Len(Tail(s)) = Len(s) - 1
      /\ \A i \in 1 .. Len(Tail(s)) : Tail(s)[i] = s[i + 1]
  BY HeadTailProperties
<1>2. /\ Len(s) \in Nat \ {0}
      /\ DOMAIN s = 1 .. Len(s) /\ DOMAIN Tail(s) = 1 .. Len(s) - 1
  BY <1>1, EmptySeq, LenProperties
<1>. DEFINE t == Tail(s)
<1>3. DOMAIN t = 1 .. Len(s) - 1 /\ \A i \in DOMAIN t : t[i] = s[i + 1]  BY <1>1, <1>2
<1>. HIDE DEF t
<1>4. ASSUME NEW i \in DOMAIN s PROVE s[i] \in {s[1]} \cup ToSet(t)
  <2>1. CASE i # 1
    <3>1. i - 1 \in DOMAIN t /\ i - 1 + 1 = i  BY <1>2, <1>3, <2>1
    <3>2. t[i - 1] = s[i]  BY <1>3, <3>1
    <3>. QED  BY <3>1, <3>2 DEF ToSet
  <2>. QED  BY <2>1
<1>5. ASSUME NEW i \in DOMAIN t PROVE t[i] \in ToSet(s)
  <2>1. i + 1 \in DOMAIN s  BY <1>2, <1>3
  <2>. QED  BY <1>3, <2>1 DEF ToSet
<1>6. s[1] \in ToSet(s)  BY <1>2 DEF ToSet
<1>7. ToSet(s) = {s[1]} \cup ToSet(t)
  <2>1. ToSet(s) \subseteq {s[1]} \cup ToSet(t)  BY <1>4 DEF ToSet
  <2>2. ToSet(t) \subseteq ToSet(s)  BY <1>5 DEF ToSet
  <2>. QED  BY <1>6, <2>1, <2>2
<1>. QED  BY <1>1, <1>7 DEF t

LEMMA NoMembers == ToSet(<<>>) = {}
BY DEF ToSet

LEMMA MembersTyped ==
  ASSUME NEW T, NEW s \in Seq(T)
  PROVE  ToSet(s) \subseteq T
BY LenProperties DEF ToSet

\* No element of an injective sequence is again in what follows it.
LEMMA HeadIsAlone ==
  ASSUME NEW T, NEW s \in Seq(T), s # <<>>, IsInjective(s)
  PROVE  IsInjective(Tail(s)) /\ Head(s) \notin ToSet(Tail(s))
<1>1. /\ Head(s) = s[1] /\ Len(s) \in Nat \ {0} /\ DOMAIN s = 1 .. Len(s)
      /\ Tail(s) \in Seq(T) /\ Len(Tail(s)) = Len(s) - 1
      /\ \A i \in 1 .. Len(Tail(s)) : Tail(s)[i] = s[i + 1]
  BY HeadTailProperties, EmptySeq, LenProperties
<1>. DEFINE t == Tail(s)
<1>2. DOMAIN t = 1 .. Len(s) - 1 /\ \A i \in DOMAIN t : t[i] = s[i + 1]
  BY <1>1, LenProperties
<1>. HIDE DEF t
<1>3. \A i \in DOMAIN t : i + 1 \in DOMAIN s /\ i + 1 # 1 /\ i \in Int  BY <1>1, <1>2
<1>4. IsInjective(t)
  <2>. SUFFICES ASSUME NEW i \in DOMAIN t, NEW j \in DOMAIN t, t[i] = t[j] PROVE i = j
    BY DEF IsInjective
  <2>1. i + 1 = j + 1  BY <1>2, <1>3 DEF IsInjective
  <2>. QED  BY <1>3, <2>1
<1>5. ASSUME NEW i \in DOMAIN t, t[i] = s[1] PROVE FALSE
  <2>1. s[i + 1] = s[1] /\ 1 \in DOMAIN s  BY <1>1, <1>2, <1>5
  <2>. QED  BY <1>3, <2>1 DEF IsInjective
<1>6. s[1] \notin ToSet(t)  BY <1>5 DEF ToSet
<1>. QED  BY <1>1, <1>4, <1>6 DEF t

LEMMA ConcatInjective ==
  ASSUME NEW T, NEW s \in Seq(T), NEW t \in Seq(T), IsInjective(s), IsInjective(t),
         ToSet(s) \cap ToSet(t) = {}
  PROVE  IsInjective(s \o t)
<1>. DEFINE u == s \o t
<1>1. /\ u \in Seq(T) /\ Len(u) = Len(s) + Len(t)
      /\ \A i \in 1 .. Len(s) + Len(t) : u[i] = IF i <= Len(s) THEN s[i] ELSE t[i - Len(s)]
  BY ConcatProperties
<1>2. /\ Len(s) \in Nat /\ Len(t) \in Nat
      /\ DOMAIN s = 1 .. Len(s) /\ DOMAIN t = 1 .. Len(t) /\ DOMAIN u = 1 .. Len(s) + Len(t)
  BY <1>1, LenProperties
<1>. HIDE DEF u
<1>3. ASSUME NEW i \in DOMAIN u, i <= Len(s) PROVE i \in DOMAIN s /\ u[i] = s[i]
  BY <1>1, <1>2, <1>3
<1>4. ASSUME NEW i \in DOMAIN u, ~(i <= Len(s))
      PROVE  i - Len(s) \in DOMAIN t /\ u[i] = t[i - Len(s)]
  BY <1>1, <1>2, <1>4
<1>5. \A i \in DOMAIN s, j \in DOMAIN t : s[i] # t[j]  BY DEF ToSet
<1>6. ASSUME NEW i \in DOMAIN u, NEW j \in DOMAIN u, u[i] = u[j] PROVE i = j
  <2>1. CASE i <= Len(s) /\ j <= Len(s)  BY <1>3, <1>6, <2>1 DEF IsInjective
  <2>2. CASE ~(i <= Len(s)) /\ ~(j <= Len(s))
    <3>1. i - Len(s) = j - Len(s)  BY <1>4, <1>6, <2>2 DEF IsInjective
    <3>. QED  BY <1>2, <3>1
  <2>3. CASE i <= Len(s) /\ ~(j <= Len(s))  BY <1>3, <1>4, <1>5, <1>6, <2>3
  <2>4. CASE ~(i <= Len(s)) /\ j <= Len(s)  BY <1>3, <1>4, <1>5, <1>6, <2>4
  <2>. QED  BY <2>1, <2>2, <2>3, <2>4
<1>7. IsInjective(u)  BY <1>6 DEF IsInjective
<1>. QED  BY <1>7 DEF u

-----------------------------------------------------------------------------
(* Sequences of frame numbers *)

\* A newer frame at the end of a queue.
LEMMA AppendNewest ==
  ASSUME NEW s \in Seq(Nat), NEW S, Lists(s, S), NEW n \in Nat, \A m \in S : m < n
  PROVE  Append(s, n) \in Seq(Nat) /\ Lists(Append(s, n), S \cup {n})
<1>. DEFINE t == Append(s, n)
<1>1. /\ t \in Seq(Nat) /\ Len(t) = Len(s) + 1 /\ Len(s) \in Nat
      /\ DOMAIN s = 1 .. Len(s) /\ DOMAIN t = 1 .. Len(t)
      /\ \A i \in 1 .. Len(s) : t[i] = s[i]
      /\ t[Len(s) + 1] = n
  BY AppendProperties, LenProperties
<1>. HIDE DEF t
<1>2. \A i \in 1 .. Len(s) : s[i] \in S /\ s[i] \in Nat
  BY <1>1, LenProperties DEF Lists, ToSet
<1>3. Ascending(t)
  <2>. SUFFICES ASSUME NEW i \in DOMAIN t, NEW j \in DOMAIN t, i < j PROVE t[i] < t[j]
    BY DEF Ascending
  <2>1. i \in 1 .. Len(s)  BY <1>1
  <2>2. CASE j = Len(s) + 1  BY <1>1, <1>2, <2>1, <2>2
  <2>3. CASE j # Len(s) + 1
    <3>1. j \in 1 .. Len(s)  BY <1>1, <2>3
    <3>. QED  BY <1>1, <2>1, <3>1 DEF Lists, Ascending
  <2>. QED  BY <2>2, <2>3
<1>4. ToSet(t) = S \cup {n}
  <2>1. ToSet(t) \subseteq S \cup {n}
    <3>. SUFFICES ASSUME NEW i \in 1 .. Len(s) + 1 PROVE t[i] \in S \cup {n}
      BY <1>1 DEF ToSet
    <3>1. i = Len(s) + 1 \/ i \in 1 .. Len(s)  BY <1>1
    <3>. QED  BY <1>1, <1>2, <3>1
  <2>2. n \in ToSet(t)
    <3>1. Len(s) + 1 \in DOMAIN t  BY <1>1
    <3>. QED  BY <1>1, <3>1 DEF ToSet
  <2>3. ASSUME NEW m \in S PROVE m \in ToSet(t)
    <3>1. PICK i \in 1 .. Len(s) : s[i] = m  BY <1>1, <2>3 DEF Lists, ToSet
    <3>2. i \in DOMAIN t /\ t[i] = m  BY <1>1, <3>1
    <3>. QED  BY <3>2 DEF ToSet
  <2>. QED  BY <2>1, <2>2, <2>3
<1>. QED  BY <1>1, <1>3, <1>4 DEF Lists, t

\* A frame that moves from the head of a queue to the end of what was taken.
LEMMA TakeHead ==
  ASSUME NEW h \in Seq(Nat), NEW q \in Seq(Nat), q # <<>>
  PROVE  Append(h, Head(q)) \o Tail(q) = h \o q
<1>. DEFINE l == Append(h, Head(q)) \o Tail(q)
            r == h \o q
<1>1. /\ Head(q) \in Nat /\ Head(q) = q[1] /\ Tail(q) \in Seq(Nat) /\ Len(Tail(q)) = Len(q) - 1
      /\ \A i \in 1 .. Len(Tail(q)) : Tail(q)[i] = q[i + 1]
      /\ Len(q) \in Nat \ {0} /\ Len(h) \in Nat
  BY HeadTailProperties, EmptySeq, LenProperties
<1>2. /\ Append(h, Head(q)) \in Seq(Nat) /\ Len(Append(h, Head(q))) = Len(h) + 1
      /\ \A i \in 1 .. Len(h) : Append(h, Head(q))[i] = h[i]
      /\ Append(h, Head(q))[Len(h) + 1] = Head(q)
  BY <1>1, AppendProperties
<1>3. /\ r \in Seq(Nat) /\ Len(r) = Len(h) + Len(q)
      /\ \A i \in 1 .. Len(h) + Len(q) : r[i] = IF i <= Len(h) THEN h[i] ELSE q[i - Len(h)]
  BY ConcatProperties
<1>4. /\ l \in Seq(Nat) /\ Len(l) = Len(h) + Len(q)
      /\ \A i \in 1 .. Len(h) + Len(q) :
           l[i] = IF i <= Len(h) + 1 THEN Append(h, Head(q))[i] ELSE Tail(q)[i - (Len(h) + 1)]
  BY <1>1, <1>2, ConcatProperties
<1>. HIDE DEF l, r
<1>5. ASSUME NEW i \in 1 .. Len(l) PROVE l[i] = r[i]
  <2>0. i \in 1 .. Len(h) + Len(q)  BY <1>4
  <2>1. CASE i <= Len(h)
    <3>1. i \in 1 .. Len(h) /\ i <= Len(h) + 1  BY <1>1, <2>0, <2>1
    <3>2. l[i] = Append(h, Head(q))[i]  BY <1>4, <2>0, <3>1
    <3>3. r[i] = h[i]  BY <1>3, <2>0, <2>1
    <3>. QED  BY <1>2, <3>1, <3>2, <3>3
  <2>2. CASE i = Len(h) + 1
    <3>1. ~(i <= Len(h)) /\ i <= Len(h) + 1 /\ i - Len(h) = 1  BY <1>1, <2>2
    <3>2. l[i] = Append(h, Head(q))[i]  BY <1>4, <2>0, <3>1
    <3>3. r[i] = q[1]  BY <1>3, <2>0, <3>1
    <3>. QED  BY <1>1, <1>2, <2>2, <3>2, <3>3
  <2>3. CASE i > Len(h) + 1
    <3>1. i - (Len(h) + 1) \in 1 .. Len(Tail(q))  BY <1>1, <2>0, <2>3
    <3>2. l[i] = q[i - (Len(h) + 1) + 1]  BY <1>1, <1>4, <2>0, <2>3, <3>1
    <3>3. r[i] = q[i - Len(h)]  BY <1>1, <1>3, <2>0, <2>3
    <3>4. i - (Len(h) + 1) + 1 = i - Len(h)  BY <1>1
    <3>. QED  BY <3>2, <3>3, <3>4
  <2>. QED  BY <1>1, <2>0, <2>1, <2>2, <2>3
<1>6. l = r  BY <1>3, <1>4, <1>5, SeqEqual
<1>. QED  BY <1>6 DEF l, r

LEMMA ConcatAppend ==
  ASSUME NEW h \in Seq(Nat), NEW q \in Seq(Nat), NEW n \in Nat
  PROVE  h \o Append(q, n) = Append(h \o q, n)
<1>1. <<n>> \in Seq(Nat) /\ h \o q \in Seq(Nat)  BY ConcatProperties
<1>2. Append(q, n) = q \o <<n>> /\ Append(h \o q, n) = (h \o q) \o <<n>>
  BY <1>1, AppendIsConcat
<1>3. (h \o q) \o <<n>> = h \o (q \o <<n>>)  BY <1>1, ConcatAssociative
<1>. QED  BY <1>2, <1>3

\* A queue that ascends, seen from its two parts.
LEMMA AscendingConcat ==
  ASSUME NEW s \in Seq(Nat), NEW t \in Seq(Nat)
  PROVE  Ascending(s \o t) <=> /\ Ascending(s) /\ Ascending(t)
                               /\ \A m \in ToSet(s), n \in ToSet(t) : m < n
<1>. DEFINE u == s \o t
<1>1. /\ u \in Seq(Nat) /\ Len(u) = Len(s) + Len(t)
      /\ \A i \in 1 .. Len(s) + Len(t) : u[i] = IF i <= Len(s) THEN s[i] ELSE t[i - Len(s)]
  BY ConcatProperties
<1>2. /\ Len(s) \in Nat /\ Len(t) \in Nat
      /\ DOMAIN s = 1 .. Len(s) /\ DOMAIN t = 1 .. Len(t) /\ DOMAIN u = 1 .. Len(s) + Len(t)
  BY <1>1, LenProperties
<1>. HIDE DEF u
<1>3. ASSUME NEW i \in DOMAIN u, i <= Len(s) PROVE i \in DOMAIN s /\ u[i] = s[i]
  BY <1>1, <1>2, <1>3
<1>4. ASSUME NEW i \in DOMAIN u, ~(i <= Len(s))
      PROVE  i - Len(s) \in DOMAIN t /\ u[i] = t[i - Len(s)]
  BY <1>1, <1>2, <1>4
<1>5. ASSUME NEW i \in DOMAIN s PROVE i \in DOMAIN u /\ u[i] = s[i] /\ i <= Len(s)
  BY <1>1, <1>2
<1>6. ASSUME NEW i \in DOMAIN t
      PROVE  Len(s) + i \in DOMAIN u /\ u[Len(s) + i] = t[i] /\ Len(s) + i > Len(s)
  <2>1. Len(s) + i \in 1 .. Len(s) + Len(t) /\ ~(Len(s) + i <= Len(s)) /\ Len(s) + i - Len(s) = i
        /\ Len(s) + i > Len(s)
    BY <1>2
  <2>2. u[Len(s) + i] = t[i]  BY <1>1, <2>1
  <2>. QED  BY <1>2, <2>1, <2>2
<1>7. ASSUME Ascending(u)
      PROVE  Ascending(s) /\ Ascending(t) /\ \A m \in ToSet(s), n \in ToSet(t) : m < n
  <2>1. Ascending(s)  BY <1>5, <1>7 DEF Ascending
  <2>2. ASSUME NEW i \in DOMAIN t, NEW j \in DOMAIN t, i < j PROVE t[i] < t[j]
    <3>1. Len(s) + i < Len(s) + j  BY <1>2, <2>2
    <3>. QED  BY <1>6, <1>7, <3>1 DEF Ascending
  <2>3. ASSUME NEW i \in DOMAIN s, NEW j \in DOMAIN t PROVE s[i] < t[j]
    <3>1. i < Len(s) + j  BY <1>2
    <3>. QED  BY <1>5, <1>6, <1>7, <3>1 DEF Ascending
  <2>. QED  BY <2>1, <2>2, <2>3 DEF Ascending, ToSet
<1>8. ASSUME Ascending(s), Ascending(t), \A m \in ToSet(s), n \in ToSet(t) : m < n
      PROVE  Ascending(u)
  <2>. SUFFICES ASSUME NEW i \in DOMAIN u, NEW j \in DOMAIN u, i < j PROVE u[i] < u[j]
    BY DEF Ascending
  <2>1. CASE j <= Len(s)
    <3>1. i <= Len(s)  BY <1>2, <2>1
    <3>. QED  BY <1>3, <1>8, <2>1, <3>1 DEF Ascending
  <2>2. CASE i <= Len(s) /\ ~(j <= Len(s))
    <3>1. u[i] \in ToSet(s) /\ u[j] \in ToSet(t)  BY <1>3, <1>4, <2>2 DEF ToSet
    <3>. QED  BY <1>8, <3>1
  <2>3. CASE ~(i <= Len(s)) /\ ~(j <= Len(s))
    <3>1. i - Len(s) < j - Len(s)  BY <1>2
    <3>. QED  BY <1>4, <1>8, <2>3, <3>1 DEF Ascending
  <2>. QED  BY <2>1, <2>2, <2>3
<1>. QED  BY <1>7, <1>8 DEF u

LEMMA AscendingTail ==
  ASSUME NEW s \in Seq(Nat), s # <<>>, Ascending(s)
  PROVE  Ascending(Tail(s)) /\ \A n \in ToSet(Tail(s)) : Head(s) < n
<1>1. /\ Head(s) = s[1] /\ Len(s) \in Nat \ {0} /\ DOMAIN s = 1 .. Len(s)
      /\ Tail(s) \in Seq(Nat) /\ Len(Tail(s)) = Len(s) - 1
      /\ \A i \in 1 .. Len(Tail(s)) : Tail(s)[i] = s[i + 1]
  BY HeadTailProperties, EmptySeq, LenProperties
<1>. DEFINE t == Tail(s)
<1>2. DOMAIN t = 1 .. Len(s) - 1 /\ \A i \in DOMAIN t : t[i] = s[i + 1]
  BY <1>1, LenProperties
<1>. HIDE DEF t
<1>3. ASSUME NEW i \in DOMAIN t PROVE i + 1 \in DOMAIN s /\ 1 \in DOMAIN s /\ 1 < i + 1
  BY <1>1, <1>2
<1>4. ASSUME NEW i \in DOMAIN t, NEW j \in DOMAIN t, i < j PROVE t[i] < t[j]
  <2>1. i + 1 < j + 1  BY <1>1, <1>2, <1>4
  <2>. QED  BY <1>2, <1>3, <2>1 DEF Ascending
<1>5. ASSUME NEW i \in DOMAIN t PROVE s[1] < t[i]
  BY <1>2, <1>3 DEF Ascending
<1>. QED  BY <1>1, <1>4, <1>5 DEF t, Ascending, ToSet

LEMMA AscendingAppend ==
  ASSUME NEW s \in Seq(Nat), Ascending(s), NEW n \in Nat, \A m \in ToSet(s) : m < n
  PROVE  Ascending(Append(s, n))
BY AppendNewest DEF Lists

LEMMA AscendingCount ==
  ASSUME NEW s \in Seq(Nat), Ascending(s)
  PROVE  IsFiniteSet(ToSet(s)) /\ Cardinality(ToSet(s)) = Len(s)
<1>1. Len(s) \in Nat /\ DOMAIN s = 1 .. Len(s) /\ s \in [1 .. Len(s) -> Nat]
  BY LenProperties
<1>2. s \in [1 .. Len(s) -> ToSet(s)]  BY <1>1 DEF ToSet
<1>3. \A x \in ToSet(s) : \E i \in 1 .. Len(s) : s[i] = x  BY <1>1 DEF ToSet
<1>4. ASSUME NEW i \in 1 .. Len(s), NEW j \in 1 .. Len(s), s[i] = s[j] PROVE i = j
  <2>1. s[i] \in Nat /\ s[j] \in Nat  BY <1>1
  <2>2. ~(i < j) /\ ~(j < i)  BY <1>1, <1>4, <2>1 DEF Ascending
  <2>. QED  BY <2>2
<1>5. IsInjective(s)  BY <1>1, <1>4 DEF IsInjective
<1>6. s \in Bijection(1 .. Len(s), ToSet(s))
  BY <1>2, <1>3, <1>5 DEF Bijection, Injection, Surjection
<1>7. ExistsBijection(1 .. Len(s), ToSet(s))  BY <1>6 DEF ExistsBijection
<1>8. Cardinality(ToSet(s)) = Len(s)  BY <1>1, <1>7, FS_CountingElements
<1>9. IsFiniteSet(ToSet(s))  BY <1>1, <1>7, FS_NatBijection
<1>. QED  BY <1>8, <1>9

-----------------------------------------------------------------------------
(* Channels *)

LEMMA DecodeRange ==
  ASSUME NEW bits
  PROVE  DecodeChannel(bits) \in 0 .. 4
<1>. DEFINE common == {ch \in 1 .. 4 : bits \cap ChannelBits[ch] # {}}
<1>1. CASE common = {}  BY <1>1 DEF DecodeChannel
<1>2. CASE common # {}
  <2>1. common \subseteq {1, 2, 3, 4}  OBVIOUS
  <2>. HIDE DEF common
  <2>2. \E ch \in common : \A d \in common : ch <= d
    <3>1. CASE 1 \in common  BY <2>1, <3>1
    <3>2. CASE 1 \notin common /\ 2 \in common  BY <2>1, <3>2
    <3>3. CASE 1 \notin common /\ 2 \notin common /\ 3 \in common  BY <2>1, <3>3
    <3>4. CASE common = {4}  BY <3>4
    <3>. QED  BY <1>2, <2>1, <3>1, <3>2, <3>3, <3>4
  <2>3. (CHOOSE ch \in common : \A d \in common : ch <= d) \in common  BY <2>2
  <2>4. common \subseteq 0 .. 4  BY <2>1
  <2>. QED  BY <1>2, <2>3, <2>4 DEF DecodeChannel, common
<1>. QED  BY <1>1, <1>2

\* Channels 1, 2 and 4 have a bit of their own; 3 has those of 1 and 2.
LEMMA DecodeOwn ==
  ASSUME NEW c \in {1, 2, 4}
  PROVE  DecodeChannel(ChannelBits[c]) = c
<1>. DEFINE common == {ch \in 1 .. 4 : ChannelBits[c] \cap ChannelBits[ch] # {}}
<1>1. /\ ChannelBits[1] = {13} /\ ChannelBits[2] = {14}
      /\ ChannelBits[3] = {13, 14} /\ ChannelBits[4] = {15}
  BY DEF ChannelBits
<1>2. c \in common /\ \A d \in common : c <= d
  BY <1>1
<1>. HIDE DEF common
<1>3. \A e \in common : (\A d \in common : e <= d) => e = c
  BY <1>2 DEF common
<1>4. (CHOOSE ch \in common : \A d \in common : ch <= d) = c
  BY <1>2, <1>3
<1>. QED  BY <1>2, <1>4 DEF DecodeChannel, common

-----------------------------------------------------------------------------
(* Hooks *)

\* One task for every rule that matches, whatever the order.
LEMMA FiredOnce ==
  ASSUME NEW n \in Nat
  PROVE  /\ FiredHooks(n) \in Seq(Hook)
         /\ IsInjective(FiredHooks(n))
         /\ ToSet(FiredHooks(n)) = {h \in [rule : Rules, n : {n}] : Matches(h.rule, sent[n])}
<1>. DEFINE hit == {r \in Rules : Matches(r, sent[n])}
            k == Cardinality(hit)
            s == SetToSeq(hit)
            t == [i \in 1 .. k |-> [rule |-> s[i], n |-> n]]
<1>1. t = FiredHooks(n)  BY DEF FiredHooks
<1>2. IsFiniteSet(hit)  BY ReceiveAssumption, FS_Subset
<1>3. hit \subseteq Rules /\ \A r \in Rules : r \in hit <=> Matches(r, sent[n])
  OBVIOUS
<1>. HIDE DEF hit
<1>4. k \in Nat /\ ExistsBijection(1 .. k, hit)  BY <1>2, FS_CardinalityType
<1>5. s \in Injection(1 .. k, hit)
  <2>1. PICK f \in Bijection(1 .. k, hit) : TRUE  BY <1>4 DEF ExistsBijection
  <2>2. f \in [1 .. k -> hit] /\ IsInjective(f)  BY <2>1 DEF Bijection, Injection
  <2>3. \E g \in [1 .. k -> hit] : IsInjective(g)  BY <2>2
  <2>. QED  BY <2>3 DEF SetToSeq, Injection
<1>. HIDE DEF s
<1>6. s \in [1 .. k -> hit] /\ IsInjective(s)  BY <1>5 DEF Injection
<1>7. \A r \in hit : \E i \in 1 .. k : s[i] = r
  <2>1. IsFiniteSet(1 .. k) /\ Cardinality(1 .. k) = k
    <3>1. 0 \in Int /\ 1 \in Int /\ k \in Int  BY <1>4
    <3>2. IsFiniteSet(1 .. k) /\ Cardinality(1 .. k) = IF 1 > k THEN 0 ELSE k - 1 + 1
      BY <3>1, FS_Interval
    <3>. QED  BY <1>4, <3>2
  <2>2. s \in Surjection(1 .. k, hit)  BY <1>2, <1>5, <2>1, FS_Injection
  <2>. QED  BY <2>2 DEF Surjection
<1>. HIDE DEF k
<1>8. DOMAIN t = 1 .. k /\ \A i \in 1 .. k : t[i] = [rule |-> s[i], n |-> n]
  OBVIOUS
<1>9. t \in Seq(Hook)
  <2>1. \A i \in 1 .. k : [rule |-> s[i], n |-> n] \in Hook  BY <1>3, <1>6 DEF Hook
  <2>2. t \in [1 .. k -> Hook]  BY <2>1
  <2>. QED  BY <1>4, <2>2, SeqDef
<1>. HIDE DEF t
<1>10. IsInjective(t)
  <2>. SUFFICES ASSUME NEW i \in 1 .. k, NEW j \in 1 .. k, t[i] = t[j] PROVE i = j
    BY <1>8 DEF IsInjective
  <2>1. t[i].rule = s[i] /\ t[j].rule = s[j]  BY <1>8
  <2>. QED  BY <1>6, <2>1 DEF IsInjective
<1>11. ToSet(t) = {h \in [rule : Rules, n : {n}] : Matches(h.rule, sent[n])}
  <2>1. ASSUME NEW i \in 1 .. k
        PROVE  t[i] \in [rule : Rules, n : {n}] /\ Matches(t[i].rule, sent[n])
    <3>1. s[i] \in hit /\ t[i] = [rule |-> s[i], n |-> n]  BY <1>6, <1>8
    <3>2. t[i].rule = s[i]  BY <3>1
    <3>. QED  BY <1>3, <3>1, <3>2
  <2>2. ASSUME NEW h \in [rule : Rules, n : {n}], Matches(h.rule, sent[n]) PROVE h \in ToSet(t)
    <3>1. h.rule \in hit /\ h = [rule |-> h.rule, n |-> n]  BY <1>3, <2>2
    <3>2. PICK i \in 1 .. k : s[i] = h.rule  BY <1>7, <3>1
    <3>3. t[i] = h  BY <1>8, <3>1, <3>2
    <3>. QED  BY <1>8, <3>3 DEF ToSet
  <2>3. ToSet(t) \subseteq {h \in [rule : Rules, n : {n}] : Matches(h.rule, sent[n])}
    BY <1>8, <2>1 DEF ToSet
  <2>. QED  BY <2>2, <2>3
<1>. QED  BY <1>1, <1>9, <1>10, <1>11

-----------------------------------------------------------------------------
(* Type correctness of CarBusReceive *)

LEMMA InitTyped == Init => TypeOK
<1>. SUFFICES ASSUME Init PROVE TypeOK
  OBVIOUS
<1>1. /\ sent \in Seq(Frame) /\ Len(sent) = 0
      /\ rxQueue \in Seq([ch : 0 .. 4, n : Nat]) /\ heard \in Seq([ch : 0 .. 4, n : Nat])
      /\ hookQueue \in Seq(Hook)
  BY EmptySeq DEF Init
<1>2. heardOn \in [1 .. 4 -> Seq(Nat)]  BY EmptySeq DEF Init
<1>3. DOMAIN chanQueue = {}  BY DEF Init
<1>. QED  BY <1>1, <1>2, <1>3 DEF Init, TypeOK

LEMMA BusFrameTyped ==
  ASSUME TypeOK, NEW f \in Frame, BusFrame(f)
  PROVE  TypeOK'
<1>1. sent' \in Seq(Frame) /\ Len(sent') = Len(sent) + 1
  BY AppendProperties DEF BusFrame, TypeOK
<1>2. Len(sent) \in Nat  BY LenProperties DEF TypeOK
<1>3. nRead' \in 0 .. Len(sent')  BY <1>1, <1>2 DEF BusFrame, TypeOK
<1>. QED  BY <1>1, <1>3 DEF BusFrame, TypeOK, hookVars

LEMMA ReadMessageTyped ==
  ASSUME TypeOK, ReadMessage
  PROVE  TypeOK'
<1>1. Len(sent) \in Nat  BY LenProperties DEF TypeOK
<1>2. nRead' = nRead + 1 /\ nRead' \in 0 .. Len(sent) /\ nRead + 1 \in Nat
  BY <1>1 DEF ReadMessage, TypeOK
<1>3. hookQueue' \in Seq(Hook)
  <2>1. FiredHooks(nRead + 1) \in Seq(Hook)  BY <1>2, FiredOnce
  <2>2. hookQueue \o FiredHooks(nRead + 1) \in Seq(Hook)
    BY <2>1, ConcatProperties DEF TypeOK
  <2>. QED  BY <2>2 DEF ReadMessage, TypeOK
<1>. DEFINE ch == Decoded(nRead + 1)
<1>4. ch \in 0 .. 4  BY DecodeRange DEF Decoded
<1>. HIDE DEF ch
<1>5. rxQueue' \in Seq([ch : 0 .. 4, n : Nat])
  <2>1. [ch |-> ch, n |-> nRead + 1] \in [ch : 0 .. 4, n : Nat]  BY <1>2, <1>4
  <2>2. Append(rxQueue, [ch |-> ch, n |-> nRead + 1]) \in Seq([ch : 0 .. 4, n : Nat])
    BY <2>1, AppendProperties DEF TypeOK
  <2>. QED  BY <2>2 DEF ReadMessage, TypeOK, ch
<1>6. /\ DOMAIN chanQueue' \subseteq 1 .. 4
      /\ \A d \in DOMAIN chanQueue' : chanQueue'[d] \in Seq(Nat)
  <2>1. CASE chanQueue' = chanQueue  BY <2>1 DEF TypeOK
  <2>2. CASE chanQueue' = Deliver(chanQueue, ch, nRead + 1)
    <3>1. \A d \in DOMAIN chanQueue : Append(chanQueue[d], nRead + 1) \in Seq(Nat)
      BY <1>2, AppendProperties DEF TypeOK
    <3>. QED  BY <2>2, <3>1 DEF TypeOK, Deliver
  <2>. QED  BY <2>1, <2>2 DEF ReadMessage, ch
<1>. QED  BY <1>2, <1>3, <1>5, <1>6 DEF ReadMessage, TypeOK

LEMMA ReceiveCanTyped ==
  ASSUME TypeOK, ReceiveCan
  PROVE  TypeOK'
<1>1. rxQueue' \in Seq([ch : 0 .. 4, n : Nat]) /\ Head(rxQueue) \in [ch : 0 .. 4, n : Nat]
  BY HeadTailProperties DEF ReceiveCan, TypeOK
<1>2. heard' \in Seq([ch : 0 .. 4, n : Nat])
  BY <1>1, AppendProperties DEF ReceiveCan, TypeOK
<1>. QED  BY <1>1, <1>2 DEF ReceiveCan, TypeOK, hookVars

LEMMA EnsureChannelQueueTyped ==
  ASSUME TypeOK, NEW ch \in Channels, EnsureChannelQueue(ch)
  PROVE  TypeOK'
<1>1. ch \in 1 .. 4  BY ReceiveAssumption
<1>2. since' \in [1 .. 4 -> Nat]
  BY <1>1, LenProperties DEF EnsureChannelQueue, TypeOK
<1>3. /\ DOMAIN chanQueue' \subseteq 1 .. 4
      /\ \A d \in DOMAIN chanQueue' : chanQueue'[d] \in Seq(Nat)
  <2>1. <<>> \in Seq(Nat)  BY EmptySeq
  <2>. QED  BY <1>1, <2>1 DEF EnsureChannelQueue, TypeOK
<1>. QED  BY <1>2, <1>3 DEF EnsureChannelQueue, TypeOK, hookVars

LEMMA ReceiveCanOnTyped ==
  ASSUME TypeOK, NEW ch \in Channels, ReceiveCanOn(ch)
  PROVE  TypeOK'
<1>1. ch \in 1 .. 4  BY ReceiveAssumption
<1>2. chanQueue[ch] \in Seq(Nat) /\ chanQueue[ch] # <<>>  BY DEF ReceiveCanOn, TypeOK
<1>3. Head(chanQueue[ch]) \in Nat /\ Tail(chanQueue[ch]) \in Seq(Nat)
  BY <1>2, HeadTailProperties
<1>4. Append(heardOn[ch], Head(chanQueue[ch])) \in Seq(Nat)
  BY <1>1, <1>3, AppendProperties DEF TypeOK
<1>5. heardOn' \in [1 .. 4 -> Seq(Nat)]  BY <1>1, <1>4 DEF ReceiveCanOn, TypeOK
<1>6. /\ DOMAIN chanQueue' \subseteq 1 .. 4
      /\ \A d \in DOMAIN chanQueue' : chanQueue'[d] \in Seq(Nat)
  BY <1>3 DEF ReceiveCanOn, TypeOK
<1>. QED  BY <1>5, <1>6 DEF ReceiveCanOn, TypeOK, hookVars

LEMMA NextTyped == TypeOK /\ [Next]_vars => TypeOK'
<1>. SUFFICES ASSUME TypeOK, [Next]_vars PROVE TypeOK'
  OBVIOUS
<1>1. CASE HookStart
  <2>1. Head(hookQueue) \in Hook /\ Tail(hookQueue) \in Seq(Hook)
    BY <1>1, HeadTailProperties DEF HookStart, TypeOK
  <2>. QED  BY <1>1, <2>1 DEF HookStart, TypeOK, recvVars
<1>2. ASSUME NEW h \in hookRunning, HookEnd(h) PROVE TypeOK'
  BY <1>2 DEF HookEnd, TypeOK, recvVars
<1>3. CASE UNCHANGED vars  BY <1>3 DEF TypeOK, vars, recvVars, hookVars
<1>. QED
  BY <1>1, <1>2, <1>3, BusFrameTyped, ReadMessageTyped, ReceiveCanTyped,
     EnsureChannelQueueTyped, ReceiveCanOnTyped DEF Next

\* The receive path keeps its types, whoever reads what.
THEOREM ReceiveTypeCorrect == Spec => []TypeOK
<1>. QED  BY InitTyped, NextTyped, PTL DEF Spec

-----------------------------------------------------------------------------
(* The stream of a channel *)

Unasked == \A ch \in (1 .. 4) \ DOMAIN chanQueue : heardOn[ch] = <<>>

SinceRead == \A ch \in DOMAIN chanQueue : since[ch] <= nRead

StreamInv == TypeOK /\ Unasked /\ SinceRead /\ ChannelStreamUnbroken

\* What was read stays what it was when another frame is forwarded.
LEMMA ReadFramesStay ==
  ASSUME TypeOK, NEW f \in Frame, BusFrame(f)
  PROVE  \A n \in 1 .. nRead : sent'[n] = sent[n] /\ Decoded(n)' = Decoded(n)
<1>1. \A n \in 1 .. Len(sent) : sent'[n] = sent[n]
  BY AppendProperties DEF BusFrame, TypeOK
<1>2. 1 .. nRead \subseteq 1 .. Len(sent)
  BY LenProperties DEF TypeOK
<1>. QED  BY <1>1, <1>2 DEF Decoded

LEMMA BusFrameStreams ==
  ASSUME StreamInv, NEW f \in Frame, BusFrame(f)
  PROVE  StreamInv'
<1>1. TypeOK'  BY BusFrameTyped DEF StreamInv
<1>2. \A ch \in DOMAIN chanQueue :
        {n \in since[ch] + 1 .. nRead : Decoded(n)' = ch}
          = {n \in since[ch] + 1 .. nRead : Decoded(n) = ch}
  <2>1. \A ch \in DOMAIN chanQueue : since[ch] + 1 .. nRead \subseteq 1 .. nRead
    BY DEF StreamInv, TypeOK
  <2>. QED  BY <2>1, ReadFramesStay DEF StreamInv
<1>3. UNCHANGED <<chanQueue, heardOn, since, nRead>>  BY DEF BusFrame
<1>. QED  BY <1>1, <1>2, <1>3 DEF StreamInv, Unasked, SinceRead, ChannelStreamUnbroken

LEMMA ReadMessageStreams ==
  ASSUME StreamInv, HasHooks, ReadMessage
  PROVE  StreamInv'
<1>1. TypeOK'  BY ReadMessageTyped DEF StreamInv
<1>. DEFINE n == nRead + 1
<1>2. nRead \in Nat /\ n \in Nat /\ nRead' = n
  BY LenProperties DEF ReadMessage, StreamInv, TypeOK
<1>3. /\ chanQueue' = Deliver(chanQueue, Decoded(n), n)
      /\ UNCHANGED <<sent, heardOn, since>>
  BY DEF ReadMessage
<1>. HIDE DEF n
<1>4. DOMAIN chanQueue' = DOMAIN chanQueue  BY <1>3 DEF Deliver
<1>5. ASSUME NEW ch \in DOMAIN chanQueue
      PROVE  Lists(heardOn[ch] \o chanQueue'[ch],
                   {m \in since[ch] + 1 .. n : Decoded(m) = ch})
  <2>. DEFINE s == heardOn[ch] \o chanQueue[ch]
              S == {m \in since[ch] + 1 .. nRead : Decoded(m) = ch}
  <2>1. /\ ch \in 1 .. 4 /\ heardOn[ch] \in Seq(Nat) /\ chanQueue[ch] \in Seq(Nat)
        /\ since[ch] \in Nat
    BY DEF StreamInv, TypeOK
  <2>2. s \in Seq(Nat) /\ Lists(s, S)
    BY <2>1, ConcatProperties DEF StreamInv, ChannelStreamUnbroken
  <2>3. CASE Decoded(n) = ch
    <3>1. chanQueue'[ch] = Append(chanQueue[ch], n)  BY <1>3, <2>3 DEF Deliver
    <3>2. heardOn[ch] \o chanQueue'[ch] = Append(s, n)
      <4>1. heardOn[ch] \o Append(chanQueue[ch], n) = Append(heardOn[ch] \o chanQueue[ch], n)
        BY <1>2, <2>1, ConcatAppend
      <4>. QED  BY <3>1, <4>1
    <3>3. \A m \in S : m < n  BY <1>2, <2>1 DEF n
    <3>4. Lists(Append(s, n), S \cup {n})
      <4>. HIDE DEF s, S
      <4>. QED  BY <1>2, <2>2, <3>3, AppendNewest
    <3>5. Lists(Append(s, n), {m \in since[ch] + 1 .. n : Decoded(m) = ch})
      <4>1. since[ch] + 1 .. n = (since[ch] + 1 .. nRead) \cup {n}
        BY <1>2, <2>1 DEF n, StreamInv, SinceRead
      <4>2. {m \in since[ch] + 1 .. n : Decoded(m) = ch} = S \cup {n}
        BY <2>3, <4>1
      <4>. QED  BY <3>4, <4>2
    <3>. QED  BY <3>2, <3>5
  <2>4. CASE Decoded(n) # ch
    <3>1. chanQueue'[ch] = chanQueue[ch]  BY <1>3, <2>4 DEF Deliver
    <3>2. S = {m \in since[ch] + 1 .. n : Decoded(m) = ch}
      <4>1. \A m \in since[ch] + 1 .. n : m = n \/ m \in since[ch] + 1 .. nRead
        BY <1>2, <2>1 DEF n
      <4>2. since[ch] + 1 .. nRead \subseteq since[ch] + 1 .. n
        BY <1>2, <2>1 DEF n
      <4>. QED  BY <2>4, <4>1, <4>2
    <3>. QED  BY <2>2, <3>1, <3>2
  <2>. QED  BY <2>3, <2>4
<1>6. ChannelStreamUnbroken'
  BY <1>2, <1>3, <1>4, <1>5 DEF ChannelStreamUnbroken, Decoded
<1>7. SinceRead'
  BY <1>2, <1>3, <1>4 DEF n, StreamInv, TypeOK, SinceRead
<1>. QED  BY <1>1, <1>3, <1>4, <1>6, <1>7 DEF StreamInv, Unasked

LEMMA EnsureChannelQueueStreams ==
  ASSUME StreamInv, NEW ch \in Channels, EnsureChannelQueue(ch)
  PROVE  StreamInv'
<1>1. TypeOK'  BY EnsureChannelQueueTyped DEF StreamInv
<1>2. ch \in 1 .. 4 /\ ch \notin DOMAIN chanQueue /\ nRead \in Nat
  BY ReceiveAssumption, LenProperties DEF EnsureChannelQueue, StreamInv, TypeOK
<1>3. /\ DOMAIN chanQueue' = DOMAIN chanQueue \cup {ch} /\ chanQueue'[ch] = <<>>
      /\ \A d \in DOMAIN chanQueue : chanQueue'[d] = chanQueue[d]
      /\ since' = [since EXCEPT ![ch] = nRead]
      /\ UNCHANGED <<sent, nRead, heardOn>>
  BY <1>2 DEF EnsureChannelQueue
<1>4. heardOn[ch] \o chanQueue'[ch] = <<>>
  BY <1>2, <1>3, ConcatEmptySeq, EmptySeq DEF StreamInv, Unasked
<1>5. Lists(<<>>, {n \in nRead + 1 .. nRead : Decoded(n) = ch})
  <2>1. nRead + 1 .. nRead = {}  BY <1>2
  <2>. QED  BY <2>1, NoMembers DEF Lists, Ascending
<1>6. ChannelStreamUnbroken'
  <2>. SUFFICES ASSUME NEW d \in DOMAIN chanQueue'
                PROVE  Lists(heardOn[d] \o chanQueue'[d],
                             {n \in since'[d] + 1 .. nRead : Decoded(n) = d})
    BY <1>3 DEF ChannelStreamUnbroken, Decoded
  <2>1. CASE d = ch
    <3>1. since'[d] = nRead  BY <1>2, <1>3, <2>1 DEF StreamInv, TypeOK
    <3>. QED  BY <1>4, <1>5, <2>1, <3>1
  <2>2. CASE d # ch
    <3>1. d \in DOMAIN chanQueue /\ d \in 1 .. 4 /\ since'[d] = since[d]
      BY <1>3, <2>2 DEF StreamInv, TypeOK
    <3>. QED  BY <1>3, <3>1 DEF StreamInv, ChannelStreamUnbroken
  <2>. QED  BY <2>1, <2>2
<1>7. SinceRead'
  BY <1>2, <1>3 DEF StreamInv, TypeOK, SinceRead
<1>. QED  BY <1>1, <1>3, <1>6, <1>7 DEF StreamInv, Unasked

LEMMA ReceiveCanOnStreams ==
  ASSUME StreamInv, NEW ch \in Channels, ReceiveCanOn(ch)
  PROVE  StreamInv'
<1>1. TypeOK'  BY ReceiveCanOnTyped DEF StreamInv
<1>2. /\ ch \in 1 .. 4 /\ ch \in DOMAIN chanQueue /\ chanQueue[ch] # <<>>
      /\ chanQueue[ch] \in Seq(Nat) /\ heardOn[ch] \in Seq(Nat)
  BY ReceiveAssumption DEF ReceiveCanOn, StreamInv, TypeOK
<1>3. /\ DOMAIN chanQueue' = DOMAIN chanQueue
      /\ heardOn'[ch] = Append(heardOn[ch], Head(chanQueue[ch]))
      /\ chanQueue'[ch] = Tail(chanQueue[ch])
      /\ \A d \in DOMAIN chanQueue : d # ch => /\ chanQueue'[d] = chanQueue[d]
                                               /\ heardOn'[d] = heardOn[d]
      /\ \A d \in 1 .. 4 : d # ch => heardOn'[d] = heardOn[d]
      /\ UNCHANGED <<sent, nRead, since>>
  BY <1>2 DEF ReceiveCanOn, StreamInv, TypeOK
<1>4. heardOn'[ch] \o chanQueue'[ch] = heardOn[ch] \o chanQueue[ch]
  BY <1>2, <1>3, TakeHead
<1>5. \A d \in DOMAIN chanQueue : heardOn'[d] \o chanQueue'[d] = heardOn[d] \o chanQueue[d]
  BY <1>3, <1>4
<1>6. ChannelStreamUnbroken'
  BY <1>3, <1>5 DEF StreamInv, ChannelStreamUnbroken, Decoded
<1>. QED  BY <1>1, <1>2, <1>3, <1>6 DEF StreamInv, Unasked, SinceRead

LEMMA NextStreams ==
  ASSUME HasHooks, StreamInv, [Next]_vars
  PROVE  StreamInv'
<1>1. ASSUME UNCHANGED <<sent, nRead, chanQueue, since, heardOn>> PROVE StreamInv'
  <2>1. TypeOK'  BY NextTyped DEF StreamInv
  <2>. QED  BY <1>1, <2>1 DEF StreamInv, Unasked, SinceRead, ChannelStreamUnbroken, Decoded
<1>2. CASE ReceiveCan  BY <1>1, <1>2 DEF ReceiveCan
<1>3. CASE HookStart  BY <1>1, <1>3 DEF HookStart, recvVars
<1>4. ASSUME NEW h \in hookRunning, HookEnd(h) PROVE StreamInv'
  BY <1>1, <1>4 DEF HookEnd, recvVars
<1>5. CASE UNCHANGED vars  BY <1>1, <1>5 DEF vars, recvVars
<1>. QED
  BY <1>2, <1>3, <1>4, <1>5, BusFrameStreams, ReadMessageStreams, EnsureChannelQueueStreams,
     ReceiveCanOnStreams DEF Next

LEMMA StreamInvHolds ==
  ASSUME HasHooks
  PROVE  Spec => []StreamInv
<1>1. Init => StreamInv
  <2>1. Init => DOMAIN chanQueue = {} /\ \A ch \in 1 .. 4 : heardOn[ch] = <<>>  BY DEF Init
  <2>. QED  BY <2>1, InitTyped DEF StreamInv, Unasked, SinceRead, ChannelStreamUnbroken
<1>2. StreamInv /\ [Next]_vars => StreamInv'  BY NextStreams
<1>. QED  BY <1>1, <1>2, PTL DEF Spec

\* On a device that open() made, receive_can_on returns every frame that decodes
\* to its channel from its first call on, once and in the bus's order.
THEOREM StreamsAreUnbroken == HasHooks /\ Spec => []ChannelStreamUnbroken
<1>. SUFFICES ASSUME HasHooks PROVE Spec => []ChannelStreamUnbroken
  OBVIOUS
<1>1. Spec => []StreamInv  BY StreamInvHolds
<1>2. StreamInv => ChannelStreamUnbroken  BY DEF StreamInv
<1>. QED  BY <1>1, <1>2, PTL

\* Where the adapter has no channel 3, whose bits are those of 1 and 2, a frame
\* received on a channel came from it.
THEOREM ChannelsAreSeparate ==
  HasHooks /\ 3 \notin Channels /\ Spec => []OwnChannelOnly
<1>. SUFFICES ASSUME HasHooks, 3 \notin Channels PROVE Spec => []OwnChannelOnly
  OBVIOUS
<1>1. ASSUME StreamInv PROVE OwnChannelOnly
  <2>. SUFFICES ASSUME NEW ch \in DOMAIN chanQueue,
                       NEW n \in ToSet(heardOn[ch] \o chanQueue[ch])
                PROVE  sent[n].ch = ch
    BY DEF OwnChannelOnly
  <2>1. n \in since[ch] + 1 .. nRead /\ Decoded(n) = ch
    BY <1>1 DEF StreamInv, ChannelStreamUnbroken, Lists
  <2>2. n \in 1 .. Len(sent)
    <3>1. ch \in 1 .. 4 /\ since[ch] \in Nat /\ nRead \in 0 .. Len(sent) /\ Len(sent) \in Nat
      BY <1>1, LenProperties DEF StreamInv, TypeOK
    <3>. QED  BY <2>1, <3>1
  <2>3. sent[n] \in Frame  BY <1>1, <2>2, ElementOfSeq DEF StreamInv, TypeOK
  <2>4. sent[n].ch \in Channels  BY <2>3 DEF Frame
  <2>5. sent[n].ch \in 1 .. 4 /\ sent[n].ch # 3  BY <2>4, ReceiveAssumption
  <2>6. sent[n].ch \in {1, 2, 4}  BY <2>5
  <2>. QED  BY <2>1, <2>6, DecodeOwn DEF Decoded
<1>2. Spec => []StreamInv  BY StreamInvHolds
<1>3. StreamInv => OwnChannelOnly  BY <1>1
<1>. QED  BY <1>2, <1>3, PTL

-----------------------------------------------------------------------------
(* Hook tasks *)

Owed(n) == {h \in [rule : Rules, n : {n}] : Matches(h.rule, sent[n])}

OwedUpTo(k) == {h \in [rule : Rules, n : 1 .. k] : Matches(h.rule, sent[h.n])}

HookInv == TypeOK /\ EveryMatchHooked

LEMMA ReadMessageHooks ==
  ASSUME HookInv, HasHooks, ReadMessage
  PROVE  HookInv'
<1>1. TypeOK'  BY ReadMessageTyped DEF HookInv
<1>. DEFINE n == nRead + 1
            more == FiredHooks(n)
            known == hookRunning \cup hookDone
<1>2. nRead \in Nat /\ n \in Nat /\ nRead' = n
  BY LenProperties DEF ReadMessage, HookInv, TypeOK
<1>3. hookQueue' = hookQueue \o more /\ UNCHANGED <<sent, hookRunning, hookDone>>
  BY DEF ReadMessage
<1>4. more \in Seq(Hook) /\ IsInjective(more) /\ ToSet(more) = Owed(n)
  BY <1>2, FiredOnce DEF Owed
<1>5. hookQueue \in Seq(Hook)  BY DEF HookInv, TypeOK
<1>6. ToSet(hookQueue) \cup known = OwedUpTo(nRead)
  BY DEF HookInv, EveryMatchHooked, OwedUpTo
<1>7. OwedUpTo(n) = OwedUpTo(nRead) \cup Owed(n)
  <2>1. 1 .. n = (1 .. nRead) \cup {n}  BY <1>2
  <2>. QED  BY <2>1 DEF OwedUpTo, Owed
<1>8. OwedUpTo(nRead) \cap Owed(n) = {}
  <2>1. n \notin 1 .. nRead  BY <1>2
  <2>. QED  BY <2>1 DEF OwedUpTo, Owed
<1>. HIDE DEF n, more
<1>9. IsInjective(hookQueue \o more)
  BY <1>4, <1>5, <1>6, <1>8, ConcatInjective DEF HookInv, EveryMatchHooked
<1>10. ToSet(hookQueue \o more) = ToSet(hookQueue) \cup Owed(n)
  BY <1>4, <1>5, ConcatMembers
<1>11. ToSet(hookQueue \o more) \cap known = {}
  BY <1>6, <1>8, <1>10 DEF HookInv, EveryMatchHooked
<1>12. ToSet(hookQueue \o more) \cup known = OwedUpTo(n)
  BY <1>6, <1>7, <1>10
<1>13. EveryMatchHooked'
  BY <1>2, <1>3, <1>9, <1>11, <1>12 DEF HookInv, EveryMatchHooked, OwedUpTo
<1>. QED  BY <1>1, <1>13 DEF HookInv

LEMMA HookStartHooks ==
  ASSUME HookInv, HookStart
  PROVE  HookInv'
<1>1. TypeOK'  BY NextTyped DEF HookInv, Next
<1>2. hookQueue \in Seq(Hook) /\ hookQueue # <<>> /\ IsInjective(hookQueue)
  BY DEF HookInv, TypeOK, HookStart, EveryMatchHooked
<1>3. ToSet(hookQueue) = {Head(hookQueue)} \cup ToSet(Tail(hookQueue))
  BY <1>2, HeadMembers
<1>4. IsInjective(Tail(hookQueue)) /\ Head(hookQueue) \notin ToSet(Tail(hookQueue))
  BY <1>2, HeadIsAlone
<1>5. /\ hookQueue' = Tail(hookQueue) /\ hookRunning' = hookRunning \cup {Head(hookQueue)}
      /\ UNCHANGED <<sent, nRead, hookDone>>
  BY DEF HookStart, recvVars
<1>6. EveryMatchHooked'
  <2>1. ToSet(hookQueue') \cap (hookRunning' \cup hookDone') = {}
    BY <1>3, <1>4, <1>5 DEF HookInv, EveryMatchHooked
  <2>2. hookRunning' \cap hookDone' = {}
    BY <1>3, <1>5 DEF HookInv, EveryMatchHooked
  <2>3. ToSet(hookQueue') \cup hookRunning' \cup hookDone'
          = ToSet(hookQueue) \cup hookRunning \cup hookDone
    BY <1>3, <1>5
  <2>. QED  BY <1>4, <1>5, <2>1, <2>2, <2>3 DEF HookInv, EveryMatchHooked
<1>. QED  BY <1>1, <1>6 DEF HookInv

LEMMA BusFrameHooks ==
  ASSUME HookInv, NEW f \in Frame, BusFrame(f)
  PROVE  HookInv'
<1>1. TypeOK'  BY BusFrameTyped DEF HookInv
<1>2. {h \in [rule : Rules, n : 1 .. nRead] : Matches(h.rule, sent'[h.n])}
        = {h \in [rule : Rules, n : 1 .. nRead] : Matches(h.rule, sent[h.n])}
  BY ReadFramesStay DEF HookInv
<1>3. UNCHANGED <<nRead, hookQueue, hookRunning, hookDone>>  BY DEF BusFrame, hookVars
<1>. QED  BY <1>1, <1>2, <1>3 DEF HookInv, EveryMatchHooked

LEMMA NextHooks ==
  ASSUME HasHooks, HookInv, [Next]_vars
  PROVE  HookInv'
<1>1. TypeOK'  BY NextTyped DEF HookInv
<1>2. ASSUME UNCHANGED <<sent, nRead, hookVars>> PROVE HookInv'
  BY <1>1, <1>2 DEF HookInv, EveryMatchHooked, hookVars
<1>3. CASE ReceiveCan  BY <1>2, <1>3 DEF ReceiveCan
<1>4. ASSUME NEW ch \in Channels, EnsureChannelQueue(ch) \/ ReceiveCanOn(ch) PROVE HookInv'
  BY <1>2, <1>4 DEF EnsureChannelQueue, ReceiveCanOn
<1>5. ASSUME NEW h \in hookRunning, HookEnd(h) PROVE HookInv'
  <2>1. /\ hookRunning' = hookRunning \ {h} /\ hookDone' = hookDone \cup {h}
        /\ UNCHANGED <<sent, nRead, hookQueue>>
    BY <1>5 DEF HookEnd, recvVars
  <2>2. EveryMatchHooked'
    BY <1>5, <2>1 DEF HookInv, EveryMatchHooked
  <2>. QED  BY <1>1, <2>2 DEF HookInv
<1>6. CASE UNCHANGED vars  BY <1>2, <1>6 DEF vars, recvVars
<1>. QED
  BY <1>3, <1>4, <1>5, <1>6, BusFrameHooks, ReadMessageHooks, HookStartHooks DEF Next

\* On a device that open() made, every rule that matches a frame read so far has
\* exactly one task, waiting, running or ended, however many wait for a permit.
THEOREM MatchesAreHooked == HasHooks /\ Spec => []EveryMatchHooked
<1>. SUFFICES ASSUME HasHooks PROVE Spec => []EveryMatchHooked
  OBVIOUS
<1>1. Init => HookInv
  <2>. SUFFICES ASSUME Init PROVE EveryMatchHooked
    BY InitTyped DEF HookInv
  <2>1. ToSet(hookQueue) = {} /\ IsInjective(hookQueue)
    BY NoMembers DEF Init, IsInjective
  <2>2. [rule : Rules, n : 1 .. nRead] = {}
    <3>1. 1 .. nRead = {}  BY DEF Init
    <3>. QED  BY <3>1
  <2>. QED  BY <2>1, <2>2 DEF Init, EveryMatchHooked
<1>2. HookInv /\ [Next]_vars => HookInv'  BY NextHooks
<1>3. HookInv => EveryMatchHooked  BY DEF HookInv
<1>. QED  BY <1>1, <1>2, <1>3, PTL DEF Spec

-----------------------------------------------------------------------------
(* Type correctness of CanIdRouter *)

\* Only frames that were read wait in the common queue.
QueuedRead ==
  /\ Len(rxQueue) <= nRead
  /\ \A f \in ToSet(rxQueue) : f.n \in 1 .. nRead

RouterTypes == RouterTypeOK /\ QueuedRead

LEMMA InitRouterTypes == RouterInit => RouterTypes
<1>. SUFFICES ASSUME RouterInit PROVE RouterTypes
  OBVIOUS
<1>1. TypeOK  BY InitTyped DEF RouterInit
<1>2. DOMAIN idQueue = {} /\ direct = {} /\ ToSet(rxQueue) = {} /\ Len(rxQueue) = 0
  BY NoMembers, EmptySeq DEF RouterInit, Init
<1>3. routed \in [Ids -> Seq(Nat)] /\ got \in [Ids -> Seq(Nat)]
  BY EmptySeq DEF RouterInit
<1>4. QueuedRead
  <2>1. nRead = 0  BY DEF RouterInit, Init
  <2>. QED  BY <1>2, <2>1 DEF QueuedRead
<1>. QED  BY <1>1, <1>2, <1>3, <1>4 DEF RouterInit, RouterTypes, RouterTypeOK

LEMMA ReadMessageRouterTypes ==
  ASSUME RouterTypes, ReadMessage, UNCHANGED routerVars
  PROVE  RouterTypes'
<1>1. TypeOK'  BY ReadMessageTyped DEF RouterTypes, RouterTypeOK
<1>2. nRead \in Nat /\ nRead' = nRead + 1 /\ nRead' \in Nat
  BY LenProperties DEF ReadMessage, RouterTypes, RouterTypeOK, TypeOK
<1>3. 1 .. nRead \subseteq 1 .. nRead' /\ nRead' \in 1 .. nRead'  BY <1>2
<1>4. QueuedRead'
  <2>1. CASE rxQueue' = rxQueue  BY <1>3, <2>1 DEF RouterTypes, QueuedRead
  <2>. DEFINE f == [ch |-> Decoded(nRead + 1), n |-> nRead + 1]
              T == [ch : 0 .. 4, n : Nat]
  <2>2. CASE rxQueue' = Append(rxQueue, f)
    <3>1. f \in T /\ f.n = nRead + 1
      BY <1>2, DecodeRange DEF Decoded
    <3>. HIDE DEF f
    <3>2. rxQueue \in Seq(T)  BY DEF RouterTypes, RouterTypeOK, TypeOK
    <3>. HIDE DEF T
    <3>3. ToSet(rxQueue') = ToSet(rxQueue) \cup {f}
      <4>1. ToSet(Append(rxQueue, f)) = ToSet(rxQueue) \cup {f}  BY <3>1, <3>2, AppendMembers
      <4>. QED  BY <2>2, <4>1
    <3>4. Len(rxQueue') = Len(rxQueue) + 1 /\ Len(rxQueue) \in Nat
      BY <2>2, <3>1, <3>2, AppendProperties, LenProperties
    <3>. QED  BY <1>2, <1>3, <3>1, <3>3, <3>4 DEF RouterTypes, QueuedRead
  <2>. QED  BY <2>1, <2>2 DEF ReadMessage
<1>. QED  BY <1>1, <1>3, <1>4 DEF RouterTypes, RouterTypeOK, routerVars

LEMMA BusFrameRouterTypes ==
  ASSUME RouterTypes, NEW f \in Frame, BusFrame(f), UNCHANGED routerVars
  PROVE  RouterTypes'
<1>1. TypeOK'  BY BusFrameTyped DEF RouterTypes, RouterTypeOK
<1>2. UNCHANGED <<nRead, rxQueue>>  BY DEF BusFrame
<1>. QED  BY <1>1, <1>2 DEF RouterTypes, RouterTypeOK, QueuedRead, routerVars

\* A frame leaves the common queue.
LEMMA HeadTypes ==
  ASSUME RouterTypes, rxQueue # <<>>, rxQueue' = Tail(rxQueue),
         UNCHANGED <<sent, nRead, loop, chanQueue, since, heard, heardOn, hookVars>>
  PROVE  TypeOK' /\ QueuedRead' /\ Head(rxQueue).n \in 1 .. nRead /\ Head(rxQueue).n \in Nat
<1>1. rxQueue \in Seq([ch : 0 .. 4, n : Nat])  BY DEF RouterTypes, RouterTypeOK, TypeOK
<1>2. Head(rxQueue) \in [ch : 0 .. 4, n : Nat] /\ Tail(rxQueue) \in Seq([ch : 0 .. 4, n : Nat])
  BY <1>1, HeadTailProperties
<1>3. ToSet(rxQueue) = {Head(rxQueue)} \cup ToSet(Tail(rxQueue))
  BY <1>1, HeadMembers
<1>4. Len(Tail(rxQueue)) = Len(rxQueue) - 1 /\ Len(rxQueue) \in Nat /\ nRead \in Nat
  BY <1>1, HeadTailProperties, LenProperties DEF RouterTypes, RouterTypeOK, TypeOK
<1>. QED  BY <1>2, <1>3, <1>4 DEF RouterTypes, RouterTypeOK, TypeOK, QueuedRead, hookVars

LEMMA DropOldestTyped ==
  ASSUME NEW q \in Seq(Nat), Len(q) <= QueueSize, NEW n \in Nat
  PROVE  DropOldest(q, n) \in Seq(Nat) /\ Len(DropOldest(q, n)) <= QueueSize
<1>1. QueueSize \in Nat \ {0} /\ Len(q) \in Nat  BY RouterAssumption, LenProperties
<1>2. CASE Len(q) >= QueueSize
  <2>1. q # <<>>  BY <1>1, <1>2, EmptySeq
  <2>2. Tail(q) \in Seq(Nat) /\ Len(Tail(q)) = Len(q) - 1  BY <2>1, HeadTailProperties
  <2>3. Append(Tail(q), n) \in Seq(Nat) /\ Len(Append(Tail(q), n)) = Len(q) - 1 + 1
    BY <2>2, AppendProperties
  <2>. QED  BY <1>1, <1>2, <2>3 DEF DropOldest
<1>3. CASE ~(Len(q) >= QueueSize)
  <2>1. Append(q, n) \in Seq(Nat) /\ Len(Append(q, n)) = Len(q) + 1  BY AppendProperties
  <2>. QED  BY <1>1, <1>3, <2>1 DEF DropOldest
<1>. QED  BY <1>2, <1>3

LEMMA RouteTypes ==
  ASSUME RouterTypes, Route
  PROVE  RouterTypes'
<1>1. /\ rxQueue # <<>> /\ rxQueue' = Tail(rxQueue)
      /\ UNCHANGED <<sent, nRead, loop, chanQueue, since, heard, heardOn, hookVars>>
      /\ UNCHANGED <<stopSet, stopping, routedFrom, got, direct>> /\ routerTask' = "top"
  BY DEF Route
<1>2. TypeOK' /\ QueuedRead' /\ Head(rxQueue).n \in Nat  BY <1>1, HeadTypes
<1>. DEFINE n == Head(rxQueue).n
            id == sent[n].can_id
<1>3. \/ UNCHANGED <<idQueue, routed>>
      \/ /\ id \in DOMAIN idQueue
         /\ idQueue' = [idQueue EXCEPT ![id] = DropOldest(@, n)]
         /\ routed' = [routed EXCEPT ![id] = Append(@, n)]
  BY DEF Route, ForRouter
<1>4. n \in Nat  BY <1>2
<1>. HIDE DEF n, id
<1>5. /\ DOMAIN idQueue' \subseteq Ids
      /\ \A d \in DOMAIN idQueue' : idQueue'[d] \in Seq(Nat) /\ Len(idQueue'[d]) <= QueueSize
  <2>. SUFFICES ASSUME NEW d \in DOMAIN idQueue
                PROVE  idQueue'[d] \in Seq(Nat) /\ Len(idQueue'[d]) <= QueueSize
    BY <1>3 DEF RouterTypes, RouterTypeOK
  <2>1. idQueue[d] \in Seq(Nat) /\ Len(idQueue[d]) <= QueueSize
    BY DEF RouterTypes, RouterTypeOK
  <2>2. DropOldest(idQueue[d], n) \in Seq(Nat) /\ Len(DropOldest(idQueue[d], n)) <= QueueSize
    BY <1>4, <2>1, DropOldestTyped
  <2>. QED  BY <1>3, <2>1, <2>2
<1>6. routed' \in [Ids -> Seq(Nat)]
  <2>1. \A d \in Ids : Append(routed[d], n) \in Seq(Nat)
    BY <1>4, AppendProperties DEF RouterTypes, RouterTypeOK
  <2>2. routed \in [Ids -> Seq(Nat)]  BY DEF RouterTypes, RouterTypeOK
  <2>3. id \in DOMAIN idQueue => id \in Ids  BY DEF RouterTypes, RouterTypeOK
  <2>. QED  BY <1>3, <2>1, <2>2, <2>3
<1>. QED  BY <1>1, <1>2, <1>5, <1>6 DEF RouterTypes, RouterTypeOK

LEMMA RouterStepTypes ==
  ASSUME RouterTypes, [RouterNext]_allVars
  PROVE  RouterTypes'
<1>1. ASSUME UNCHANGED vars PROVE TypeOK' /\ QueuedRead' /\ nRead' = nRead
  <2>1. TypeOK'  BY <1>1, NextTyped DEF RouterTypes, RouterTypeOK
  <2>. QED  BY <1>1, <2>1 DEF RouterTypes, QueuedRead, vars, recvVars
<1>2. CASE Start \/ Stop \/ StopReturns \/ LoopTop
  <2>1. UNCHANGED <<vars, idQueue, routed, routedFrom, got, direct>>
    BY <1>2 DEF Start, Stop, StopReturns, LoopTop
  <2>2. /\ routerTask' \in {"none", "top", "recv", "cancelled", "done"}
        /\ stopSet' \in BOOLEAN /\ stopping' \in BOOLEAN
    BY <1>2 DEF Start, Stop, StopReturns, LoopTop, RouterTypes, RouterTypeOK
  <2>. QED  BY <1>1, <2>1, <2>2 DEF RouterTypes, RouterTypeOK
<1>3. ASSUME NEW id \in Ids, GetQueue(id) PROVE RouterTypes'
  <2>1. /\ DOMAIN idQueue' \subseteq Ids
        /\ \A d \in DOMAIN idQueue' : idQueue'[d] \in Seq(Nat) /\ Len(idQueue'[d]) <= QueueSize
    <3>1. <<>> \in Seq(Nat) /\ Len(<<>>) <= QueueSize  BY EmptySeq, RouterAssumption
    <3>. QED  BY <1>3, <3>1 DEF GetQueue, RouterTypes, RouterTypeOK
  <2>2. Taken + 1 \in Nat
    <3>1. Len(rxQueue) \in Nat /\ nRead \in Nat
      BY LenProperties DEF RouterTypes, RouterTypeOK, TypeOK
    <3>. QED  BY <3>1 DEF Taken, RouterTypes, QueuedRead
  <2>3. routedFrom' \in [Ids -> Nat]  BY <1>3, <2>2 DEF GetQueue, RouterTypes, RouterTypeOK
  <2>. QED  BY <1>1, <1>3, <2>1, <2>3 DEF GetQueue, RouterTypes, RouterTypeOK
<1>4. ASSUME NEW id \in Ids, RoutedRecv(id) PROVE RouterTypes'
  <2>1. /\ idQueue[id] \in Seq(Nat) /\ idQueue[id] # <<>> /\ Len(idQueue[id]) <= QueueSize
        /\ id \in DOMAIN idQueue
    BY <1>4 DEF RoutedRecv, RouterTypes, RouterTypeOK
  <2>2. /\ Head(idQueue[id]) \in Nat /\ Tail(idQueue[id]) \in Seq(Nat)
        /\ Len(Tail(idQueue[id])) = Len(idQueue[id]) - 1 /\ Len(idQueue[id]) \in Nat
    BY <2>1, HeadTailProperties, LenProperties
  <2>3. Len(Tail(idQueue[id])) <= QueueSize  BY <2>1, <2>2, RouterAssumption
  <2>4. /\ DOMAIN idQueue' \subseteq Ids
        /\ \A d \in DOMAIN idQueue' : idQueue'[d] \in Seq(Nat) /\ Len(idQueue'[d]) <= QueueSize
    BY <1>4, <2>2, <2>3 DEF RoutedRecv, RouterTypes, RouterTypeOK
  <2>5. got' \in [Ids -> Seq(Nat)]
    <3>1. Append(got[id], Head(idQueue[id])) \in Seq(Nat)
      BY <2>2, AppendProperties DEF RouterTypes, RouterTypeOK
    <3>. QED  BY <1>4, <3>1 DEF RoutedRecv, RouterTypes, RouterTypeOK
  <2>. QED  BY <1>1, <1>4, <2>4, <2>5 DEF RoutedRecv, RouterTypes, RouterTypeOK
<1>5. CASE DirectRecv
  <2>1. TypeOK' /\ QueuedRead' /\ Head(rxQueue).n \in 1 .. nRead
    BY <1>5, HeadTypes DEF DirectRecv
  <2>. QED  BY <1>5, <2>1 DEF DirectRecv, RouterTypes, RouterTypeOK
<1>6. CASE UNCHANGED allVars
  BY <1>1, <1>6 DEF allVars, routerVars, RouterTypes, RouterTypeOK
<1>. QED
  BY <1>2, <1>3, <1>4, <1>5, <1>6, ReadMessageRouterTypes, BusFrameRouterTypes, RouteTypes
  DEF RouterNext

\* The router keeps its types, and no queue of a connection exceeds QueueSize.
THEOREM RouterTypeCorrect == RouterSpec => []RouterTypeOK
<1>1. RouterTypes /\ [RouterNext]_allVars => RouterTypes'  BY RouterStepTypes
<1>2. RouterTypes => RouterTypeOK  BY DEF RouterTypes
<1>. QED  BY <1>1, <1>2, InitRouterTypes, PTL DEF RouterSpec

-----------------------------------------------------------------------------
(* What the router gives to a connection *)

\* The common queue holds the frames read and not yet taken, in order.
QueuedInOrder ==
  \A i \in 1 .. Len(rxQueue) : /\ rxQueue[i].n = Taken + i
                               /\ rxQueue[i].ch = Decoded(Taken + i)

Unrouted == \A id \in Ids \ DOMAIN idQueue : routed[id] = <<>> /\ got[id] = <<>>

FromTaken == \A id \in DOMAIN idQueue : routedFrom[id] \in 1 .. Taken + 1

DirectTaken == direct \subseteq 1 .. Taken

\* The frames that should reach the queue of id.
Due(id) == {n \in routedFrom[id] .. Taken : /\ n \notin direct
                                            /\ sent[n].can_id = id
                                            /\ Decoded(n) = RouterChannel}

\* Of the frames of r, those in kept are all but some that QueueSize newer ones
\* came after.
KeepsNewest(r, kept) ==
  /\ Ascending(kept)
  /\ ToSet(kept) \subseteq ToSet(r)
  /\ \A n \in ToSet(r) \ ToSet(kept) :
       Cardinality({m \in ToSet(r) : m > n}) >= QueueSize

AllKeepNewest == \A id \in DOMAIN idQueue : KeepsNewest(routed[id], got[id] \o idQueue[id])

RoutedInv ==
  /\ RouterTypes
  /\ QueuedInOrder
  /\ Unrouted
  /\ FromTaken
  /\ DirectTaken
  /\ RoutedComplete
  /\ AllKeepNewest

LEMMA TakenTyped ==
  ASSUME RouterTypes
  PROVE  /\ Taken \in Nat /\ Taken <= nRead /\ nRead \in Nat /\ Len(rxQueue) \in Nat
         /\ nRead <= Len(sent) /\ Len(sent) \in Nat
BY LenProperties DEF RouterTypes, QueuedRead, RouterTypeOK, TypeOK, Taken

LEMMA HeadInOrder ==
  ASSUME RouterTypes, QueuedInOrder, rxQueue # <<>>, rxQueue' = Tail(rxQueue),
         UNCHANGED <<sent, nRead>>
  PROVE  /\ Head(rxQueue).n = Taken + 1 /\ Head(rxQueue).ch = Decoded(Taken + 1)
         /\ Taken' = Taken + 1 /\ QueuedInOrder'
<1>1. /\ Head(rxQueue) = rxQueue[1] /\ Len(Tail(rxQueue)) = Len(rxQueue) - 1
      /\ \A i \in 1 .. Len(Tail(rxQueue)) : Tail(rxQueue)[i] = rxQueue[i + 1]
      /\ Len(rxQueue) \in Nat \ {0}
  BY HeadTailProperties, EmptySeq DEF RouterTypes, RouterTypeOK, TypeOK
<1>2. 1 \in 1 .. Len(rxQueue)  BY <1>1
<1>3. Taken' = Taken + 1  BY <1>1, TakenTyped DEF Taken
<1>4. ASSUME NEW i \in 1 .. Len(rxQueue')
      PROVE  rxQueue'[i].n = Taken + 1 + i /\ rxQueue'[i].ch = Decoded(Taken + 1 + i)
  <2>1. i + 1 \in 1 .. Len(rxQueue) /\ rxQueue'[i] = rxQueue[i + 1]  BY <1>1
  <2>2. Taken + (i + 1) = Taken + 1 + i  BY TakenTyped
  <2>. QED  BY <2>1, <2>2 DEF QueuedInOrder
<1>5. QueuedInOrder'  BY <1>3, <1>4 DEF QueuedInOrder, Decoded
<1>. QED  BY <1>1, <1>2, <1>3, <1>5 DEF QueuedInOrder

\* A queue that drops its oldest frame when it is full keeps the newest.
LEMMA DropOldestKeeps ==
  ASSUME NEW r \in Seq(Nat), NEW g \in Seq(Nat), NEW q \in Seq(Nat), NEW n \in Nat,
         Ascending(r), KeepsNewest(r, g \o q), \A m \in ToSet(r) : m < n
  PROVE  KeepsNewest(Append(r, n), g \o DropOldest(q, n))
<1>. DEFINE R == ToSet(r)
            p == IF Len(q) >= QueueSize THEN Tail(q) ELSE q
<1>1. DropOldest(q, n) = Append(p, n)  BY DEF DropOldest
<1>2. QueueSize \in Nat \ {0} /\ Len(q) \in Nat  BY RouterAssumption, LenProperties
<1>3. /\ Ascending(g) /\ Ascending(q)
      /\ \A m \in ToSet(g), k \in ToSet(q) : m < k
      /\ ToSet(g \o q) = ToSet(g) \cup ToSet(q)
  BY AscendingConcat, ConcatMembers DEF KeepsNewest
<1>4. IsFiniteSet(R) /\ R \subseteq Nat  BY AscendingCount, MembersTyped
<1>5. ToSet(Append(r, n)) = R \cup {n}  BY AppendMembers
<1>6. q # <<>> => /\ Head(q) \in Nat /\ Tail(q) \in Seq(Nat)
                  /\ ToSet(q) = {Head(q)} \cup ToSet(Tail(q))
                  /\ Ascending(Tail(q)) /\ \A k \in ToSet(Tail(q)) : Head(q) < k
  BY <1>3, HeadMembers, HeadTailProperties, AscendingTail
<1>7. Len(q) >= QueueSize => q # <<>>  BY <1>2, EmptySeq
<1>8. /\ p \in Seq(Nat) /\ Ascending(p) /\ ToSet(p) \subseteq ToSet(q)
      /\ \A k \in ToSet(q) \ ToSet(p) : Len(q) >= QueueSize /\ k = Head(q)
  BY <1>3, <1>6, <1>7
<1>. HIDE DEF R, p
<1>9. ToSet(g) \subseteq R /\ ToSet(q) \subseteq R  BY <1>3 DEF KeepsNewest, R
<1>10. /\ Append(p, n) \in Seq(Nat) /\ ToSet(Append(p, n)) = ToSet(p) \cup {n}
       /\ Ascending(Append(p, n))
  <2>1. \A m \in ToSet(p) : m < n  BY <1>8, <1>9 DEF R
  <2>. QED  BY <1>8, <2>1, AppendProperties, AppendMembers, AscendingAppend
<1>. DEFINE kept == g \o Append(p, n)
<1>11. ToSet(kept) = ToSet(g) \cup ToSet(p) \cup {n}
  <2>. DEFINE a == Append(p, n)
  <2>1. a \in Seq(Nat) /\ ToSet(a) = ToSet(p) \cup {n}  BY <1>10
  <2>. HIDE DEF a
  <2>2. ToSet(g \o a) = ToSet(g) \cup ToSet(a)  BY <2>1, ConcatMembers
  <2>. QED  BY <2>1, <2>2 DEF a
<1>12. Ascending(kept)
  <2>1. \A m \in ToSet(g), k \in ToSet(Append(p, n)) : m < k
    BY <1>3, <1>8, <1>9, <1>10 DEF R
  <2>. QED  BY <1>3, <1>10, <2>1, AscendingConcat
<1>. HIDE DEF kept
<1>13. ASSUME NEW x \in (R \cup {n}) \ ToSet(kept)
       PROVE  Cardinality({m \in R \cup {n} : m > x}) >= QueueSize
  <2>. DEFINE newer == {m \in R \cup {n} : m > x}
  <2>1. IsFiniteSet(R \cup {n})
    BY <1>4, FS_AddElement
  <2>2. newer \in SUBSET (R \cup {n})  OBVIOUS
  <2>3. IsFiniteSet(newer) /\ Cardinality(newer) \in Nat
    BY <2>1, <2>2, FS_Subset, FS_CardinalityType
  <2>4. CASE x \notin ToSet(g \o q)
    <3>1. Cardinality({m \in R : m > x}) >= QueueSize
      BY <1>11, <2>4 DEF KeepsNewest, R
    <3>2. {m \in R : m > x} \in SUBSET newer  OBVIOUS
    <3>3. Cardinality({m \in R : m > x}) <= Cardinality(newer)
      BY <2>3, <3>2, FS_Subset
    <3>4. Cardinality({m \in R : m > x}) \in Nat
      BY <2>3, <3>2, FS_Subset, FS_CardinalityType
    <3>. QED  BY <1>2, <2>3, <3>1, <3>3, <3>4
  <2>5. CASE x \in ToSet(g \o q)
    <3>1. x \in ToSet(q) \ ToSet(p)  BY <1>3, <1>11, <2>5
    <3>2. Len(q) >= QueueSize /\ x = Head(q) /\ q # <<>>  BY <1>7, <1>8, <3>1
    <3>3. p = Tail(q)  BY <3>2 DEF p
    <3>4. ToSet(Append(p, n)) \in SUBSET newer
      BY <1>4, <1>6, <1>8, <1>9, <1>10, <3>1, <3>2, <3>3 DEF R
    <3>5. Cardinality(ToSet(Append(p, n))) = Len(Append(p, n))
      BY <1>10, AscendingCount
    <3>6. Len(Append(p, n)) = Len(q)
      <4>1. Len(Tail(q)) = Len(q) - 1  BY <3>2, HeadTailProperties
      <4>2. Len(Append(p, n)) = Len(p) + 1  BY <1>8, AppendProperties
      <4>. QED  BY <1>2, <3>3, <4>1, <4>2
    <3>7. Cardinality(ToSet(Append(p, n))) <= Cardinality(newer)
      BY <2>3, <3>4, FS_Subset
    <3>. QED  BY <1>2, <2>3, <3>2, <3>5, <3>6, <3>7
  <2>. QED  BY <2>4, <2>5
<1>14. ToSet(kept) \subseteq R \cup {n}  BY <1>8, <1>9, <1>11
<1>15. KeepsNewest(Append(r, n), kept)  BY <1>5, <1>12, <1>13, <1>14 DEF KeepsNewest
<1>. QED  BY <1>1, <1>15 DEF kept

LEMMA InitRoutedInv == RouterInit => RoutedInv
<1>. SUFFICES ASSUME RouterInit PROVE RoutedInv
  OBVIOUS
<1>1. RouterTypes  BY InitRouterTypes
<1>2. /\ DOMAIN idQueue = {} /\ direct = {} /\ Len(rxQueue) = 0
      /\ \A id \in Ids : routed[id] = <<>> /\ got[id] = <<>>
  BY EmptySeq DEF RouterInit, Init
<1>. QED
  BY <1>1, <1>2 DEF RoutedInv, QueuedInOrder, Unrouted, FromTaken, DirectTaken, RoutedComplete,
                    AllKeepNewest

LEMMA ReadMessageRoutes ==
  ASSUME HasHooks, RoutedInv, ReadMessage, UNCHANGED routerVars
  PROVE  RoutedInv'
<1>1. RouterTypes'  BY ReadMessageRouterTypes DEF RoutedInv
<1>. DEFINE T == [ch : 0 .. 4, n : Nat]
            f == [ch |-> Decoded(nRead + 1), n |-> nRead + 1]
<1>2. rxQueue' = Append(rxQueue, f) /\ nRead' = nRead + 1 /\ UNCHANGED sent
  BY DEF ReadMessage
<1>3. f \in T /\ f.n = nRead + 1 /\ f.ch = Decoded(nRead + 1) /\ rxQueue \in Seq(T)
  BY DecodeRange, TakenTyped DEF Decoded, RoutedInv, RouterTypes, RouterTypeOK, TypeOK
<1>. HIDE DEF T, f
<1>4. /\ Len(Append(rxQueue, f)) = Len(rxQueue) + 1
      /\ \A i \in 1 .. Len(rxQueue) : Append(rxQueue, f)[i] = rxQueue[i]
      /\ Append(rxQueue, f)[Len(rxQueue) + 1] = f
  BY <1>3, AppendProperties
<1>5. Taken' = Taken /\ Taken \in Nat /\ Taken + (Len(rxQueue) + 1) = nRead + 1
  BY <1>2, <1>4, TakenTyped DEF Taken, RoutedInv
<1>6. QueuedInOrder'
  <2>. SUFFICES ASSUME NEW i \in 1 .. Len(rxQueue')
                PROVE  rxQueue'[i].n = Taken + i /\ rxQueue'[i].ch = Decoded(Taken + i)
    BY <1>2, <1>5 DEF QueuedInOrder, Decoded
  <2>1. CASE i = Len(rxQueue) + 1  BY <1>2, <1>3, <1>4, <1>5, <2>1
  <2>2. CASE i # Len(rxQueue) + 1
    <3>1. i \in 1 .. Len(rxQueue)  BY <1>2, <1>4, <2>2, TakenTyped DEF RoutedInv
    <3>. QED  BY <1>2, <1>4, <3>1 DEF RoutedInv, QueuedInOrder
  <2>. QED  BY <2>1, <2>2
<1>7. RoutedComplete'
  BY <1>2, <1>5 DEF RoutedInv, RoutedComplete, routerVars, Decoded
<1>. QED
  BY <1>1, <1>5, <1>6, <1>7
  DEF RoutedInv, Unrouted, FromTaken, DirectTaken, AllKeepNewest, routerVars

LEMMA BusFrameRoutes ==
  ASSUME RoutedInv, NEW f \in Frame, BusFrame(f), UNCHANGED routerVars
  PROVE  RoutedInv'
<1>1. RouterTypes'  BY BusFrameRouterTypes DEF RoutedInv
<1>2. UNCHANGED <<nRead, rxQueue>>  BY DEF BusFrame
<1>3. Taken' = Taken /\ Taken \in Nat /\ Taken <= nRead /\ nRead \in Nat
      /\ Taken + Len(rxQueue) = nRead /\ Len(rxQueue) \in Nat
  BY <1>2, TakenTyped DEF Taken, RoutedInv
<1>4. \A n \in 1 .. nRead : sent'[n] = sent[n] /\ Decoded(n)' = Decoded(n)
  BY ReadFramesStay DEF RoutedInv, RouterTypes, RouterTypeOK
<1>5. QueuedInOrder'
  <2>1. \A i \in 1 .. Len(rxQueue) : Taken + i \in 1 .. nRead  BY <1>3
  <2>. QED  BY <1>2, <1>3, <1>4, <2>1 DEF RoutedInv, QueuedInOrder
<1>6. \A id \in DOMAIN idQueue : Due(id)' = Due(id)
  <2>1. \A id \in DOMAIN idQueue : routedFrom[id] .. Taken \subseteq 1 .. nRead
    BY <1>3 DEF RoutedInv, FromTaken
  <2>. QED  BY <1>3, <1>4, <2>1 DEF Due, routerVars
<1>7. RoutedComplete'
  BY <1>6 DEF RoutedInv, RoutedComplete, routerVars, Due
<1>. QED
  BY <1>1, <1>3, <1>5, <1>7
  DEF RoutedInv, Unrouted, FromTaken, DirectTaken, AllKeepNewest, routerVars

LEMMA RouteRoutes ==
  ASSUME RoutedInv, Route
  PROVE  RoutedInv'
<1>1. RouterTypes'  BY RouteTypes DEF RoutedInv
<1>0. PICK n, id : n = Taken + 1 /\ id = sent[n].can_id  OBVIOUS
<1>2. /\ rxQueue # <<>> /\ rxQueue' = Tail(rxQueue)
      /\ UNCHANGED <<sent, nRead, routedFrom, got, direct>>
  BY DEF Route
<1>3. /\ Head(rxQueue).n = n /\ Head(rxQueue).ch = Decoded(n)
      /\ Taken' = n /\ QueuedInOrder'
  BY <1>0, <1>2, HeadInOrder DEF RoutedInv
<1>4. Taken \in Nat /\ n \in Nat /\ n = Taken + 1  BY <1>0, TakenTyped DEF RoutedInv
<1>5. CASE Decoded(n) = RouterChannel /\ id \in DOMAIN idQueue
  <2>1. /\ idQueue' = [idQueue EXCEPT ![id] = DropOldest(@, n)]
        /\ routed' = [routed EXCEPT ![id] = Append(@, n)]
    BY <1>0, <1>3, <1>5 DEF Route, ForRouter
  <2>2. /\ id \in Ids /\ routed \in [Ids -> Seq(Nat)]
        /\ \A d \in DOMAIN idQueue : /\ d \in Ids /\ routed[d] \in Seq(Nat)
                                     /\ got[d] \in Seq(Nat) /\ idQueue[d] \in Seq(Nat)
    BY <1>5 DEF RoutedInv, RouterTypes, RouterTypeOK
  <2>3. /\ Due(id)' = Due(id) \cup {n}
        /\ \A d \in DOMAIN idQueue \ {id} : Due(d)' = Due(d)
    <3>1. \A d \in DOMAIN idQueue : routedFrom[d] .. n = (routedFrom[d] .. Taken) \cup {n}
      BY <1>4 DEF RoutedInv, FromTaken
    <3>2. n \notin direct  BY <1>4 DEF RoutedInv, DirectTaken
    <3>. QED  BY <1>0, <1>2, <1>3, <1>5, <3>1, <3>2 DEF Due, Decoded
  <2>4. \A d \in DOMAIN idQueue : Lists(routed[d], Due(d))
    BY DEF RoutedInv, RoutedComplete, Due
  <2>5. \A m \in Due(id) : m < n
    BY <1>4, <1>5 DEF RoutedInv, FromTaken, Due
  <2>6. Lists(Append(routed[id], n), Due(id) \cup {n})
    BY <1>4, <1>5, <2>2, <2>4, <2>5, AppendNewest
  <2>7. /\ DOMAIN idQueue' = DOMAIN idQueue /\ routed'[id] = Append(routed[id], n)
        /\ idQueue'[id] = DropOldest(idQueue[id], n)
        /\ \A d \in DOMAIN idQueue \ {id} : idQueue'[d] = idQueue[d]
        /\ \A d \in Ids \ {id} : routed'[d] = routed[d]
    BY <1>5, <2>1, <2>2
  <2>8. \A d \in DOMAIN idQueue' : Lists(routed'[d], Due(d)')
    BY <1>5, <2>2, <2>3, <2>4, <2>6, <2>7
  <2>9. RoutedComplete'  BY <2>8 DEF RoutedComplete, Due
  <2>10. KeepsNewest(Append(routed[id], n), got[id] \o DropOldest(idQueue[id], n))
    <3>1. Ascending(routed[id]) /\ \A m \in ToSet(routed[id]) : m < n
      BY <1>5, <2>4, <2>5 DEF Lists
    <3>. QED  BY <1>4, <1>5, <2>2, <3>1, DropOldestKeeps DEF RoutedInv, AllKeepNewest
  <2>11. AllKeepNewest'
    BY <1>2, <1>5, <2>2, <2>7, <2>10 DEF RoutedInv, AllKeepNewest, KeepsNewest
  <2>12. Unrouted'
    <3>1. \A d \in Ids \ DOMAIN idQueue' :
            d \in Ids \ DOMAIN idQueue /\ routed'[d] = routed[d] /\ got'[d] = got[d]
      BY <1>2, <1>5, <2>7
    <3>. QED  BY <3>1 DEF RoutedInv, Unrouted
  <2>13. FromTaken' /\ DirectTaken'
    BY <1>2, <1>3, <1>4, <2>7 DEF RoutedInv, FromTaken, DirectTaken
  <2>. QED  BY <1>1, <1>3, <2>9, <2>11, <2>12, <2>13 DEF RoutedInv
<1>6. CASE ~(Decoded(n) = RouterChannel /\ id \in DOMAIN idQueue)
  <2>1. UNCHANGED <<idQueue, routed>>  BY <1>0, <1>3, <1>6 DEF Route, ForRouter
  <2>2. \A d \in DOMAIN idQueue : Due(d)' = Due(d)
    <3>1. \A d \in DOMAIN idQueue : routedFrom[d] .. n = (routedFrom[d] .. Taken) \cup {n}
      BY <1>4 DEF RoutedInv, FromTaken
    <3>. QED  BY <1>0, <1>2, <1>3, <1>6, <3>1 DEF Due, Decoded
  <2>3. RoutedComplete'  BY <2>1, <2>2 DEF RoutedInv, RoutedComplete, Due
  <2>4. FromTaken' /\ DirectTaken'
    BY <1>2, <1>3, <1>4, <2>1 DEF RoutedInv, FromTaken, DirectTaken
  <2>. QED
    BY <1>1, <1>2, <1>3, <2>1, <2>3, <2>4 DEF RoutedInv, Unrouted, AllKeepNewest, KeepsNewest
<1>. QED  BY <1>5, <1>6

LEMMA DirectRecvRoutes ==
  ASSUME RoutedInv, DirectRecv
  PROVE  RoutedInv'
<1>1. RouterTypes'  BY RouterStepTypes DEF RoutedInv, RouterNext
<1>. DEFINE n == Taken + 1
<1>2. /\ rxQueue # <<>> /\ rxQueue' = Tail(rxQueue)
      /\ UNCHANGED <<sent, nRead, routedFrom, got, idQueue, routed>>
  BY DEF DirectRecv
<1>3. /\ Head(rxQueue).n = n /\ Taken' = n /\ QueuedInOrder'
  BY <1>2, HeadInOrder DEF RoutedInv
<1>4. direct' = direct \cup {n}  BY <1>3 DEF DirectRecv
<1>5. Taken \in Nat /\ n \in Nat  BY TakenTyped DEF RoutedInv
<1>6. \A d \in DOMAIN idQueue : Due(d)' = Due(d)
  <2>1. \A d \in DOMAIN idQueue : /\ routedFrom[d] .. n = (routedFrom[d] .. Taken) \cup {n}
                                  /\ n \notin routedFrom[d] .. Taken
    BY <1>5 DEF RoutedInv, FromTaken
  <2>. QED  BY <1>2, <1>3, <1>4, <2>1 DEF Due, Decoded
<1>7. RoutedComplete'  BY <1>2, <1>6 DEF RoutedInv, RoutedComplete, Due
<1>8. FromTaken' /\ DirectTaken'
  BY <1>2, <1>3, <1>4, <1>5 DEF RoutedInv, FromTaken, DirectTaken
<1>. QED
  BY <1>1, <1>2, <1>3, <1>7, <1>8 DEF RoutedInv, Unrouted, AllKeepNewest, KeepsNewest

LEMMA GetQueueRoutes ==
  ASSUME RoutedInv, NEW id \in Ids, GetQueue(id)
  PROVE  RoutedInv'
<1>1. RouterTypes'  BY RouterStepTypes DEF RoutedInv, RouterNext
<1>2. /\ id \notin DOMAIN idQueue /\ DOMAIN idQueue' = DOMAIN idQueue \cup {id}
      /\ idQueue'[id] = <<>> /\ \A d \in DOMAIN idQueue : idQueue'[d] = idQueue[d]
      /\ routedFrom'[id] = Taken + 1 /\ \A d \in DOMAIN idQueue : routedFrom'[d] = routedFrom[d]
      /\ UNCHANGED <<sent, nRead, rxQueue, routed, got, direct>>
  BY DEF GetQueue, RoutedInv, RouterTypes, RouterTypeOK, vars, recvVars
<1>3. routed[id] = <<>> /\ got[id] = <<>>  BY <1>2 DEF RoutedInv, Unrouted
<1>4. Taken' = Taken /\ Taken \in Nat  BY <1>2, TakenTyped DEF Taken, RoutedInv
<1>5. QueuedInOrder'  BY <1>2, <1>4 DEF RoutedInv, QueuedInOrder, Decoded
<1>6. RoutedComplete'
  <2>1. Taken + 1 .. Taken = {}  BY <1>4
  <2>2. Lists(routed[id], Due(id)')
    BY <1>2, <1>3, <1>4, <2>1, NoMembers DEF Lists, Ascending, Due
  <2>3. \A d \in DOMAIN idQueue : Due(d)' = Due(d)
    BY <1>2, <1>4 DEF Due, Decoded
  <2>4. \A d \in DOMAIN idQueue' : Lists(routed'[d], Due(d)')
    BY <1>2, <2>2, <2>3 DEF RoutedInv, RoutedComplete, Due
  <2>. QED  BY <2>4 DEF RoutedComplete, Due
<1>7. AllKeepNewest'
  <2>1. got[id] \o idQueue'[id] = <<>>  BY <1>2, <1>3, ConcatEmptySeq, EmptySeq
  <2>2. KeepsNewest(routed[id], <<>>)
    BY <1>3, NoMembers DEF KeepsNewest, Ascending
  <2>. QED  BY <1>2, <2>1, <2>2 DEF RoutedInv, AllKeepNewest, KeepsNewest
<1>8. Unrouted' /\ FromTaken' /\ DirectTaken'
  BY <1>2, <1>4 DEF RoutedInv, Unrouted, FromTaken, DirectTaken
<1>. QED  BY <1>1, <1>5, <1>6, <1>7, <1>8 DEF RoutedInv

LEMMA RoutedRecvRoutes ==
  ASSUME RoutedInv, NEW id \in Ids, RoutedRecv(id)
  PROVE  RoutedInv'
<1>1. RouterTypes'  BY RouterStepTypes DEF RoutedInv, RouterNext
<1>2. /\ id \in DOMAIN idQueue /\ idQueue[id] # <<>>
      /\ idQueue[id] \in Seq(Nat) /\ got[id] \in Seq(Nat)
      /\ DOMAIN idQueue' = DOMAIN idQueue
      /\ got'[id] = Append(got[id], Head(idQueue[id])) /\ idQueue'[id] = Tail(idQueue[id])
      /\ \A d \in DOMAIN idQueue \ {id} : idQueue'[d] = idQueue[d]
      /\ \A d \in Ids \ {id} : got'[d] = got[d]
      /\ DOMAIN idQueue \subseteq Ids
      /\ UNCHANGED <<sent, nRead, rxQueue, routed, routedFrom, direct>>
  BY DEF RoutedRecv, RoutedInv, RouterTypes, RouterTypeOK, vars, recvVars
<1>3. Taken' = Taken  BY <1>2 DEF Taken
<1>4. got'[id] \o idQueue'[id] = got[id] \o idQueue[id]
  BY <1>2, TakeHead
<1>5. \A d \in DOMAIN idQueue : got'[d] \o idQueue'[d] = got[d] \o idQueue[d]
  BY <1>2, <1>4
<1>6. AllKeepNewest'  BY <1>2, <1>5 DEF RoutedInv, AllKeepNewest, KeepsNewest
<1>7. RoutedComplete'  BY <1>2, <1>3 DEF RoutedInv, RoutedComplete, Decoded
<1>8. QueuedInOrder'  BY <1>2, <1>3 DEF RoutedInv, QueuedInOrder, Decoded
<1>9. Unrouted' /\ FromTaken' /\ DirectTaken'
  BY <1>2, <1>3 DEF RoutedInv, Unrouted, FromTaken, DirectTaken
<1>. QED  BY <1>1, <1>6, <1>7, <1>8, <1>9 DEF RoutedInv

LEMMA RouterStepRoutes ==
  ASSUME HasHooks, RoutedInv, [RouterNext]_allVars
  PROVE  RoutedInv'
<1>1. ASSUME UNCHANGED <<vars, idQueue, routed, routedFrom, got, direct>> PROVE RoutedInv'
  <2>1. RouterTypes'  BY RouterStepTypes DEF RoutedInv
  <2>2. UNCHANGED <<sent, nRead, rxQueue>>  BY <1>1 DEF vars, recvVars
  <2>3. Taken' = Taken  BY <2>2 DEF Taken
  <2>4. RoutedComplete' /\ QueuedInOrder'
    BY <1>1, <2>2, <2>3 DEF RoutedInv, RoutedComplete, QueuedInOrder, Decoded
  <2>. QED
    BY <1>1, <2>1, <2>3, <2>4
    DEF RoutedInv, Unrouted, FromTaken, DirectTaken, AllKeepNewest, KeepsNewest
<1>2. CASE Start \/ Stop \/ StopReturns \/ LoopTop
  BY <1>1, <1>2 DEF Start, Stop, StopReturns, LoopTop
<1>3. CASE UNCHANGED allVars  BY <1>1, <1>3 DEF allVars, routerVars
<1>. QED
  BY <1>2, <1>3, ReadMessageRoutes, BusFrameRoutes, RouteRoutes, DirectRecvRoutes,
     GetQueueRoutes, RoutedRecvRoutes DEF RouterNext

LEMMA RoutedInvHolds ==
  ASSUME HasHooks
  PROVE  RouterSpec => []RoutedInv
<1>1. RoutedInv /\ [RouterNext]_allVars => RoutedInv'  BY RouterStepRoutes
<1>. QED  BY <1>1, InitRoutedInv, PTL DEF RouterSpec

\* On a device that open() made, a connection's queue is given every frame of its
\* identifier on the router's channel that the router took from the device.
THEOREM RouterIsComplete == HasHooks /\ RouterSpec => []RoutedComplete
<1>. SUFFICES ASSUME HasHooks PROVE RouterSpec => []RoutedComplete
  OBVIOUS
<1>1. RouterSpec => []RoutedInv  BY RoutedInvHolds
<1>2. RoutedInv => RoutedComplete  BY DEF RoutedInv
<1>. QED  BY <1>1, <1>2, PTL

\* On such a device a connection misses one of those frames only if QueueSize
\* newer ones came for it, and reads the others in the bus's order.
THEOREM OnlyOverflowLoses == HasHooks /\ RouterSpec => []LostOnlyToOverflow
<1>. SUFFICES ASSUME HasHooks PROVE RouterSpec => []LostOnlyToOverflow
  OBVIOUS
<1>1. RouterSpec => []RoutedInv  BY RoutedInvHolds
<1>2. RoutedInv => LostOnlyToOverflow
  BY DEF RoutedInv, AllKeepNewest, KeepsNewest, LostOnlyToOverflow
<1>. QED  BY <1>1, <1>2, PTL

-----------------------------------------------------------------------------
(* stop() *)

\* After stop() set the event the task cannot reach receive_can again.
StoppedBeforeRecv == routerTask = "recv" => ~stopSet

\* Once stop() returned, the router puts no frame into a queue, whoever starts
\* it again.
THEOREM StoppedRoutesNothing == RouterSpec => NothingRoutedAfterStop
<1>1. RouterInit => StoppedBeforeRecv  BY DEF RouterInit, StoppedBeforeRecv
<1>2. ASSUME StoppedBeforeRecv, [RouterNext]_allVars
      PROVE  StoppedBeforeRecv' /\ (stopSet /\ ~stopping => UNCHANGED routed)
  <2>1. CASE Route  BY <1>2, <2>1 DEF Route, StoppedBeforeRecv
  <2>2. CASE Start \/ Stop \/ StopReturns \/ LoopTop
    BY <1>2, <2>2 DEF Start, Stop, StopReturns, LoopTop, StoppedBeforeRecv
  <2>3. ASSUME UNCHANGED <<routerTask, stopSet, routed>>
        PROVE  StoppedBeforeRecv' /\ UNCHANGED routed
    BY <1>2, <2>3 DEF StoppedBeforeRecv
  <2>4. CASE UNCHANGED routerVars  BY <2>3, <2>4 DEF routerVars
  <2>5. CASE DirectRecv  BY <2>3, <2>5 DEF DirectRecv
  <2>6. ASSUME NEW id \in Ids, GetQueue(id) \/ RoutedRecv(id)
        PROVE  StoppedBeforeRecv' /\ UNCHANGED routed
    BY <2>3, <2>6 DEF GetQueue, RoutedRecv
  <2>7. CASE UNCHANGED allVars  BY <2>4, <2>7 DEF allVars
  <2>. QED  BY <1>2, <2>1, <2>2, <2>4, <2>5, <2>6, <2>7 DEF RouterNext
<1>3. StoppedBeforeRecv /\ [RouterNext]_allVars
        => StoppedBeforeRecv' /\ [stopSet /\ ~stopping => UNCHANGED routed]_allVars
  BY <1>2
<1>. QED  BY <1>1, <1>3, PTL DEF RouterSpec, NothingRoutedAfterStop
=============================================================================
