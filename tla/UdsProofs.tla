------------------------------ MODULE UdsProofs ------------------------------
(***************************************************************************)
(* What Uds guarantees about answers, for any services and any number of   *)
(* requests, pending responses and losses.                                 *)
(***************************************************************************)
EXTENDS Uds, SequencesExt, SequenceTheorems, FiniteSetTheorems, TLAPS

UdsPdu == [kind : {"request", "positive", "negative", "pending"}, no : Nat \ {0},
           sid : Services, long : BOOLEAN]
Entry == [pdu : UdsPdu, whole : BOOLEAN]
Outcome == [how : {"timeout", "raised", "unexpected", "answer"}, no : Nat]

-----------------------------------------------------------------------------
(* What a channel does to the PDUs on their way *)

\* t holds some of the PDUs of s, in the same order.
Thins(t, s) ==
  \E f \in [DOMAIN t -> DOMAIN s] :
    /\ \A i, j \in DOMAIN t : i < j => f[i] < f[j]
    /\ \A i \in DOMAIN t : t[i].pdu = s[f[i]].pdu

LEMMA SameThins == ASSUME NEW s PROVE Thins(s, s)
<1>. DEFINE f == [i \in DOMAIN s |-> i]
<1>1. f \in [DOMAIN s -> DOMAIN s] /\ \A i \in DOMAIN s : f[i] = i  OBVIOUS
<1>. HIDE DEF f
<1>. QED  BY <1>1 DEF Thins

LEMMA TailThins ==
  ASSUME NEW s \in Seq(Entry), s # <<>>
  PROVE  Thins(Tail(s), s) /\ Tail(s) \in Seq(Entry) /\ Head(s) \in Entry /\ Head(s) = s[1]
         /\ 1 \in DOMAIN s /\ DOMAIN s = 1 .. Len(s)
         /\ \A i \in DOMAIN Tail(s) : i + 1 \in DOMAIN s /\ Tail(s)[i] = s[i + 1] /\ 1 < i + 1
<1>. DEFINE t == Tail(s)
<1>1. /\ Head(s) \in Entry /\ Head(s) = s[1] /\ t \in Seq(Entry) /\ Len(t) = Len(s) - 1
      /\ \A i \in 1 .. Len(t) : t[i] = s[i + 1]
      /\ Len(s) \in Nat \ {0} /\ DOMAIN s = 1 .. Len(s) /\ DOMAIN t = 1 .. Len(t)
  BY HeadTailProperties, EmptySeq, LenProperties
<1>2. \A i \in DOMAIN t : i + 1 \in DOMAIN s /\ t[i] = s[i + 1] /\ 1 < i + 1 /\ i \in Int  BY <1>1
<1>3. 1 \in DOMAIN s  BY <1>1
<1>. HIDE DEF t
<1>4. Thins(t, s)
  <2>. DEFINE f == [i \in DOMAIN t |-> i + 1]
  <2>1. f \in [DOMAIN t -> DOMAIN s]  BY <1>2
  <2>2. \A i, j \in DOMAIN t : i < j => f[i] < f[j]  BY <1>2
  <2>3. \A i \in DOMAIN t : t[i].pdu = s[f[i]].pdu  BY <1>2
  <2>. HIDE DEF f
  <2>. QED  BY <2>1, <2>2, <2>3 DEF Thins
<1>. QED  BY <1>1, <1>2, <1>3, <1>4 DEF t

LEMMA RemoveThins ==
  ASSUME NEW s \in Seq(Entry), NEW k \in DOMAIN s
  PROVE  Thins(RemoveAt(s, k), s) /\ RemoveAt(s, k) \in Seq(Entry)
<1>. DEFINE a == SubSeq(s, 1, k - 1)
            b == SubSeq(s, k + 1, Len(s))
            t == RemoveAt(s, k)
<1>1. Len(s) \in Nat /\ DOMAIN s = 1 .. Len(s) /\ k \in 1 .. Len(s)  BY LenProperties
<1>2. /\ a \in Seq(Entry) /\ Len(a) = k - 1 /\ \A i \in 1 .. k - 1 : a[i] = s[i]
  <2>1. \A i \in 1 .. k - 1 : s[i] \in Entry  BY <1>1, ElementOfSeq
  <2>2. Len(a) = IF 1 <= k - 1 THEN k - 1 - 1 + 1 ELSE 0
    BY <1>1, <2>1, SubSeqProperties
  <2>3. a \in Seq(Entry) /\ \A i \in 1 .. k - 1 - 1 + 1 : a[i] = s[1 + i - 1]
    BY <1>1, <2>1, SubSeqProperties
  <2>. QED  BY <1>1, <2>2, <2>3
<1>3. /\ b \in Seq(Entry) /\ Len(b) = Len(s) - k
      /\ \A i \in 1 .. Len(s) - k : b[i] = s[k + i]
  <2>1. \A i \in k + 1 .. Len(s) : s[i] \in Entry  BY <1>1, ElementOfSeq
  <2>2. Len(b) = IF k + 1 <= Len(s) THEN Len(s) - (k + 1) + 1 ELSE 0
    BY <1>1, <2>1, SubSeqProperties
  <2>3. b \in Seq(Entry) /\ \A i \in 1 .. Len(s) - (k + 1) + 1 : b[i] = s[k + 1 + i - 1]
    BY <1>1, <2>1, SubSeqProperties
  <2>. QED  BY <1>1, <2>2, <2>3
<1>4. t = a \o b  BY DEF RemoveAt
<1>. HIDE DEF a, b, t
<1>5. /\ t \in Seq(Entry) /\ Len(t) = Len(s) - 1
      /\ \A i \in 1 .. Len(a) + Len(b) : t[i] = IF i <= Len(a) THEN a[i] ELSE b[i - Len(a)]
  <2>1. /\ t \in Seq(Entry) /\ Len(t) = Len(a) + Len(b)
        /\ \A i \in 1 .. Len(a) + Len(b) : t[i] = IF i <= Len(a) THEN a[i] ELSE b[i - Len(a)]
    BY <1>2, <1>3, <1>4, ConcatProperties
  <2>2. Len(a) + Len(b) = Len(s) - 1  BY <1>1, <1>2, <1>3
  <2>. QED  BY <2>1, <2>2
<1>6. DOMAIN t = 1 .. Len(s) - 1  BY <1>5, LenProperties
<1>7. ASSUME NEW i \in DOMAIN t PROVE t[i] = IF i < k THEN s[i] ELSE s[i + 1]
  <2>1. i \in 1 .. Len(a) + Len(b)  BY <1>1, <1>2, <1>3, <1>6
  <2>2. CASE i < k
    <3>1. i \in 1 .. k - 1 /\ i <= Len(a)  BY <1>1, <1>2, <1>6, <2>2
    <3>. QED  BY <1>2, <1>5, <2>1, <2>2, <3>1
  <2>3. CASE ~(i < k)
    <3>1. ~(i <= Len(a)) /\ i - Len(a) \in 1 .. Len(s) - k /\ k + (i - Len(a)) = i + 1
      BY <1>1, <1>2, <1>6, <2>3
    <3>. QED  BY <1>3, <1>5, <2>1, <2>3, <3>1
  <2>. QED  BY <2>2, <2>3
<1>8. Thins(t, s)
  <2>. DEFINE f == [i \in DOMAIN t |-> IF i < k THEN i ELSE i + 1]
  <2>1. f \in [DOMAIN t -> DOMAIN s]  BY <1>1, <1>6
  <2>2. \A i, j \in DOMAIN t : i < j => f[i] < f[j]  BY <1>1, <1>6
  <2>3. \A i \in DOMAIN t : t[i].pdu = s[f[i]].pdu  BY <1>7
  <2>. HIDE DEF f
  <2>. QED  BY <2>1, <2>2, <2>3 DEF Thins
<1>. QED  BY <1>5, <1>8 DEF t

LEMMA WholeThins ==
  ASSUME NEW s \in Seq(Entry), s # <<>>,
         NEW t, t = Append(Front(s), [pdu |-> Last(s).pdu, whole |-> TRUE])
  PROVE  Thins(t, s) /\ t \in Seq(Entry)
<1>. DEFINE a == Front(s)
            e == [pdu |-> Last(s).pdu, whole |-> TRUE]
<1>1. PICK k \in Nat \ {0} : k = Len(s)  BY EmptySeq
<1>2. DOMAIN s = 1 .. k /\ k \in 1 .. k /\ k - 1 \in Int  BY <1>1, LenProperties
<1>3. a \in Seq(Entry) /\ Len(a) = k - 1 /\ \A i \in 1 .. k - 1 : a[i] = s[i]
  <2>1. \A i \in 1 .. k - 1 : s[i] \in Entry  BY <1>1, ElementOfSeq
  <2>2. a = SubSeq(s, 1, k - 1)  BY <1>1 DEF Front
  <2>3. Len(a) = IF 1 <= k - 1 THEN k - 1 - 1 + 1 ELSE 0
    BY <1>2, <2>1, <2>2, SubSeqProperties
  <2>4. a \in Seq(Entry) /\ \A i \in 1 .. k - 1 - 1 + 1 : a[i] = s[1 + i - 1]
    BY <1>2, <2>1, <2>2, SubSeqProperties
  <2>. QED  BY <2>3, <2>4
<1>4. e \in Entry /\ e.pdu = s[k].pdu
  BY <1>1, <1>2, ElementOfSeq DEF Last, Entry
<1>. HIDE DEF a, e
<1>5. /\ t \in Seq(Entry) /\ Len(t) = k /\ DOMAIN t = 1 .. k
      /\ \A i \in 1 .. k - 1 : t[i] = a[i]
      /\ t[k] = e
  <2>1. /\ t \in Seq(Entry) /\ Len(t) = Len(a) + 1
        /\ \A i \in 1 .. Len(a) : t[i] = a[i]
        /\ t[Len(a) + 1] = e
    BY <1>3, <1>4, AppendProperties DEF a, e
  <2>2. k - 1 + 1 = k  OBVIOUS
  <2>3. Len(t) = k /\ t[k] = e /\ \A i \in 1 .. k - 1 : t[i] = a[i]  BY <1>3, <2>1, <2>2
  <2>. QED  BY <2>1, <2>3, LenProperties
<1>6. ASSUME NEW i \in DOMAIN s PROVE t[i].pdu = s[i].pdu
  <2>1. CASE i = k  BY <1>4, <1>5, <2>1
  <2>2. CASE i # k
    <3>1. i \in 1 .. k - 1  BY <1>2, <2>2
    <3>. QED  BY <1>3, <1>5, <3>1
  <2>. QED  BY <2>1, <2>2
<1>7. Thins(t, s)
  <2>. DEFINE f == [i \in DOMAIN t |-> i]
  <2>1. f \in [DOMAIN t -> DOMAIN s] /\ \A i \in DOMAIN t : f[i] = i  BY <1>2, <1>5
  <2>. HIDE DEF f
  <2>2. \A i, j \in DOMAIN t : i < j => f[i] < f[j]  BY <2>1
  <2>3. \A i \in DOMAIN t : t[i].pdu = s[f[i]].pdu  BY <1>2, <1>5, <1>6, <2>1
  <2>. QED  BY <2>1, <2>2, <2>3 DEF Thins
<1>. QED  BY <1>5, <1>7

-----------------------------------------------------------------------------
(* The order of requests and answers *)

Nos(s) == {s[i].pdu.no : i \in DOMAIN s}

RequestsRise(s) == \A i, j \in DOMAIN s : i < j => s[i].pdu.no < s[j].pdu.no

\* What the client would take for the answer to its request.
Final(e) == ~e.pdu.long /\ Answers(e.pdu)

AnswerNos(s) == {s[i].pdu.no : i \in {j \in DOMAIN s : Final(s[j])}}

AnswersRise(s) ==
  \A i, j \in DOMAIN s : i < j /\ Final(s[i]) /\ Final(s[j]) => s[i].pdu.no < s[j].pdu.no

LEMMA ThinsKeep ==
  ASSUME NEW s, NEW t, Thins(t, s)
  PROVE  /\ RequestsRise(s) => RequestsRise(t)
         /\ AnswersRise(s) => AnswersRise(t)
         /\ Nos(t) \subseteq Nos(s)
         /\ AnswerNos(t) \subseteq AnswerNos(s)
<1>1. PICK f \in [DOMAIN t -> DOMAIN s] :
        /\ \A i, j \in DOMAIN t : i < j => f[i] < f[j]
        /\ \A i \in DOMAIN t : t[i].pdu = s[f[i]].pdu
  BY DEF Thins
<1>2. \A i \in DOMAIN t : f[i] \in DOMAIN s /\ (Final(t[i]) <=> Final(s[f[i]]))
  BY <1>1 DEF Final
<1>3. RequestsRise(s) => RequestsRise(t)  BY <1>1, <1>2 DEF RequestsRise
<1>4. AnswersRise(s) => AnswersRise(t)  BY <1>1, <1>2 DEF AnswersRise
<1>5. Nos(t) \subseteq Nos(s)  BY <1>1, <1>2 DEF Nos
<1>6. AnswerNos(t) \subseteq AnswerNos(s)  BY <1>1, <1>2 DEF AnswerNos
<1>. QED  BY <1>3, <1>4, <1>5, <1>6

LEMMA AppendOrder ==
  ASSUME NEW s \in Seq(Entry), NEW e \in Entry
  PROVE  LET t == Append(s, e)
         IN  /\ t \in Seq(Entry)
             /\ Nos(t) \subseteq Nos(s) \cup {e.pdu.no}
             /\ AnswerNos(t) \subseteq AnswerNos(s) \cup {e.pdu.no}
             /\ ~Final(e) => AnswerNos(t) \subseteq AnswerNos(s)
             /\ RequestsRise(s) /\ (\A n \in Nos(s) : n < e.pdu.no) => RequestsRise(t)
             /\ AnswersRise(s) /\ (\A n \in AnswerNos(s) : n < e.pdu.no) => AnswersRise(t)
             /\ ~Final(e) /\ AnswersRise(s) => AnswersRise(t)
<1>. DEFINE t == Append(s, e)
<1>0. PICK k \in Nat : k = Len(s)  BY LenProperties
<1>1. /\ t \in Seq(Entry)
      /\ DOMAIN s = 1 .. k /\ DOMAIN t = 1 .. k + 1
      /\ \A i \in DOMAIN s : t[i] = s[i]
      /\ t[k + 1] = e
  BY <1>0, AppendProperties, LenProperties
<1>. HIDE DEF t
<1>2. ASSUME NEW i \in DOMAIN t PROVE (i \in DOMAIN s /\ t[i] = s[i]) \/ t[i] = e
  <2>1. i = k + 1 \/ i \in 1 .. k  BY <1>1
  <2>. QED  BY <1>1, <2>1
<1>3. ASSUME NEW i \in DOMAIN t, NEW j \in DOMAIN t, i < j PROVE i \in DOMAIN s
  BY <1>1, <1>3
<1>4. Nos(t) \subseteq Nos(s) \cup {e.pdu.no}  BY <1>2 DEF Nos
<1>5. AnswerNos(t) \subseteq AnswerNos(s) \cup {e.pdu.no}  BY <1>2 DEF AnswerNos
<1>6. ~Final(e) => AnswerNos(t) \subseteq AnswerNos(s)  BY <1>2 DEF AnswerNos
<1>7. RequestsRise(s) /\ (\A n \in Nos(s) : n < e.pdu.no) => RequestsRise(t)
  <2>. SUFFICES ASSUME RequestsRise(s), \A n \in Nos(s) : n < e.pdu.no,
                       NEW i \in DOMAIN t, NEW j \in DOMAIN t, i < j
                PROVE  t[i].pdu.no < t[j].pdu.no
    BY DEF RequestsRise
  <2>1. i \in DOMAIN s /\ t[i] = s[i]  BY <1>1, <1>3
  <2>2. CASE j \in DOMAIN s /\ t[j] = s[j]  BY <2>1, <2>2 DEF RequestsRise
  <2>3. CASE t[j] = e  BY <2>1, <2>3 DEF Nos
  <2>. QED  BY <1>2, <2>2, <2>3
<1>8. AnswersRise(s) /\ (~Final(e) \/ \A n \in AnswerNos(s) : n < e.pdu.no) => AnswersRise(t)
  <2>. SUFFICES ASSUME AnswersRise(s), ~Final(e) \/ \A n \in AnswerNos(s) : n < e.pdu.no,
                       NEW i \in DOMAIN t, NEW j \in DOMAIN t, i < j,
                       Final(t[i]), Final(t[j])
                PROVE  t[i].pdu.no < t[j].pdu.no
    BY DEF AnswersRise
  <2>1. i \in DOMAIN s /\ t[i] = s[i]  BY <1>1, <1>3
  <2>2. CASE j \in DOMAIN s /\ t[j] = s[j]  BY <2>1, <2>2 DEF AnswersRise
  <2>3. CASE t[j] = e
    <3>1. s[i].pdu.no \in AnswerNos(s)  BY <2>1 DEF AnswerNos
    <3>. QED  BY <2>1, <2>3, <3>1
  <2>. QED  BY <1>2, <2>2, <2>3
<1>. QED  BY <1>1, <1>4, <1>5, <1>6, <1>7, <1>8 DEF t

LEMMA HeadOrder ==
  ASSUME NEW s \in Seq(Entry), s # <<>>
  PROVE  LET e == Head(s)
         IN  /\ e \in Entry
             /\ e.pdu.no \in Nos(s)
             /\ Final(e) => e.pdu.no \in AnswerNos(s)
             /\ RequestsRise(s) => \A n \in Nos(Tail(s)) : e.pdu.no < n
             /\ AnswersRise(s) /\ Final(e) => \A n \in AnswerNos(Tail(s)) : e.pdu.no < n
<1>1. /\ Head(s) \in Entry /\ Head(s) = s[1] /\ 1 \in DOMAIN s
      /\ \A i \in DOMAIN Tail(s) : i + 1 \in DOMAIN s /\ Tail(s)[i] = s[i + 1] /\ 1 < i + 1
  BY TailThins
<1>2. s[1].pdu.no \in Nos(s) /\ (Final(s[1]) => s[1].pdu.no \in AnswerNos(s))
  BY <1>1 DEF Nos, AnswerNos
<1>3. RequestsRise(s) => \A n \in Nos(Tail(s)) : s[1].pdu.no < n
  BY <1>1 DEF RequestsRise, Nos
<1>4. AnswersRise(s) /\ Final(s[1]) => \A n \in AnswerNos(Tail(s)) : s[1].pdu.no < n
  BY <1>1 DEF AnswersRise, AnswerNos
<1>. QED  BY <1>1, <1>2, <1>3, <1>4

LEMMA NosTyped ==
  ASSUME NEW s \in Seq(Entry)
  PROVE  Nos(s) \subseteq Nat \ {0} /\ AnswerNos(s) \subseteq Nat \ {0}
<1>1. \A i \in DOMAIN s : s[i].pdu.no \in Nat \ {0}
  <2>. SUFFICES ASSUME NEW i \in DOMAIN s PROVE s[i].pdu.no \in Nat \ {0}
    OBVIOUS
  <2>1. s[i] \in Entry  BY LenProperties
  <2>. QED  BY <2>1 DEF Entry, UdsPdu
<1>. QED  BY <1>1 DEF Nos, AnswerNos
-----------------------------------------------------------------------------
(* The invariant *)

\* Calls come one after another, and the client's channel is used by the call
\* under way only.
Asking ==
  /\ asked \in Seq(Services) /\ outcomes \in Seq(Outcome)
  /\ Len(asked) = Len(outcomes) \/ Len(asked) = Len(outcomes) + 1
  /\ cTask # "idle" => Calling

ChannelTypes ==
  /\ toServer \in Seq(Entry) /\ toClient \in Seq(Entry)
  /\ handling \in UdsPdu \cup {NoRequest}

\* A request that was made and that neither its answer nor a later one's was
\* given out for.
Ahead(n) == n <= Len(asked) /\ \A r \in DOMAIN outcomes : outcomes[r].no < n

\* Whatever goes round is in the order of the requests: the answers that are on
\* their way, then the request being handled, then the requests on their way.
InFlight ==
  /\ RequestsRise(toServer) /\ AnswersRise(toClient)
  /\ \A n \in Nos(toServer) \cup AnswerNos(toClient) : Ahead(n)
  /\ \A m \in AnswerNos(toClient), n \in Nos(toServer) : m < n
  /\ Handling =>
       /\ Ahead(handling.no)
       /\ \A m \in AnswerNos(toClient) : m < handling.no
       /\ \A n \in Nos(toServer) : handling.no < n

GivenOut ==
  /\ \A r \in DOMAIN outcomes : outcomes[r].no <= r /\ (outcomes[r].no = 0 <=> GaveUp(r))
  /\ \A q, r \in DOMAIN outcomes :
       q < r /\ outcomes[q].no # 0 /\ outcomes[r].no # 0 => outcomes[q].no < outcomes[r].no

IInv == Asking /\ ChannelTypes /\ InFlight /\ GivenOut

\* The server's loop receives between two requests only.
Listening == sTask \in {"receiving", "assembling"} => ~Handling

LEMMA InitInv == Init => IInv
<1>. SUFFICES ASSUME Init PROVE IInv
  OBVIOUS
<1>1. asked = <<>> /\ outcomes = <<>> /\ toServer = <<>> /\ toClient = <<>>
      /\ cTask = "idle" /\ ~Handling /\ handling = NoRequest
  BY DEF Init, Handling
<1>2. Asking  BY <1>1, EmptySeq DEF Asking
<1>3. ChannelTypes  BY <1>1, EmptySeq DEF ChannelTypes
<1>4. InFlight
  <2>1. \A x \in DOMAIN <<>> : FALSE  OBVIOUS
  <2>. QED  BY <1>1, <2>1 DEF InFlight, RequestsRise, AnswersRise, Nos, AnswerNos
<1>5. GivenOut  BY <1>1 DEF GivenOut
<1>. QED  BY <1>2, <1>3, <1>4, <1>5 DEF IInv

\* Steps that give nothing out and put nothing on its way.
LEMMA ThinStep ==
  ASSUME IInv,
         toServer' \in Seq(Entry), Thins(toServer', toServer),
         toClient' \in Seq(Entry), Thins(toClient', toClient),
         handling' \in {handling, NoRequest}, UNCHANGED client,
         cTask' # "idle" => Calling
  PROVE  IInv'
<1>. USE DEF IInv
<1>1. asked' = asked /\ outcomes' = outcomes  BY DEF client
<1>2. Asking'  BY <1>1 DEF Asking, Calling
<1>3. ChannelTypes'  BY DEF ChannelTypes
<1>4. /\ RequestsRise(toServer) => RequestsRise(toServer')
      /\ Nos(toServer') \subseteq Nos(toServer)
      /\ AnswersRise(toClient) => AnswersRise(toClient')
      /\ AnswerNos(toClient') \subseteq AnswerNos(toClient)
  BY ThinsKeep
<1>5. Handling' => Handling /\ handling' = handling  BY DEF Handling
<1>6. \A n : Ahead(n)' <=> Ahead(n)  BY <1>1 DEF Ahead
<1>7. InFlight'  BY <1>1, <1>4, <1>5, <1>6 DEF InFlight, Ahead
<1>8. GivenOut'  BY <1>1 DEF GivenOut, GaveUp
<1>. QED  BY <1>2, <1>3, <1>7, <1>8

\* The end of the client's call: what it gives out is behind everything that is
\* still on its way.
LEMMA OutcomeStep ==
  ASSUME IInv, Calling, UNCHANGED <<toServer, handling>>,
         toClient' \in Seq(Entry), Thins(toClient', toClient),
         cTask' = "idle",
         NEW o \in Outcome, outcomes' = Append(outcomes, o), asked' = asked,
         o.no = 0 <=> o.how \in {"timeout", "raised"},
         o.no # 0 => /\ Ahead(o.no)
                     /\ \A m \in AnswerNos(toClient') : o.no < m
                     /\ \A n \in Nos(toServer) : o.no < n
                     /\ Handling => o.no < handling.no
  PROVE  IInv'
<1>. USE DEF IInv
<1>1. PICK k \in Nat : k = Len(outcomes)  BY LenProperties DEF Asking
<1>2. Len(asked) = k + 1  BY <1>1 DEF Asking, Calling
<1>3. /\ outcomes' \in Seq(Outcome) /\ DOMAIN outcomes = 1 .. k
      /\ Len(outcomes') = k + 1 /\ DOMAIN outcomes' = 1 .. k + 1
      /\ \A r \in 1 .. k : outcomes'[r] = outcomes[r]
      /\ outcomes'[k + 1] = o
  BY <1>1, AppendProperties, LenProperties DEF Asking
<1>4. Asking'
  <2>1. asked' \in Seq(Services) /\ Len(asked') = Len(outcomes')  BY <1>2, <1>3 DEF Asking
  <2>. QED  BY <1>3, <2>1 DEF Asking
<1>5. ChannelTypes'  BY DEF ChannelTypes
<1>6. /\ AnswersRise(toClient) => AnswersRise(toClient')
      /\ AnswerNos(toClient') \subseteq AnswerNos(toClient)
  BY ThinsKeep
<1>7. /\ Nos(toServer) \subseteq Nat \ {0} /\ AnswerNos(toClient') \subseteq Nat \ {0}
      /\ Handling => handling.no \in Nat \ {0}
      /\ o.no \in Nat
  BY NosTyped DEF ChannelTypes, Handling, UdsPdu, Outcome
<1>8. ASSUME NEW n \in Nat \ {0}, Ahead(n), o.no # 0 => o.no < n PROVE Ahead(n)'
  <2>1. n <= Len(asked') /\ o.no < n  BY <1>7, <1>8 DEF Ahead
  <2>2. ASSUME NEW r \in DOMAIN outcomes' PROVE outcomes'[r].no < n
    <3>1. r \in 1 .. k \/ r = k + 1  BY <1>3
    <3>. QED  BY <1>3, <1>8, <2>1, <3>1 DEF Ahead
  <2>. QED  BY <2>1, <2>2 DEF Ahead
<1>9. InFlight'
  <2>1. \A n \in Nos(toServer) \cup AnswerNos(toClient') : Ahead(n)'
    BY <1>6, <1>7, <1>8 DEF InFlight
  <2>2. Handling => Ahead(handling.no)'  BY <1>7, <1>8 DEF InFlight
  <2>3. Handling' <=> Handling  BY DEF Handling
  <2>. QED  BY <1>6, <2>1, <2>2, <2>3 DEF InFlight, Ahead
<1>10. GivenOut'
  <2>1. o.no <= k + 1  BY <1>2, <1>7 DEF Ahead
  <2>2. ASSUME NEW r \in DOMAIN outcomes'
        PROVE  outcomes'[r].no <= r /\ (outcomes'[r].no = 0 <=> GaveUp(r)')
    <3>1. r \in 1 .. k \/ r = k + 1  BY <1>3
    <3>. QED  BY <1>3, <2>1, <3>1 DEF GivenOut, GaveUp
  <2>3. ASSUME NEW q \in DOMAIN outcomes', NEW r \in DOMAIN outcomes', q < r,
               outcomes'[q].no # 0, outcomes'[r].no # 0
        PROVE  outcomes'[q].no < outcomes'[r].no
    <3>1. q \in 1 .. k /\ (r \in 1 .. k \/ r = k + 1)  BY <1>3, <2>3
    <3>2. CASE r \in 1 .. k  BY <1>3, <2>3, <3>1, <3>2 DEF GivenOut
    <3>3. CASE r = k + 1  BY <1>3, <2>3, <3>1, <3>3 DEF Ahead
    <3>. QED  BY <3>1, <3>2, <3>3
  <2>. QED  BY <2>2, <2>3 DEF GivenOut
<1>. QED  BY <1>4, <1>5, <1>9, <1>10

LEMMA RequestStep ==
  ASSUME IInv, ~Calling, UNCHANGED <<toClient, handling, outcomes>>,
         NEW sid \in Services, asked' = Append(asked, sid),
         NEW e \in Entry, e.pdu.no = Len(asked) + 1, toServer' = Append(toServer, e)
  PROVE  IInv'
<1>. USE DEF IInv
<1>1. PICK k \in Nat : k = Len(asked)  BY LenProperties DEF Asking
<1>2. asked' \in Seq(Services) /\ Len(asked') = k + 1
  BY <1>1, AppendProperties DEF Asking
<1>3. PICK j \in Nat : j = Len(outcomes)  BY LenProperties DEF Asking
<1>4. j = k /\ DOMAIN outcomes = 1 .. j  BY <1>1, <1>3, LenProperties DEF Asking, Calling
<1>5. Asking'  BY <1>2, <1>3, <1>4 DEF Asking, Calling
<1>6. /\ toServer' \in Seq(Entry)
      /\ Nos(toServer') \subseteq Nos(toServer) \cup {k + 1}
      /\ RequestsRise(toServer) /\ (\A n \in Nos(toServer) : n < k + 1)
           => RequestsRise(toServer')
  BY <1>1, AppendOrder DEF ChannelTypes
<1>7. ChannelTypes'  BY <1>6 DEF ChannelTypes
<1>8. /\ Nos(toServer) \subseteq Nat \ {0} /\ AnswerNos(toClient) \subseteq Nat \ {0}
      /\ Handling => handling.no \in Nat \ {0}
      /\ \A r \in DOMAIN outcomes : outcomes[r].no \in Nat
  <2>1. \A r \in DOMAIN outcomes : outcomes[r] \in Outcome
    BY <1>3, <1>4, ElementOfSeq DEF Asking
  <2>. QED  BY <2>1, NosTyped DEF ChannelTypes, Handling, UdsPdu, Outcome
<1>9. ASSUME NEW n \in Nat, Ahead(n) PROVE n < k + 1 /\ Ahead(n)'
  BY <1>1, <1>2, <1>9 DEF Ahead
<1>10. Ahead(k + 1)'
  <2>1. ASSUME NEW r \in DOMAIN outcomes PROVE outcomes[r].no < k + 1
    <3>1. outcomes[r].no <= r /\ r \in 1 .. k  BY <1>4 DEF GivenOut
    <3>. QED  BY <1>8, <3>1
  <2>. QED  BY <1>2, <2>1 DEF Ahead
<1>11. Handling' <=> Handling  BY DEF Handling
<1>12. InFlight'
  <2>1. \A n \in Nos(toServer) \cup AnswerNos(toClient) : n < k + 1 /\ Ahead(n)'
    BY <1>8, <1>9 DEF InFlight
  <2>2. Handling => handling.no < k + 1 /\ Ahead(handling.no)'  BY <1>8, <1>9 DEF InFlight
  <2>3. RequestsRise(toServer') /\ AnswersRise(toClient')  BY <1>6, <2>1 DEF InFlight
  <2>4. \A n \in Nos(toServer') \cup AnswerNos(toClient') : Ahead(n)'  BY <1>6, <1>10, <2>1
  <2>5. \A m \in AnswerNos(toClient'), n \in Nos(toServer') : m < n
    BY <1>6, <2>1 DEF InFlight
  <2>6. Handling' => /\ Ahead(handling.no)'
                     /\ \A m \in AnswerNos(toClient') : m < handling'.no
                     /\ \A n \in Nos(toServer') : handling'.no < n
    BY <1>6, <1>11, <2>2 DEF InFlight
  <2>. QED  BY <2>3, <2>4, <2>5, <2>6 DEF InFlight, Ahead
<1>13. GivenOut'  BY DEF GivenOut, GaveUp
<1>. QED  BY <1>5, <1>7, <1>12, <1>13

LEMMA TakeStep ==
  ASSUME IInv, ~Handling, toServer # <<>>,
         toServer' = Tail(toServer), handling' = Head(toServer).pdu,
         UNCHANGED <<toClient, client, cTask>>
  PROVE  IInv'
<1>. USE DEF IInv
<1>1. asked' = asked /\ outcomes' = outcomes  BY DEF client
<1>2. Asking'  BY <1>1 DEF Asking, Calling
<1>3. /\ Head(toServer) \in Entry /\ handling'.no \in Nos(toServer)
      /\ RequestsRise(toServer) => \A n \in Nos(toServer') : handling'.no < n
  BY HeadOrder DEF ChannelTypes
<1>4. toServer' \in Seq(Entry) /\ Thins(toServer', toServer)  BY TailThins DEF ChannelTypes
<1>5. ChannelTypes'  BY <1>3, <1>4 DEF ChannelTypes, Entry
<1>6. /\ RequestsRise(toServer) => RequestsRise(toServer')
      /\ Nos(toServer') \subseteq Nos(toServer)
  BY <1>4, ThinsKeep
<1>7. \A n : Ahead(n)' <=> Ahead(n)  BY <1>1 DEF Ahead
<1>8. InFlight'  BY <1>1, <1>3, <1>6, <1>7 DEF InFlight, Ahead
<1>9. GivenOut'  BY <1>1 DEF GivenOut, GaveUp
<1>. QED  BY <1>2, <1>5, <1>8, <1>9

LEMMA RespondStep ==
  ASSUME IInv, Handling, UNCHANGED <<toServer, client, cTask>>,
         NEW e \in Entry, e.pdu.no = handling.no, toClient' = Append(toClient, e),
         handling' \in {handling, NoRequest},
         Final(e) => handling' = NoRequest
  PROVE  IInv'
<1>. USE DEF IInv
<1>1. asked' = asked /\ outcomes' = outcomes  BY DEF client
<1>2. Asking'  BY <1>1 DEF Asking, Calling
<1>3. /\ toClient' \in Seq(Entry)
      /\ AnswerNos(toClient') \subseteq AnswerNos(toClient) \cup {handling.no}
      /\ ~Final(e) => AnswerNos(toClient') \subseteq AnswerNos(toClient)
      /\ AnswersRise(toClient) /\ (\A n \in AnswerNos(toClient) : n < handling.no)
           => AnswersRise(toClient')
  BY AppendOrder DEF ChannelTypes
<1>4. ChannelTypes'  BY <1>3 DEF ChannelTypes
<1>5. \A n : Ahead(n)' <=> Ahead(n)  BY <1>1 DEF Ahead
<1>6. InFlight'
  <2>1. Handling' => handling' = handling /\ ~Final(e)  BY DEF Handling
  <2>2. RequestsRise(toServer') /\ AnswersRise(toClient')  BY <1>3 DEF InFlight
  <2>3. \A n \in Nos(toServer') \cup AnswerNos(toClient') : Ahead(n)'
    BY <1>3, <1>5 DEF InFlight
  <2>4. \A m \in AnswerNos(toClient'), n \in Nos(toServer') : m < n
    BY <1>3 DEF InFlight
  <2>5. Handling' => /\ Ahead(handling.no)'
                     /\ \A m \in AnswerNos(toClient') : m < handling'.no
                     /\ \A n \in Nos(toServer') : handling'.no < n
    BY <1>3, <1>5, <2>1 DEF InFlight
  <2>. QED  BY <2>2, <2>3, <2>4, <2>5 DEF InFlight, Ahead
<1>7. GivenOut'  BY <1>1 DEF GivenOut, GaveUp
<1>. QED  BY <1>2, <1>4, <1>6, <1>7

\* What the operations of the two channels do to what is on its way.
LEMMA ChannelSteps ==
  ASSUME ChannelTypes
  PROVE  /\ Client!SendReturns =>
              /\ toServer' \in Seq(Entry) /\ Thins(toServer', toServer)
              /\ cTask' = "idle" /\ toClient' = toClient
         /\ Server!SendReturns =>
              toClient' \in Seq(Entry) /\ Thins(toClient', toClient) /\ toServer' = toServer
         /\ Client!SendTakes =>
              toClient' \in Seq(Entry) /\ Thins(toClient', toClient) /\ toServer' = toServer
         /\ Server!SendTakes =>
              toServer' \in Seq(Entry) /\ Thins(toServer', toServer) /\ toClient' = toClient
         /\ Client!RecvLong =>
              toClient' \in Seq(Entry) /\ Thins(toClient', toClient) /\ toServer' = toServer
         /\ Server!RecvLong =>
              toServer' \in Seq(Entry) /\ Thins(toServer', toServer) /\ toClient' = toClient
         /\ Client!RecvShort =>
              toClient' \in Seq(Entry) /\ Thins(toClient', toClient) /\ toServer' = toServer
         /\ Client!Lose =>
              toClient' \in Seq(Entry) /\ Thins(toClient', toClient) /\ toServer' = toServer
         /\ Server!Lose =>
              toServer' \in Seq(Entry) /\ Thins(toServer', toServer) /\ toClient' = toClient
<1>. toServer \in Seq(Entry) /\ toClient \in Seq(Entry)  BY DEF ChannelTypes
<1>1. Client!SendReturns =>
        /\ toServer' \in Seq(Entry) /\ Thins(toServer', toServer)
        /\ cTask' = "idle" /\ toClient' = toClient
  <2>1. CASE toServer # <<>> /\ ~Client!Last(toServer).whole
    BY <2>1, WholeThins
    DEF Client!SendReturns, Client!recvVars, Client!Front, Client!Last, Client!Whole, Front, Last
  <2>2. CASE ~(toServer # <<>> /\ ~Client!Last(toServer).whole)
    BY <2>2, SameThins DEF Client!SendReturns, Client!recvVars
  <2>. QED  BY <2>1, <2>2
<1>2. Server!SendReturns =>
        toClient' \in Seq(Entry) /\ Thins(toClient', toClient) /\ toServer' = toServer
  <2>1. CASE toClient # <<>> /\ ~Server!Last(toClient).whole
    BY <2>1, WholeThins
    DEF Server!SendReturns, Server!recvVars, Server!Front, Server!Last, Server!Whole, Front, Last
  <2>2. CASE ~(toClient # <<>> /\ ~Server!Last(toClient).whole)
    BY <2>2, SameThins DEF Server!SendReturns, Server!recvVars
  <2>. QED  BY <2>1, <2>2
<1>3. toServer # <<>> => Tail(toServer) \in Seq(Entry) /\ Thins(Tail(toServer), toServer)
  BY TailThins
<1>4. toClient # <<>> => Tail(toClient) \in Seq(Entry) /\ Thins(Tail(toClient), toClient)
  BY TailThins
<1>5. Client!Lose =>
        toClient' \in Seq(Entry) /\ Thins(toClient', toClient) /\ toServer' = toServer
  BY RemoveThins DEF Client!Lose, Client!RemoveAt, RemoveAt
<1>6. Server!Lose =>
        toServer' \in Seq(Entry) /\ Thins(toServer', toServer) /\ toClient' = toClient
  BY RemoveThins DEF Server!Lose, Server!RemoveAt, RemoveAt
<1>7. Client!SendTakes \/ Client!RecvLong \/ Client!RecvShort =>
        toClient' \in Seq(Entry) /\ Thins(toClient', toClient) /\ toServer' = toServer
  BY <1>4 DEF Client!SendTakes, Client!RecvLong, Client!RecvShort
<1>8. Server!SendTakes \/ Server!RecvLong =>
        toServer' \in Seq(Entry) /\ Thins(toServer', toServer) /\ toClient' = toClient
  BY <1>3 DEF Server!SendTakes, Server!RecvLong
<1>. QED  BY <1>1, <1>2, <1>5, <1>6, <1>7, <1>8

LEMMA ClientInv ==
  ASSUME IInv, ClientRuns PROVE IInv'
<1>. USE DEF IInv
<1>0. toServer \in Seq(Entry) /\ toClient \in Seq(Entry)  BY DEF ChannelTypes
<1>1. UNCHANGED handling /\ (cTask # "idle" => Calling)
  BY DEF ClientRuns, ClientSent, ClientSendFails, ClientReceives, ClientTimeout,
         ClientRecvFails, ClientPending, ClientAnswered, ServerSleeps, server, Asking
<1>2. ASSUME NEW how \in {"timeout", "raised"}, Ends(how, 0), cTask # "idle", cTask' = "idle",
             UNCHANGED toServer, toClient' \in Seq(Entry), Thins(toClient', toClient)
      PROVE  IInv'
  <2>. DEFINE o == [how |-> how, no |-> 0]
  <2>1. o \in Outcome /\ o.no = 0 /\ o.how \in {"timeout", "raised"}  BY DEF Outcome
  <2>2. outcomes' = Append(outcomes, o) /\ asked' = asked  BY <1>2 DEF Ends
  <2>. HIDE DEF o
  <2>. QED  BY <1>1, <1>2, <2>1, <2>2, OutcomeStep
<1>3. CASE ClientSent
  BY <1>0, <1>1, <1>3, ChannelSteps, SameThins, ThinStep DEF ClientSent
<1>4. CASE ClientSendFails
  <2>1. cTask # "idle" /\ cTask' = "idle" /\ UNCHANGED toServer /\ Ends("raised", 0)
    BY <1>4 DEF ClientSendFails, Client!SendRaises, Client!SendTakes
  <2>2. toClient' \in Seq(Entry) /\ Thins(toClient', toClient)
    BY <1>0, <1>4, ChannelSteps, SameThins
    DEF ClientSendFails, Client!SendRaises, Client!recvVars
  <2>. QED  BY <1>2, <2>1, <2>2
<1>5. CASE ClientReceives
  <2>1. Calling /\ UNCHANGED <<client, toServer>>
    BY <1>5 DEF ClientReceives, Client!RecvPdu, Client!RecvLong
  <2>2. toClient' \in Seq(Entry) /\ Thins(toClient', toClient)
    BY <1>0, <1>5, ChannelSteps, SameThins DEF ClientReceives, Client!RecvPdu
  <2>. QED  BY <1>0, <1>1, <2>1, <2>2, SameThins, ThinStep
<1>6. CASE ClientTimeout
  BY <1>0, <1>2, <1>6, SameThins DEF ClientTimeout, Client!RecvNothing
<1>7. CASE ClientRecvFails
  BY <1>0, <1>2, <1>7, SameThins DEF ClientRecvFails, Client!RecvRaises
<1>8. CASE ClientPending
  <2>1. UNCHANGED client /\ toClient' \in Seq(Entry) /\ Thins(toClient', toClient)
        /\ toServer' = toServer /\ cTask' = "idle"
    BY <1>8, ChannelSteps DEF ClientPending, Client!RecvShort
  <2>. QED  BY <1>0, <1>1, <2>1, SameThins, ThinStep
<1>9. CASE ClientAnswered
  <2>. DEFINE e == Head(toClient)
  <2>1. /\ cTask # "idle" /\ cTask' = "idle" /\ toClient # <<>> /\ toClient' = Tail(toClient)
        /\ Final(e) /\ UNCHANGED toServer
    BY <1>9 DEF ClientAnswered, Client!RecvShort, Final, LongPdu
  <2>2. PICK how \in {"unexpected", "answer"} : Ends(how, e.pdu.no)
    BY <1>9 DEF ClientAnswered
  <2>3. /\ e \in Entry /\ e.pdu.no \in AnswerNos(toClient)
        /\ \A n \in AnswerNos(toClient') : e.pdu.no < n
    BY <1>0, <2>1, HeadOrder DEF InFlight
  <2>4. toClient' \in Seq(Entry) /\ Thins(toClient', toClient)
    BY <1>0, <2>1, TailThins
  <2>. HIDE DEF e
  <2>5. e.pdu.no \in Nat \ {0} /\ Ahead(e.pdu.no)
        /\ (\A n \in Nos(toServer) : e.pdu.no < n) /\ (Handling => e.pdu.no < handling.no)
    BY <2>3 DEF InFlight, Entry, UdsPdu
  <2>. DEFINE o == [how |-> how, no |-> e.pdu.no]
  <2>6. o \in Outcome /\ o.no = e.pdu.no /\ o.no # 0 /\ o.how \notin {"timeout", "raised"}
    BY <2>5 DEF Outcome
  <2>7. outcomes' = Append(outcomes, o) /\ asked' = asked  BY <2>2 DEF Ends
  <2>. HIDE DEF o
  <2>. QED  BY <1>1, <2>1, <2>3, <2>4, <2>5, <2>6, <2>7, OutcomeStep
<1>. QED  BY <1>3, <1>4, <1>5, <1>6, <1>7, <1>8, <1>9 DEF ClientRuns

\* A response the server's loop sends, or its handler.
LEMMA RespondsStep ==
  ASSUME IInv, Handling, ClientSleeps,
         NEW kind \in {"positive", "negative", "pending"}, Responds(kind),
         handling' = NoRequest \/ (kind = "pending" /\ UNCHANGED handling)
  PROVE  IInv'
<1>. USE DEF IInv
<1>. DEFINE p == Pdu(kind, handling.no, handling.sid, FALSE)
            e == Server!Whole(p)
<1>1. handling \in UdsPdu  BY DEF ChannelTypes, Handling
<1>2. e \in Entry /\ e.pdu.no = handling.no /\ (Final(e) => kind # "pending")
  BY <1>1 DEF Entry, UdsPdu, Pdu, Server!Whole, Final, Answers
<1>3. toClient' = Append(toClient, e) /\ UNCHANGED <<toServer, client, cTask>>
  BY DEF Responds, Server!SendShort, Server!recvVars, ClientSleeps, clientChannel
<1>. HIDE DEF p, e
<1>4. handling' \in {handling, NoRequest} /\ (Final(e) => handling' = NoRequest)  BY <1>2
<1>. QED  BY <1>2, <1>3, <1>4, RespondStep

LEMMA ServerInv ==
  ASSUME IInv, Listening, ServerRuns \/ ServerCancelled PROVE IInv'
<1>. USE DEF IInv
<1>0. toServer \in Seq(Entry) /\ toClient \in Seq(Entry) /\ (cTask # "idle" => Calling)
  BY DEF ChannelTypes, Asking
<1>1. ClientSleeps /\ UNCHANGED <<client, cTask>>
  BY DEF ServerRuns, ServerReceives, ServerTakes, ServerRecvFails, UnknownService, HandlerSilent,
         HandlerReturns, HandlerReturnsLong, ServerSent, ServerSendFails, HandlerRaisesNegative,
         HandlerRaises, GeneralFailure, HandlerSendsPending, ServerCancelled, ClientSleeps,
         clientChannel
\* Nothing is put on its way.
<1>2. ASSUME toServer' \in Seq(Entry), Thins(toServer', toServer),
             toClient' \in Seq(Entry), Thins(toClient', toClient),
             handling' \in {handling, NoRequest}
      PROVE  IInv'
  BY <1>0, <1>1, <1>2, ThinStep
<1>3. ASSUME UNCHANGED <<toServer, toClient>>, handling' \in {handling, NoRequest} PROVE IInv'
  BY <1>0, <1>2, <1>3, SameThins
<1>4. CASE ServerReceives
  <2>1. toClient' = toClient /\ UNCHANGED handling
    BY <1>4 DEF ServerReceives, Server!RecvPdu, Server!RecvLong, Server!RecvNothing, server
  <2>2. toServer' \in Seq(Entry) /\ Thins(toServer', toServer)
    BY <1>0, <1>4, ChannelSteps, SameThins
    DEF ServerReceives, Server!RecvPdu, Server!RecvNothing
  <2>. QED  BY <1>0, <1>2, <2>1, <2>2, SameThins
<1>5. CASE ServerTakes
  <2>1. toServer # <<>> /\ toServer' = Tail(toServer) /\ UNCHANGED toClient /\ ~Handling
    BY <1>5 DEF ServerTakes, Server!RecvShort, Listening
  <2>. QED  BY <1>1, <1>5, <2>1, TakeStep DEF ServerTakes
<1>6. CASE ServerRecvFails
  BY <1>3, <1>6 DEF ServerRecvFails, Server!RecvRaises
<1>7. CASE UnknownService
  BY <1>1, <1>7, RespondsStep DEF UnknownService, Done
<1>8. CASE HandlerSilent
  BY <1>3, <1>8 DEF HandlerSilent, Done
<1>9. CASE HandlerReturns
  BY <1>1, <1>9, RespondsStep DEF HandlerReturns, InHandler, Done
<1>10. CASE HandlerReturnsLong
  <2>. DEFINE p == Pdu("positive", handling.no, handling.sid, TRUE)
              e == Server!Announced(p)
  <2>1. Handling /\ UNCHANGED <<toServer, handling>> /\ toClient' = Append(toClient, e)
    BY <1>10 DEF HandlerReturnsLong, InHandler, Server!SendLong, Server!recvVars, server
  <2>2. handling \in UdsPdu  BY <2>1 DEF ChannelTypes, Handling
  <2>3. e \in Entry /\ e.pdu.no = handling.no /\ ~Final(e)
    BY <2>2 DEF Entry, UdsPdu, Pdu, Server!Announced, Final
  <2>. HIDE DEF p, e
  <2>. QED  BY <1>1, <2>1, <2>3, RespondStep
<1>11. CASE ServerSent
  BY <1>0, <1>2, <1>11, ChannelSteps, SameThins DEF ServerSent, Done
<1>12. CASE ServerSendFails
  <2>1. CASE Server!SendRaises
    BY <1>3, <1>12, <2>1 DEF ServerSendFails, Server!SendRaises, Server!recvVars
  <2>2. CASE Server!SendTakes
    BY <1>0, <1>2, <1>12, <2>2, ChannelSteps, SameThins DEF ServerSendFails
  <2>. QED  BY <1>12, <2>1, <2>2 DEF ServerSendFails
<1>13. CASE HandlerRaisesNegative
  BY <1>1, <1>13, RespondsStep DEF HandlerRaisesNegative, InHandler, Done
<1>14. CASE HandlerRaises
  BY <1>3, <1>14 DEF HandlerRaises
<1>15. CASE GeneralFailure
  BY <1>1, <1>15, RespondsStep DEF GeneralFailure, Done
<1>16. CASE HandlerSendsPending
  BY <1>1, <1>16, RespondsStep DEF HandlerSendsPending, InHandler
<1>17. CASE ServerCancelled
  BY <1>3, <1>17 DEF ServerCancelled
<1>. QED
  BY <1>4, <1>5, <1>6, <1>7, <1>8, <1>9, <1>10, <1>11, <1>12, <1>13, <1>14, <1>15, <1>16, <1>17
  DEF ServerRuns

LEMMA RequestInv ==
  ASSUME IInv, NEW sid \in Services, NEW long \in BOOLEAN, Request(sid, long) PROVE IInv'
<1>. USE DEF IInv
<1>. DEFINE p == Pdu("request", Len(asked) + 1, sid, long)
<1>1. Len(asked) \in Nat  BY LenProperties DEF Asking
<1>2. p \in UdsPdu /\ p.no = Len(asked) + 1  BY <1>1 DEF UdsPdu, Pdu
<1>3. /\ ~Calling /\ asked' = Append(asked, sid)
      /\ UNCHANGED <<outcomes, toClient, handling>>
      /\ Client!SendShort(p) \/ Client!SendLong(p)
  BY DEF Request, Client!SendShort, Client!SendLong, Client!recvVars, ServerSleeps, server
<1>. HIDE DEF p
<1>4. PICK e \in Entry : e.pdu = p /\ toServer' = Append(toServer, e)
  <2>1. Client!Whole(p) \in Entry /\ Client!Whole(p).pdu = p
        /\ Client!Announced(p) \in Entry /\ Client!Announced(p).pdu = p
    BY <1>2 DEF Entry, Client!Whole, Client!Announced
  <2>. QED  BY <1>3, <2>1 DEF Client!SendShort, Client!SendLong
<1>. QED  BY <1>2, <1>3, <1>4, RequestStep

LEMMA NextInv == IInv /\ Listening /\ [Next]_vars => IInv'
<1>. SUFFICES ASSUME IInv, Listening, [Next]_vars PROVE IInv'
  OBVIOUS
<1>. USE DEF IInv
<1>0. toServer \in Seq(Entry) /\ toClient \in Seq(Entry) /\ (cTask # "idle" => Calling)
  BY DEF ChannelTypes, Asking
<1>1. CASE \E sid \in Services, long \in BOOLEAN : Request(sid, long)
  BY <1>1, RequestInv
<1>2. CASE ClientRuns  BY <1>2, ClientInv
<1>3. CASE ServerRuns \/ ServerCancelled  BY <1>3, ServerInv
<1>4. CASE LosePdu
  <2>1. UNCHANGED <<client, handling, cTask>>
    BY <1>4 DEF LosePdu, Client!Lose, clientChannel, server
  <2>2. toServer' \in Seq(Entry) /\ Thins(toServer', toServer)
        /\ toClient' \in Seq(Entry) /\ Thins(toClient', toClient)
    BY <1>0, <1>4, ChannelSteps, SameThins DEF LosePdu
  <2>. QED  BY <1>0, <2>1, <2>2, ThinStep
<1>5. CASE UNCHANGED vars
  BY <1>0, <1>5, SameThins, ThinStep DEF vars, client, server, clientChannel
<1>. QED  BY <1>1, <1>2, <1>3, <1>4, <1>5 DEF Next

-----------------------------------------------------------------------------
(* What the client's answers are to *)

\* Every call up to r either gave up or was given an answer, and the answers
\* are as many different requests up to the last of them.
LEMMA AnswersCounted ==
  ASSUME IInv, NEW r \in DOMAIN outcomes, outcomes[r].no # 0
  PROVE  r - outcomes[r].no <= Cardinality({q \in 1 .. r - 1 : GaveUp(q)})
<1>. USE DEF IInv
<1>. DEFINE n == outcomes[r].no
            taken == {q \in 1 .. r : outcomes[q].no # 0}
            gave == {q \in 1 .. r - 1 : GaveUp(q)}
<1>1. /\ r \in Nat \ {0} /\ \A q \in 1 .. r : q \in DOMAIN outcomes
      /\ \A q \in 1 .. r : outcomes[q].no \in Nat
  <2>1. DOMAIN outcomes = 1 .. Len(outcomes) /\ Len(outcomes) \in Nat
        /\ \A q \in DOMAIN outcomes : outcomes[q] \in Outcome
    BY LenProperties, ElementOfSeq DEF Asking
  <2>2. r \in Nat \ {0} /\ \A q \in 1 .. r : q \in DOMAIN outcomes  BY <2>1
  <2>. QED  BY <2>1, <2>2 DEF Outcome
<1>2. n \in Nat \ {0} /\ 1 \in Int /\ r - 1 \in Int  BY <1>1
<1>3. IsFiniteSet(1 .. r) /\ Cardinality(1 .. r) = r  BY <1>1, FS_Interval
<1>4. IsFiniteSet(1 .. n) /\ Cardinality(1 .. n) = n  BY <1>2, FS_Interval
<1>5. taken \cup gave = 1 .. r /\ taken \cap gave = {}
  <2>1. \A q \in 1 .. r - 1 : q \in 1 .. r /\ (outcomes[q].no = 0 <=> GaveUp(q))
    BY <1>1 DEF GivenOut
  <2>2. \A q \in 1 .. r : outcomes[q].no = 0 => q # r /\ q \in 1 .. r - 1
    BY <1>1
  <2>. QED  BY <2>1, <2>2
<1>6. IsFiniteSet(taken) /\ IsFiniteSet(gave)  BY <1>3, <1>5, FS_Subset
<1>7. Cardinality(taken) \in Nat /\ Cardinality(gave) \in Nat  BY <1>6, FS_CardinalityType
<1>8. Cardinality(taken) + Cardinality(gave) = r
  <2>1. Cardinality(taken \cup gave)
          = Cardinality(taken) + Cardinality(gave) - Cardinality(taken \cap gave)
    BY <1>6, FS_Union
  <2>2. Cardinality({}) = 0  BY FS_EmptySet
  <2>. HIDE DEF taken, gave
  <2>3. Cardinality(taken \cap gave) = 0  BY <1>5, <2>2
  <2>4. Cardinality(taken \cup gave) = r  BY <1>3, <1>5
  <2>5. PICK x \in Nat, y \in Nat : x = Cardinality(taken) /\ y = Cardinality(gave)  BY <1>7
  <2>6. r = x + y - 0  BY <2>1, <2>3, <2>4, <2>5
  <2>. QED  BY <2>5, <2>6
<1>9. Cardinality(taken) <= n
  <2>. DEFINE f == [q \in taken |-> outcomes[q].no]
  <2>1. ASSUME NEW q \in taken PROVE outcomes[q].no \in 1 .. n
    <3>1. q < r \/ q = r  BY <1>1
    <3>2. q < r => outcomes[q].no < n  BY <1>1 DEF GivenOut
    <3>. QED  BY <1>1, <1>2, <3>1, <3>2
  <2>2. \A q, p \in taken : outcomes[q].no = outcomes[p].no => q = p
    <3>. SUFFICES ASSUME NEW q \in taken, NEW p \in taken, q # p
                  PROVE  outcomes[q].no # outcomes[p].no
      OBVIOUS
    <3>1. q \in DOMAIN outcomes /\ p \in DOMAIN outcomes
          /\ outcomes[q].no \in Nat /\ outcomes[p].no \in Nat
          /\ outcomes[q].no # 0 /\ outcomes[p].no # 0
      BY <1>1
    <3>2. q < p \/ p < q  BY <1>1
    <3>. QED  BY <3>1, <3>2 DEF GivenOut
  <2>3. f \in Injection(taken, 1 .. n)
    <3>. HIDE DEF taken, n
    <3>. QED  BY <2>1, <2>2 DEF Injection, IsInjective
  <2>. QED  BY <1>4, <2>3, FS_Injection
<1>. HIDE DEF taken, gave, n
<1>10. r - n <= Cardinality(gave)  BY <1>1, <1>2, <1>7, <1>8, <1>9
<1>. QED  BY <1>10 DEF gave, n

LEMMA AlwaysListening == Spec => []Listening
<1>1. Init => Listening  BY DEF Init, Listening
<1>2. Listening /\ [Next]_vars => Listening'
  <2>. SUFFICES ASSUME Listening, [Next]_vars PROVE Listening'
    OBVIOUS
  <2>. USE DEF Listening, Handling
  <2>1. CASE \E sid \in Services, long \in BOOLEAN : Request(sid, long)
    BY <2>1 DEF Request, ServerSleeps, serverChannel, server
  <2>2. CASE ClientRuns
    BY <2>2
    DEF ClientRuns, ClientSent, ClientSendFails, ClientReceives, ClientTimeout, ClientRecvFails,
        ClientPending, ClientAnswered, ServerSleeps, serverChannel, server
  <2>3. CASE ServerReceives
    BY <2>3 DEF ServerReceives, Server!RecvPdu, Server!RecvLong, Server!RecvNothing, server
  <2>4. CASE ServerTakes \/ ServerRecvFails
    BY <2>4 DEF ServerTakes, ServerRecvFails, Server!RecvShort, Server!RecvRaises
  <2>5. CASE UnknownService \/ HandlerSilent \/ HandlerReturns \/ ServerSent \/ HandlerRaisesNegative
             \/ GeneralFailure \/ ServerCancelled
    BY <2>5
    DEF UnknownService, HandlerSilent, HandlerReturns, ServerSent, HandlerRaisesNegative,
        GeneralFailure, ServerCancelled, Done
  <2>6. CASE HandlerReturnsLong \/ ServerSendFails
    BY <2>6 DEF HandlerReturnsLong, ServerSendFails, Server!SendLong, Server!SendRaises,
                Server!SendTakes
  <2>7. CASE HandlerRaises \/ HandlerSendsPending
    BY <2>7 DEF HandlerRaises, HandlerSendsPending, Responds, Server!SendShort, serverChannel
  <2>8. CASE LosePdu
    BY <2>8 DEF LosePdu, Server!Lose, serverChannel, server
  <2>9. CASE UNCHANGED vars
    BY <2>9 DEF vars, serverChannel, server
  <2>. QED
    BY <2>1, <2>2, <2>3, <2>4, <2>5, <2>6, <2>7, <2>8, <2>9 DEF Next, ServerRuns
<1>. QED  BY <1>1, <1>2, PTL DEF Spec

\* The invariant holds.
LEMMA Invariant == Spec => []IInv
<1>. QED  BY InitInv, NextInv, AlwaysListening, PTL DEF Spec

\* The client's answers are in the order of its requests and to one request
\* each, whatever gets lost, comes late, or is answered after the client gave
\* up; and the client is behind by no more than the requests it gave up on.
THEOREM AnswersMatchRequests == Spec => []AnswersMatch
<1>1. IInv => AnswersMatch
  BY AnswersCounted DEF IInv, GivenOut, AnswersMatch
<1>. QED  BY <1>1, Invariant, PTL
=============================================================================
