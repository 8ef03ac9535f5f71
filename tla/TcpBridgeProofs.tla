--------------------------- MODULE TcpBridgeProofs ---------------------------
(***************************************************************************)
(* What TcpBridge guarantees to a client, for any number of clients and of *)
(* chunks.                                                                 *)
(***************************************************************************)
EXTENDS TcpBridge, SequenceTheorems, TLAPS

FlowTypes ==
  /\ handler \in [Clients -> {"away", "opening", "piping", "ended"}]
  /\ port \subseteq Clients
  /\ sent \in Nat
  /\ line \in Seq(Nat)
  /\ buffer \in [Clients -> Seq(Nat)]
  /\ got \in [Clients -> Seq(Nat)]

\* Only a session that pipes has the port open.
PortsPipe == \A c \in port : handler[c] = "piping"

\* Nothing was read for a client before its port was open.
NothingBefore == \A c \in Clients : handler[c] \in {"away", "opening"} =>
                   buffer[c] = <<>> /\ got[c] = <<>>

OverlapsKnown ==
  \A c, d \in Clients : c # d /\ handler[c] = "piping" /\ handler[d] = "piping" => c \in shared

\* What is on the line is the last the adapter sent.
LineIsLast == \A i \in 1 .. Len(line) : line[i] = sent - Len(line) + i

\* What a client got and what was read for it follow the chunk f without a gap;
\* as long as its port is open, what is on the line comes next.
Follows(c, f) ==
  /\ \A i \in 1 .. Len(got[c]) : got[c][i] = f + i
  /\ \A i \in 1 .. Len(buffer[c]) : buffer[c][i] = f + Len(got[c]) + i
  /\ c \in port => f + Len(got[c]) + Len(buffer[c]) + Len(line) = sent

Gapless == \A c \in Clients \ shared : \E f \in Int : Follows(c, f)

IInv == FlowTypes /\ PortsPipe /\ NothingBefore /\ OverlapsKnown /\ LineIsLast /\ Gapless

LEMMA InitIInv == Init => IInv
<1>. SUFFICES ASSUME Init PROVE IInv
  OBVIOUS
<1>1. <<>> \in Seq(Nat) /\ Len(<<>>) = 0  BY EmptySeq
<1>2. FlowTypes  BY <1>1 DEF Init, FlowTypes
<1>3. Gapless
  <2>. SUFFICES ASSUME NEW c \in Clients PROVE Follows(c, 0)
    BY DEF Gapless
  <2>. QED  BY <1>1 DEF Init, Follows
<1>. QED
  BY <1>1, <1>2, <1>3 DEF Init, IInv, PortsPipe, NothingBefore, OverlapsKnown, LineIsLast

\* Steps that move no chunk and open no port; ports may close, and sessions end
\* or begin to open.
LEMMA FlowStays ==
  ASSUME IInv, UNCHANGED <<flow, shared>>, port' \subseteq port,
         handler' \in [Clients -> {"away", "opening", "piping", "ended"}],
         \A c \in Clients : /\ handler'[c] = "piping" => handler[c] = "piping"
                            /\ handler'[c] \in {"away", "opening"} =>
                                 handler[c] \in {"away", "opening"}
                            /\ c \in port' => handler'[c] = handler[c]
  PROVE  IInv'
<1>1. UNCHANGED <<sent, line, buffer, got>>  BY DEF flow
<1>2. FlowTypes'  BY <1>1 DEF IInv, FlowTypes
<1>3. PortsPipe'  BY DEF IInv, FlowTypes, PortsPipe
<1>4. NothingBefore'  BY <1>1 DEF IInv, NothingBefore
<1>5. OverlapsKnown'  BY DEF IInv, OverlapsKnown
<1>6. LineIsLast'  BY <1>1 DEF IInv, LineIsLast
<1>7. Gapless'
  <2>. SUFFICES ASSUME NEW c \in Clients \ shared PROVE \E f \in Int : Follows(c, f)'
    BY DEF Gapless
  <2>1. PICK f \in Int : Follows(c, f)  BY DEF IInv, Gapless
  <2>2. Follows(c, f)'  BY <1>1, <2>1 DEF Follows
  <2>. QED  BY <2>2
<1>. QED  BY <1>2, <1>3, <1>4, <1>5, <1>6, <1>7 DEF IInv

LEMMA PortOpensKeeps ==
  ASSUME IInv, NEW c \in Clients, PortOpens(c)
  PROVE  IInv'
<1>. DEFINE others == {d \in Clients : handler[d] = "piping"}
<1>1. /\ handler[c] = "opening" /\ handler' = [handler EXCEPT ![c] = "piping"]
      /\ port' = port \cup {c}
      /\ shared' = IF others = {} THEN shared ELSE shared \cup others \cup {c}
      /\ UNCHANGED <<sent, line, buffer, got>>
  BY DEF PortOpens, flow
<1>2. FlowTypes'  BY <1>1 DEF IInv, FlowTypes
<1>3. PortsPipe' /\ NothingBefore'
  BY <1>1 DEF IInv, FlowTypes, PortsPipe, NothingBefore
<1>4. OverlapsKnown'
  BY <1>1 DEF IInv, FlowTypes, OverlapsKnown
<1>5. LineIsLast'  BY <1>1 DEF IInv, LineIsLast
<1>6. Gapless'
  <2>. SUFFICES ASSUME NEW d \in Clients \ shared' PROVE \E f \in Int : Follows(d, f)'
    BY DEF Gapless
  <2>1. CASE d = c
    <3>1. got[c] = <<>> /\ buffer[c] = <<>> /\ Len(<<>>) = 0
      BY <1>1, EmptySeq DEF IInv, NothingBefore
    <3>2. Len(line) \in Nat /\ sent \in Nat  BY LenProperties DEF IInv, FlowTypes
    <3>3. sent - Len(line) \in Int  BY <3>2
    <3>4. Follows(c, sent - Len(line))'
      BY <1>1, <3>1, <3>2 DEF Follows
    <3>. QED  BY <1>1, <2>1, <3>3, <3>4
  <2>2. CASE d # c
    <3>1. PICK f \in Int : Follows(d, f)  BY <1>1 DEF IInv, Gapless
    <3>2. Follows(d, f)'  BY <1>1, <2>2, <3>1 DEF Follows
    <3>. QED  BY <3>2
  <2>. QED  BY <2>1, <2>2
<1>. QED  BY <1>2, <1>3, <1>4, <1>5, <1>6 DEF IInv

LEMMA DownReadsKeeps ==
  ASSUME IInv, NEW c \in Clients, DownReads(c)
  PROVE  IInv'
<1>1. /\ buffer[c] # <<>> /\ got' = [got EXCEPT ![c] = Append(@, Head(buffer[c]))]
      /\ buffer' = [buffer EXCEPT ![c] = Tail(@)]
      /\ UNCHANGED <<handler, port, sent, line, shared>>
  BY DEF DownReads
<1>2. buffer[c] \in Seq(Nat) /\ got[c] \in Seq(Nat)  BY DEF IInv, FlowTypes
<1>3. /\ Head(buffer[c]) \in Nat /\ Head(buffer[c]) = buffer[c][1]
      /\ Tail(buffer[c]) \in Seq(Nat) /\ Len(Tail(buffer[c])) = Len(buffer[c]) - 1
      /\ \A i \in 1 .. Len(Tail(buffer[c])) : Tail(buffer[c])[i] = buffer[c][i + 1]
      /\ Len(buffer[c]) \in Nat \ {0} /\ Len(got[c]) \in Nat /\ Len(line) \in Nat
  BY <1>1, <1>2, HeadTailProperties, EmptySeq, LenProperties DEF IInv, FlowTypes
<1>4. /\ got'[c] \in Seq(Nat) /\ Len(got'[c]) = Len(got[c]) + 1
      /\ \A i \in 1 .. Len(got[c]) : got'[c][i] = got[c][i]
      /\ got'[c][Len(got[c]) + 1] = buffer[c][1]
  BY <1>1, <1>2, <1>3, AppendProperties DEF IInv, FlowTypes
<1>5. buffer'[c] = Tail(buffer[c])  BY <1>1 DEF IInv, FlowTypes
<1>6. FlowTypes'
  <2>1. buffer' \in [Clients -> Seq(Nat)]  BY <1>1, <1>3 DEF IInv, FlowTypes
  <2>2. Append(got[c], Head(buffer[c])) \in Seq(Nat)  BY <1>2, <1>3, AppendProperties
  <2>3. got' \in [Clients -> Seq(Nat)]  BY <1>1, <2>2 DEF IInv, FlowTypes
  <2>. QED  BY <1>1, <2>1, <2>3 DEF IInv, FlowTypes
<1>7. NothingBefore'
  <2>1. handler[c] \notin {"away", "opening"}  BY <1>1 DEF IInv, NothingBefore
  <2>. QED  BY <1>1, <2>1 DEF IInv, FlowTypes, NothingBefore
<1>8. Gapless'
  <2>. SUFFICES ASSUME NEW d \in Clients \ shared PROVE \E f \in Int : Follows(d, f)'
    BY <1>1 DEF Gapless
  <2>1. PICK f \in Int : Follows(d, f)  BY DEF IInv, Gapless
  <2>2. CASE d = c
    <3>0. PICK g, b, l \in Int : g = Len(got[c]) /\ b = Len(buffer[c]) /\ l = Len(line)
      BY <1>3
    <3>1. \A i \in 1 .. Len(got'[c]) : got'[c][i] = f + i
      <4>. SUFFICES ASSUME NEW i \in 1 .. Len(got[c]) + 1 PROVE got'[c][i] = f + i
        BY <1>4
      <4>1. CASE i = Len(got[c]) + 1
        <5>1. buffer[c][1] = f + Len(got[c]) + 1  BY <1>3, <2>1, <2>2 DEF Follows
        <5>. QED  BY <1>3, <1>4, <4>1, <5>1
      <4>2. CASE i # Len(got[c]) + 1
        <5>1. i \in 1 .. Len(got[c])  BY <1>3, <4>2
        <5>. QED  BY <1>4, <2>1, <2>2, <5>1 DEF Follows
      <4>. QED  BY <4>1, <4>2
    <3>2. ASSUME NEW i \in 1 .. Len(buffer'[c]) PROVE buffer'[c][i] = f + Len(got'[c]) + i
      <4>1. i \in 1 .. Len(Tail(buffer[c])) /\ i + 1 \in 1 .. Len(buffer[c])
        BY <1>3, <1>5
      <4>2. buffer'[c][i] = f + Len(got[c]) + (i + 1)
        BY <1>3, <1>5, <2>1, <2>2, <4>1 DEF Follows
      <4>3. f + g + (i + 1) = f + (g + 1) + i  BY <4>1
      <4>. QED  BY <1>4, <3>0, <4>2, <4>3
    <3>3. c \in port' => f + Len(got'[c]) + Len(buffer'[c]) + Len(line') = sent'
      <4>1. c \in port => f + Len(got[c]) + Len(buffer[c]) + Len(line) = sent
        BY <2>1, <2>2 DEF Follows
      <4>2. Len(buffer'[c]) = Len(buffer[c]) - 1  BY <1>3, <1>5
      <4>3. f + (g + 1) + (b - 1) + l = f + g + b + l  OBVIOUS
      <4>. QED  BY <1>1, <1>4, <3>0, <4>1, <4>2, <4>3
    <3>4. Follows(c, f)'  BY <3>1, <3>2, <3>3 DEF Follows
    <3>. QED  BY <2>2, <3>4
  <2>3. CASE d # c
    <3>1. got'[d] = got[d] /\ buffer'[d] = buffer[d]  BY <1>1, <2>3 DEF IInv, FlowTypes
    <3>2. Follows(d, f)'  BY <1>1, <2>1, <3>1 DEF Follows
    <3>. QED  BY <3>2
  <2>. QED  BY <2>2, <2>3
<1>. QED
  BY <1>1, <1>6, <1>7, <1>8 DEF IInv, PortsPipe, OverlapsKnown, LineIsLast

LEMMA PortReadsKeeps ==
  ASSUME IInv, NEW c \in Clients, PortReads(c)
  PROVE  IInv'
<1>1. /\ c \in port /\ line # <<>> /\ line' = Tail(line)
      /\ buffer' = [buffer EXCEPT ![c] = Append(@, Head(line))]
      /\ UNCHANGED <<handler, port, sent, got, shared>>
  BY DEF PortReads, PortUp
<1>2. buffer[c] \in Seq(Nat) /\ line \in Seq(Nat) /\ sent \in Nat  BY DEF IInv, FlowTypes
<1>3. /\ Head(line) \in Nat /\ Head(line) = line[1]
      /\ line' \in Seq(Nat) /\ Len(line') = Len(line) - 1
      /\ \A i \in 1 .. Len(line') : line'[i] = line[i + 1]
      /\ Len(line) \in Nat \ {0} /\ Len(got[c]) \in Nat /\ Len(buffer[c]) \in Nat
  BY <1>1, <1>2, HeadTailProperties, EmptySeq, LenProperties DEF IInv, FlowTypes
<1>4. /\ Append(buffer[c], Head(line)) \in Seq(Nat)
      /\ buffer'[c] = Append(buffer[c], Head(line)) /\ Len(buffer'[c]) = Len(buffer[c]) + 1
      /\ \A i \in 1 .. Len(buffer[c]) : buffer'[c][i] = buffer[c][i]
      /\ buffer'[c][Len(buffer[c]) + 1] = line[1]
  BY <1>1, <1>2, <1>3, AppendProperties DEF IInv, FlowTypes
<1>5. FlowTypes'
  <2>1. buffer' \in [Clients -> Seq(Nat)]  BY <1>1, <1>4 DEF IInv, FlowTypes
  <2>. QED  BY <1>1, <1>3, <2>1 DEF IInv, FlowTypes
<1>6. handler[c] = "piping"  BY <1>1 DEF IInv, PortsPipe
<1>7. NothingBefore'  BY <1>1, <1>6 DEF IInv, FlowTypes, NothingBefore
<1>8. LineIsLast'
  <2>. SUFFICES ASSUME NEW i \in 1 .. Len(line') PROVE line'[i] = sent - Len(line') + i
    BY <1>1 DEF LineIsLast
  <2>1. i + 1 \in 1 .. Len(line) /\ line'[i] = line[i + 1]  BY <1>3
  <2>2. line[i + 1] = sent - Len(line) + (i + 1)  BY <2>1 DEF IInv, LineIsLast
  <2>. QED  BY <1>2, <1>3, <2>1, <2>2
<1>9. Gapless'
  <2>. SUFFICES ASSUME NEW d \in Clients \ shared PROVE \E f \in Int : Follows(d, f)'
    BY <1>1 DEF Gapless
  <2>1. PICK f \in Int : Follows(d, f)  BY DEF IInv, Gapless
  <2>2. CASE d = c
    <3>0. PICK g, b, l \in Int : g = Len(got[c]) /\ b = Len(buffer[c]) /\ l = Len(line)
      BY <1>3
    <3>1. f + Len(got[c]) + Len(buffer[c]) + Len(line) = sent  BY <1>1, <2>1, <2>2 DEF Follows
    <3>2. line[1] = sent - Len(line) + 1  BY <1>3 DEF IInv, LineIsLast
    <3>3. \A i \in 1 .. Len(buffer'[c]) : buffer'[c][i] = f + Len(got[c]) + i
      <4>. SUFFICES ASSUME NEW i \in 1 .. Len(buffer[c]) + 1
                    PROVE  buffer'[c][i] = f + Len(got[c]) + i
        BY <1>4
      <4>1. CASE i = Len(buffer[c]) + 1
        <5>1. f + g + b + l - l + 1 = f + g + (b + 1)  OBVIOUS
        <5>2. f + g + b + l = sent  BY <3>0, <3>1
        <5>3. sent - l + 1 = f + g + (b + 1)  BY <5>1, <5>2
        <5>. QED  BY <1>4, <3>0, <3>2, <4>1, <5>3
      <4>2. CASE i # Len(buffer[c]) + 1
        <5>1. Len(buffer[c]) \in Nat  BY <1>3
        <5>2. i \in 1 .. Len(buffer[c])  BY <4>2, <5>1
        <5>. QED  BY <1>4, <2>1, <2>2, <5>2 DEF Follows
      <4>. QED  BY <4>1, <4>2
    <3>4. f + Len(got[c]) + Len(buffer'[c]) + Len(line') = sent
      <4>1. f + g + (b + 1) + (l - 1) = f + g + b + l  OBVIOUS
      <4>. QED  BY <1>3, <1>4, <3>0, <3>1, <4>1
    <3>5. Follows(c, f)'  BY <1>1, <2>1, <2>2, <3>3, <3>4 DEF Follows
    <3>. QED  BY <2>2, <3>5
  <2>3. CASE d # c
    <3>1. buffer'[d] = buffer[d]  BY <1>1, <2>3 DEF IInv, FlowTypes
    <3>2. d \notin port  BY <1>1, <1>6, <2>3 DEF IInv, PortsPipe, OverlapsKnown
    <3>3. Follows(d, f)'  BY <1>1, <2>1, <3>1, <3>2 DEF Follows
    <3>. QED  BY <3>3
  <2>. QED  BY <2>2, <2>3
<1>. QED  BY <1>1, <1>5, <1>7, <1>8, <1>9 DEF IInv, PortsPipe, OverlapsKnown

LEMMA AdapterSendsKeeps ==
  ASSUME IInv, AdapterSends
  PROVE  IInv'
<1>1. /\ sent' = sent + 1 /\ line' = Append(line, sent + 1)
      /\ UNCHANGED <<handler, port, buffer, got, shared>>
  BY DEF AdapterSends
<1>2. line \in Seq(Nat) /\ sent \in Nat /\ sent + 1 \in Nat /\ Len(line) \in Nat
  BY LenProperties DEF IInv, FlowTypes
<1>3. /\ line' \in Seq(Nat) /\ Len(line') = Len(line) + 1
      /\ \A i \in 1 .. Len(line) : line'[i] = line[i]
      /\ line'[Len(line) + 1] = sent + 1
  BY <1>1, <1>2, AppendProperties
<1>4. FlowTypes'  BY <1>1, <1>2, <1>3 DEF IInv, FlowTypes
<1>5. LineIsLast'
  <2>. SUFFICES ASSUME NEW i \in 1 .. Len(line') PROVE line'[i] = sent' - Len(line') + i
    BY DEF LineIsLast
  <2>0. PICK l, s \in Int : l = Len(line) /\ s = sent  BY <1>2
  <2>1. i \in 1 .. l + 1 /\ Len(line') = l + 1 /\ sent' = s + 1  BY <1>1, <1>3, <2>0
  <2>2. s + 1 - (l + 1) + i = s - l + i /\ s - l + (l + 1) = s + 1  BY <2>1
  <2>3. CASE i = l + 1
    <3>1. line'[i] = s + 1  BY <1>3, <2>0, <2>3
    <3>. QED  BY <2>1, <2>2, <2>3, <3>1
  <2>4. CASE i # l + 1
    <3>1. i \in 1 .. l  BY <2>1, <2>4
    <3>2. line'[i] = s - l + i  BY <1>3, <2>0, <3>1 DEF IInv, LineIsLast
    <3>. QED  BY <2>1, <2>2, <3>2
  <2>. QED  BY <2>3, <2>4
<1>6. Gapless'
  <2>. SUFFICES ASSUME NEW c \in Clients \ shared PROVE \E f \in Int : Follows(c, f)'
    BY <1>1 DEF Gapless
  <2>1. PICK f \in Int : Follows(c, f)  BY DEF IInv, Gapless
  <2>2. Len(got[c]) \in Nat /\ Len(buffer[c]) \in Nat  BY LenProperties DEF IInv, FlowTypes
  <2>3. c \in port => f + Len(got[c]) + Len(buffer[c]) + Len(line') = sent'
    <3>0. PICK g, b, l \in Int : g = Len(got[c]) /\ b = Len(buffer[c]) /\ l = Len(line)
      BY <1>2, <2>2
    <3>1. f + g + b + (l + 1) = f + g + b + l + 1  OBVIOUS
    <3>. QED  BY <1>1, <1>3, <2>1, <3>0, <3>1 DEF Follows
  <2>4. Follows(c, f)'  BY <1>1, <2>1, <2>3 DEF Follows
  <2>. QED  BY <2>4
<1>. QED  BY <1>1, <1>4, <1>5, <1>6 DEF IInv, PortsPipe, NothingBefore, OverlapsKnown

LEMMA NextKeeps == IInv /\ [Next]_vars => IInv'
<1>. SUFFICES ASSUME IInv, [Next]_vars PROVE IInv'
  OBVIOUS
<1>1. handler \in [Clients -> {"away", "opening", "piping", "ended"}] /\ port \subseteq Clients
  BY DEF IInv, FlowTypes
<1>2. \A c \in port : handler[c] = "piping"  BY DEF IInv, PortsPipe
<1>3. ASSUME NEW c \in Clients, Connect(c) PROVE IInv'
  BY <1>1, <1>2, <1>3, FlowStays DEF Connect
<1>4. ASSUME NEW c \in Clients, PortRefused(c) PROVE IInv'
  BY <1>1, <1>2, <1>4, FlowStays DEF PortRefused
<1>5. ASSUME NEW c \in Clients, HandlerEnds(c) PROVE IInv'
  BY <1>1, <1>2, <1>5, FlowStays DEF HandlerEnds
<1>6. ASSUME NEW c \in Clients,
             UpReads(c) \/ UpEof(c) \/ DownEof(c) \/ Drained(c, "up") \/ Drained(c, "down")
                \/ HangsUp(c)
      PROVE  IInv'
  <2>1. UNCHANGED <<handler, flow, shared>> /\ port' \subseteq port
    BY <1>6 DEF UpReads, UpEof, DownEof, Drained, HangsUp, Ends
  <2>. QED  BY <1>1, <2>1, FlowStays
<1>7. CASE Unplugged \/ UNCHANGED vars
  <2>1. UNCHANGED <<handler, flow, shared, port>>  BY <1>7 DEF Unplugged, vars
  <2>. QED  BY <1>1, <2>1, FlowStays
<1>. QED
  BY <1>3, <1>4, <1>5, <1>6, <1>7, PortOpensKeeps, DownReadsKeeps, PortReadsKeeps,
     AdapterSendsKeeps DEF Next, HandlerRuns, UpRuns, DownRuns

\* A client whose session overlaps no other one gets the adapter's bytes in
\* order and without a gap, however many sessions came before and come after.
THEOREM SingleSessionIsWhole == Spec => []AloneIsWhole
<1>1. IInv => AloneIsWhole
  <2>. SUFFICES ASSUME IInv, NEW c \in Clients \ shared, NEW i \in 1 .. Len(got[c]) - 1
                PROVE  got[c][i + 1] = got[c][i] + 1
    BY DEF AloneIsWhole
  <2>1. PICK f \in Int : Follows(c, f)  BY DEF IInv, Gapless
  <2>2. Len(got[c]) \in Nat  BY LenProperties DEF IInv, FlowTypes
  <2>3. i \in 1 .. Len(got[c]) /\ i + 1 \in 1 .. Len(got[c]) /\ i \in Int  BY <2>2
  <2>4. got[c][i] = f + i /\ got[c][i + 1] = f + (i + 1)  BY <2>1, <2>3 DEF Follows
  <2>. QED  BY <2>3, <2>4
<1>. QED  BY <1>1, InitIInv, NextKeeps, PTL DEF Spec
=============================================================================
