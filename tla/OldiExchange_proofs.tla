------------------------- MODULE OldiExchange_proofs -------------------------
(***************************************************************************)
(* Theorems about OldiExchange, for every value of its bounds.             *)
(***************************************************************************)
EXTENDS OldiExchange, SequenceTheorems, TLAPS

(***************************************************************************)
(* Sequences in a row.  A handler moves a message over the border between  *)
(* two of them, and the row stays what it was.                             *)
(***************************************************************************)
LEMMA HeadThenTail ==
  ASSUME NEW S, NEW s \in Seq(S), s # <<>>
  PROVE  <<Head(s)>> \o Tail(s) = s
  <1>1. Head(s) \in S /\ Tail(s) \in Seq(S) /\ Len(Tail(s)) = Len(s) - 1
          /\ \A i \in 1..Len(Tail(s)) : Tail(s)[i] = s[i + 1]
    BY HeadTailProperties
  <1>2. Len(s) \in Nat \ {0}
    BY EmptySeq
  <1>3. <<Head(s)>> \in Seq(S) /\ Len(<<Head(s)>>) = 1 /\ <<Head(s)>>[1] = s[1]
    BY <1>1
  <1>4. /\ <<Head(s)>> \o Tail(s) \in Seq(S)
        /\ Len(<<Head(s)>> \o Tail(s)) = 1 + Len(Tail(s))
        /\ \A i \in 1..1 + Len(Tail(s)) :
             (<<Head(s)>> \o Tail(s))[i] = IF i <= 1 THEN <<Head(s)>>[i] ELSE Tail(s)[i - 1]
    BY <1>1, <1>3, ConcatProperties
  <1>5. \A i \in 1..Len(s) : (<<Head(s)>> \o Tail(s))[i] = s[i]
    BY <1>1, <1>2, <1>3, <1>4
  <1> QED
    BY <1>1, <1>2, <1>4, <1>5, SeqEqual

\* The head of one sequence moves to the end of the one before it.
LEMMA MoveOn ==
  ASSUME NEW S, NEW s \in Seq(S), NEW t \in Seq(S), t # <<>>
  PROVE  s \o t = Append(s, Head(t)) \o Tail(t)
  <1>1. Head(t) \in S /\ Tail(t) \in Seq(S) /\ <<Head(t)>> \in Seq(S)
    BY HeadTailProperties
  <1>2. Append(s, Head(t)) = s \o <<Head(t)>>
    BY <1>1, AppendIsConcat
  <1>3. (s \o <<Head(t)>>) \o Tail(t) = s \o t
    BY <1>1, HeadThenTail, ConcatAssociative
  <1> QED
    BY <1>2, <1>3

LEMMA AppendLast ==
  ASSUME NEW S, NEW a \in Seq(S), NEW s \in Seq(S), NEW m \in S
  PROVE  a \o Append(s, m) = Append(a \o s, m)
  <1>1. <<m>> \in Seq(S) /\ a \o s \in Seq(S)
    BY ConcatProperties
  <1>2. Append(s, m) = s \o <<m>> /\ Append(a \o s, m) = (a \o s) \o <<m>>
    BY <1>1, AppendIsConcat
  <1>3. (a \o s) \o <<m>> = a \o (s \o <<m>>)
    BY <1>1, ConcatAssociative
  <1> QED
    BY <1>2, <1>3, Zenon

LEMMA HandIsSeq ==
  ASSUME NEW n \in Nat, NEW m \in 0..n
  PROVE  InHand(m) \in Seq(1..n)
  <1>1. CASE m = 0
    BY <1>1 DEF InHand
  <1>2. CASE m # 0
    <2>1. m \in 1..n
      BY <1>2
    <2> QED
      BY <1>2, <2>1 DEF InHand
  <1> QED
    BY <1>1, <1>2

\* An empty hand takes the head of the channel behind it.
LEMMA TakeHead ==
  ASSUME NEW S, NEW a \in Seq(S), NEW s \in Seq(S), s # <<>>
  PROVE  (a \o <<>>) \o s = (a \o <<Head(s)>>) \o Tail(s)
  <1>1. Head(s) \in S /\ Tail(s) \in Seq(S) /\ <<Head(s)>> \in Seq(S)
    BY HeadTailProperties
  <1>2. (a \o <<Head(s)>>) \o Tail(s) = a \o s
    BY <1>1, HeadThenTail, ConcatAssociative
  <1> QED
    BY <1>2, ConcatEmptySeq

\* A hand pushes its message into the channel before it.
LEMMA PushOn ==
  ASSUME NEW S, NEW a \in Seq(S), NEW s \in Seq(S), NEW m \in S
  PROVE  (a \o s) \o <<m>> = (a \o Append(s, m)) \o <<>>
  <1>1. <<m>> \in Seq(S) /\ Append(s, m) \in Seq(S) /\ a \o Append(s, m) \in Seq(S)
    BY AppendProperties, ConcatProperties
  <1>2. a \o Append(s, m) = (a \o s) \o <<m>>
    BY <1>1, AppendIsConcat, ConcatAssociative
  <1>3. (a \o Append(s, m)) \o <<>> = a \o Append(s, m)
    BY <1>1, ConcatEmptySeq
  <1> QED
    BY <1>2, <1>3

LEMMA Associate ==
  ASSUME NEW S, NEW a \in Seq(S), NEW b \in Seq(S), NEW c \in Seq(S)
  PROVE  a \o (b \o c) = (a \o b) \o c
  BY ConcatAssociative, SMTT(20)

\* A first part of the queue leaves it.
LEMMA CutOff ==
  ASSUME NEW S, NEW a \in Seq(S), NEW s \in Seq(S), NEW n \in 0..Len(s)
  PROVE  /\ SubSeq(s, 1, n) \in Seq(S) /\ SubSeq(s, n + 1, Len(s)) \in Seq(S)
         /\ a \o s = (a \o SubSeq(s, 1, n)) \o SubSeq(s, n + 1, Len(s))
  <1>1. Len(s) \in Nat /\ \A i \in 1..Len(s) : s[i] \in S
    BY LenProperties, ElementOfSeq
  <1>2. SubSeq(s, 1, n) \in Seq(S)
    BY <1>1, SubSeqProperties
  <1>3. SubSeq(s, n + 1, Len(s)) \in Seq(S)
    BY <1>1, SubSeqProperties
  <1>4. SubSeq(s, 1, n) \o SubSeq(s, n + 1, Len(s)) = SubSeq(s, 1, Len(s))
    <2>1. 1 \in 1..Len(s) + 1 /\ n \in 1 - 1..Len(s) /\ Len(s) \in n..Len(s)
      BY <1>1
    <2> QED
      BY <2>1, ConcatAdjacentSubSeq
  <1>5. SubSeq(s, 1, Len(s)) = s
    BY SubSeqFull
  <1>6. ASSUME NEW b \in Seq(S), NEW c \in Seq(S), b \o c = s
        PROVE  a \o s = (a \o b) \o c
    <2>1. a \o (b \o c) = (a \o b) \o c
      BY Associate, SMTT(20)
    <2> QED
      BY <1>6, <2>1, Zenon
  <1>7. a \o s = (a \o SubSeq(s, 1, n)) \o SubSeq(s, n + 1, Len(s))
    BY <1>2, <1>3, <1>4, <1>5, <1>6, Zenon
  <1> QED
    BY <1>2, <1>3, <1>7

LEMMA NumbersNext ==
  ASSUME NEW n \in Nat
  PROVE  Append(Numbers(n), n + 1) = Numbers(n + 1) /\ Numbers(n) \in Seq(1..n)
  <1>1. Numbers(n) \in Seq(1..n) /\ Numbers(n) \in Seq(1..n + 1) /\ Numbers(n + 1) \in Seq(1..n + 1)
    BY IsASeq DEF Numbers
  <1>2. Len(Numbers(n)) = n /\ Len(Numbers(n + 1)) = n + 1
    BY DEF Numbers
  <1>3. /\ Append(Numbers(n), n + 1) \in Seq(1..n + 1)
        /\ Len(Append(Numbers(n), n + 1)) = n + 1
        /\ \A i \in 1..n : Append(Numbers(n), n + 1)[i] = i
        /\ Append(Numbers(n), n + 1)[n + 1] = n + 1
    BY <1>1, <1>2, AppendProperties DEF Numbers
  <1>4. \A i \in 1..n + 1 : Append(Numbers(n), n + 1)[i] = Numbers(n + 1)[i]
    BY <1>3 DEF Numbers
  <1> QED
    BY <1>1, <1>2, <1>3, <1>4, SeqEqual

(***************************************************************************)
(* Types.                                                                  *)
(***************************************************************************)
\* What the handlers do with the sequences.
LEMMA SeqMoves ==
  ASSUME NEW S, NEW s \in Seq(S)
  PROVE  /\ \A x \in S : Append(s, x) \in Seq(S) /\ Len(Append(s, x)) = Len(s) + 1
         /\ s # <<>> => Head(s) \in S /\ Tail(s) \in Seq(S) /\ Len(Tail(s)) = Len(s) - 1
         /\ \A t \in Seq(S) : s \o t \in Seq(S)
         /\ Len(s) \in Nat
  BY AppendProperties, HeadTailProperties, ConcatProperties, LenProperties

LEMMA InitTyped == Init => TypeOK
  <1> SUFFICES ASSUME Init PROVE TypeOK
    OBVIOUS
  <1>1. /\ \A q \in {toPacket, toFdps} : Len(q) <= Cap /\ q \in Seq(1..MaxUp)
        /\ \A q \in {grpc, fromFdps, fromPacket} : Len(q) <= Cap /\ q \in Seq(1..MaxLocated)
    BY ExchangeAssumption DEF Init
  <1>2. queue \in Seq(1..MaxUp) /\ left \in Seq(1..MaxUp) /\ handled \in Seq(1..MaxLocated)
    BY DEF Init
  <1>3. /\ rest \in [Calls -> -1..2]
        /\ activity \in [Providers -> {"never", "recent", "old"}]
        /\ state \in [Providers -> {"none", "ok", "error"}]
    BY DEF Init
  <1>4. /\ ups \in 0..MaxUp /\ downs \in 0..MaxLocated
        /\ channelHand \in 0..MaxUp /\ workerUp \in 0..MaxUp
        /\ oldiHand \in 0..MaxLocated /\ workerDown \in 0..MaxLocated
        /\ sent \subseteq 1..MaxLocated
    <2>1. MaxUp \in Nat /\ MaxLocated \in Nat
      BY ExchangeAssumption
    <2> QED
      BY <2>1 DEF Init
  <1>5. ready \in BOOLEAN
    BY DEF Init
  <1> QED
    BY <1>1, <1>2, <1>3, <1>4, <1>5 DEF TypeOK

LEMMA NextTyped == TypeOK /\ [Next]_vars => TypeOK'
  <1> SUFFICES ASSUME TypeOK, [Next]_vars PROVE TypeOK'
    OBVIOUS
  <1> USE ExchangeAssumption
  <1>1. CASE ChannelMessage
    BY <1>1 DEF ChannelMessage, TypeOK, down, watch
  <1>2. CASE PushPacket
    <2>1. channelHand \in 1..MaxUp /\ toPacket \in Seq(1..MaxUp) /\ Len(toPacket) < Cap
      BY <1>2 DEF PushPacket, Room, TypeOK
    <2>2. Append(toPacket, channelHand) \in Seq(1..MaxUp) /\ Len(Append(toPacket, channelHand)) <= Cap
      BY <2>1, SeqMoves
    <2>3. toPacket' \in Seq(1..MaxUp) /\ Len(toPacket') <= Cap /\ channelHand' = 0
      BY <1>2, <2>2 DEF PushPacket
    <2>4. UNCHANGED <<ups, workerUp, toFdps, queue, left, down, ready, watch>>
      BY <1>2 DEF PushPacket
    <2> QED
      BY <2>3, <2>4 DEF TypeOK, down, watch
  <1>3. CASE WorkerTakesUp
    <2>1. toPacket \in Seq(1..MaxUp) /\ toPacket # <<>> /\ Len(toPacket) <= Cap
      BY <1>3 DEF WorkerTakesUp, TypeOK
    <2>2. Head(toPacket) \in 1..MaxUp /\ Tail(toPacket) \in Seq(1..MaxUp) /\ Len(Tail(toPacket)) <= Cap
      BY <2>1, SeqMoves
    <2>3. toPacket' \in Seq(1..MaxUp) /\ Len(toPacket') <= Cap /\ workerUp' \in 1..MaxUp
      BY <1>3, <2>2 DEF WorkerTakesUp
    <2>4. UNCHANGED <<ups, channelHand, toFdps, queue, left, down, ready, watch>>
      BY <1>3 DEF WorkerTakesUp
    <2> QED
      BY <2>3, <2>4 DEF TypeOK, down, watch
  <1>4. CASE WorkerPushesUp
    <2>1. workerUp \in 1..MaxUp /\ toFdps \in Seq(1..MaxUp) /\ Len(toFdps) < Cap
      BY <1>4 DEF WorkerPushesUp, Room, TypeOK
    <2>2. Append(toFdps, workerUp) \in Seq(1..MaxUp) /\ Len(Append(toFdps, workerUp)) <= Cap
      BY <2>1, SeqMoves
    <2>3. toFdps' \in Seq(1..MaxUp) /\ Len(toFdps') <= Cap /\ workerUp' = 0
      BY <1>4, <2>2 DEF WorkerPushesUp
    <2>4. UNCHANGED <<ups, channelHand, toPacket, queue, left, down, ready, watch>>
      BY <1>4 DEF WorkerPushesUp
    <2> QED
      BY <2>3, <2>4 DEF TypeOK, down, watch
  <1>5. CASE AppendMsg
    <2>1. toFdps \in Seq(1..MaxUp) /\ toFdps # <<>> /\ queue \in Seq(1..MaxUp) /\ Len(toFdps) <= Cap
      BY <1>5 DEF AppendMsg, TypeOK
    <2>2. toFdps' \in Seq(1..MaxUp) /\ queue' \in Seq(1..MaxUp) /\ Len(toFdps') <= Cap
      BY <1>5, <2>1, SeqMoves DEF AppendMsg
    <2> QED
      BY <1>5, <2>2 DEF AppendMsg, TypeOK, down, watch
  <1>6. CASE CleanOldMsg
    BY <1>6, SeqMoves DEF CleanOldMsg, TypeOK, down, watch
  <1>7. CASE OldiTakes
    <2>1. grpc \in Seq(1..MaxLocated) /\ grpc # <<>> /\ Len(grpc) <= Cap
      BY <1>7 DEF OldiTakes, TypeOK
    <2>2. Head(grpc) \in 1..MaxLocated /\ Tail(grpc) \in Seq(1..MaxLocated) /\ Len(Tail(grpc)) <= Cap
      BY <2>1, SeqMoves
    <2>3. grpc' \in Seq(1..MaxLocated) /\ Len(grpc') <= Cap /\ oldiHand' \in 1..MaxLocated
      BY <1>7, <2>2 DEF OldiTakes
    <2>4. UNCHANGED <<up, rest, downs, fromFdps, workerDown, fromPacket, handled, sent, ready, watch>>
      BY <1>7 DEF OldiTakes
    <2> QED
      BY <2>3, <2>4 DEF TypeOK, up, watch
  <1>8. CASE OldiPushes
    <2>1. oldiHand \in 1..MaxLocated /\ fromFdps \in Seq(1..MaxLocated) /\ Len(fromFdps) < Cap
      BY <1>8 DEF OldiPushes, Room, TypeOK
    <2>2. Append(fromFdps, oldiHand) \in Seq(1..MaxLocated) /\ Len(Append(fromFdps, oldiHand)) <= Cap
      BY <2>1, SeqMoves
    <2>3. fromFdps' \in Seq(1..MaxLocated) /\ Len(fromFdps') <= Cap /\ oldiHand' = 0
      BY <1>8, <2>2 DEF OldiPushes
    <2>4. UNCHANGED <<up, rest, downs, grpc, workerDown, fromPacket, handled, sent, ready, watch>>
      BY <1>8 DEF OldiPushes
    <2> QED
      BY <2>3, <2>4 DEF TypeOK, up, watch
  <1>9. CASE WorkerTakesDown
    <2>1. fromFdps \in Seq(1..MaxLocated) /\ fromFdps # <<>> /\ Len(fromFdps) <= Cap
      BY <1>9 DEF WorkerTakesDown, TypeOK
    <2>2. Head(fromFdps) \in 1..MaxLocated /\ Tail(fromFdps) \in Seq(1..MaxLocated) /\ Len(Tail(fromFdps)) <= Cap
      BY <2>1, SeqMoves
    <2>3. fromFdps' \in Seq(1..MaxLocated) /\ Len(fromFdps') <= Cap /\ workerDown' \in 1..MaxLocated
      BY <1>9, <2>2 DEF WorkerTakesDown
    <2>4. UNCHANGED <<up, rest, downs, grpc, oldiHand, fromPacket, handled, sent, ready, watch>>
      BY <1>9 DEF WorkerTakesDown
    <2> QED
      BY <2>3, <2>4 DEF TypeOK, up, watch
  <1>10. CASE WorkerPushesDown
    <2>1. workerDown \in 1..MaxLocated /\ fromPacket \in Seq(1..MaxLocated) /\ Len(fromPacket) < Cap
      BY <1>10 DEF WorkerPushesDown, Room, TypeOK
    <2>2. Append(fromPacket, workerDown) \in Seq(1..MaxLocated) /\ Len(Append(fromPacket, workerDown)) <= Cap
      BY <2>1, SeqMoves
    <2>3. fromPacket' \in Seq(1..MaxLocated) /\ Len(fromPacket') <= Cap /\ workerDown' = 0
      BY <1>10, <2>2 DEF WorkerPushesDown
    <2>4. UNCHANGED <<up, rest, downs, grpc, oldiHand, fromFdps, handled, sent, ready, watch>>
      BY <1>10 DEF WorkerPushesDown
    <2> QED
      BY <2>3, <2>4 DEF TypeOK, up, watch
  <1>11. CASE ProcessOldiPacket
    <2>1. /\ fromPacket \in Seq(1..MaxLocated) /\ fromPacket # <<>>
          /\ handled \in Seq(1..MaxLocated) /\ Len(fromPacket) <= Cap
      BY <1>11 DEF ProcessOldiPacket, TypeOK
    <2>2. /\ fromPacket' \in Seq(1..MaxLocated) /\ Len(fromPacket') <= Cap
          /\ handled' \in Seq(1..MaxLocated) /\ Head(fromPacket) \in 1..MaxLocated
      BY <1>11, <2>1, SeqMoves DEF ProcessOldiPacket
    <2>3. sent' \subseteq 1..MaxLocated
      BY <1>11, <2>2 DEF ProcessOldiPacket, TypeOK
    <2> QED
      BY <1>11, <2>2, <2>3 DEF ProcessOldiPacket, TypeOK, up, watch
  <1>12. CASE NewChannelState \/ CheckState
    BY <1>12 DEF NewChannelState, CheckState, TypeOK, up, down, watch
  <1>13. ASSUME NEW p \in Providers, RecvMsq(p) PROVE TypeOK'
    <2> DEFINE n == IF Len(queue) > MaxMsgToSend THEN MaxMsgToSend ELSE Len(queue)
    <2>1. n \in 0..Len(queue)
      BY SeqMoves DEF TypeOK
    <2>2. left' = left \o SubSeq(queue, 1, n) /\ queue' = SubSeq(queue, n + 1, Len(queue))
      BY <1>13 DEF RecvMsq
    <2>3. left' \in Seq(1..MaxUp) /\ queue' \in Seq(1..MaxUp)
      BY <2>1, <2>2, CutOff, SeqMoves DEF TypeOK
    <2> QED
      BY <1>13, <2>3 DEF RecvMsq, TypeOK, down
  <1>14. ASSUME NEW p \in Providers, Forgotten(p) PROVE TypeOK'
    BY <1>14 DEF Forgotten, TypeOK, up, down
  <1>15. ASSUME NEW p \in Providers, NEW c \in Calls, SendMsg(c, p) PROVE TypeOK'
    BY <1>15 DEF SendMsg, TypeOK, up
  <1>16. ASSUME NEW c \in Calls, SendNext(c) PROVE TypeOK'
    <2>1. rest' \in [Calls -> -1..2]
      BY <1>16 DEF SendNext, TypeOK
    <2>2. downs' \in 0..MaxLocated /\ grpc' \in Seq(1..MaxLocated) /\ Len(grpc') <= Cap
      <3>1. grpc \in Seq(1..MaxLocated) /\ Len(grpc) <= Cap /\ downs \in 0..MaxLocated
        BY DEF TypeOK
      <3>2. CASE UNCHANGED <<downs, grpc>>
        BY <3>1, <3>2
      <3>3. CASE Room(grpc) /\ downs < MaxLocated /\ downs' = downs + 1 /\ grpc' = Append(grpc, downs')
        <4>1. downs' \in 1..MaxLocated
          BY <3>1, <3>3
        <4> QED
          BY <3>1, <3>3, <4>1, SeqMoves DEF Room
      <3> QED
        BY <1>16, <3>2, <3>3 DEF SendNext
    <2> QED
      BY <1>16, <2>1, <2>2 DEF SendNext, TypeOK, up, watch
  <1>17. CASE UNCHANGED vars
    BY <1>17 DEF vars, up, down, watch, TypeOK
  <1> QED
    BY <1>1, <1>2, <1>3, <1>4, <1>5, <1>6, <1>7, <1>8, <1>9, <1>10, <1>11, <1>12, <1>13,
       <1>14, <1>15, <1>16, <1>17 DEF Next

\* The Go channels are never fuller than their capacity, and hold messages
\* that exist.
THEOREM TypeCorrect == Spec => []TypeOK
  BY InitTyped, NextTyped, PTL DEF Spec

(***************************************************************************)
(* Nothing is lost, doubled or overtaken on the way up.                    *)
(***************************************************************************)
LEMMA InitUp == Init => UpAccounted
  <1> SUFFICES ASSUME Init PROVE UpAccounted
    OBVIOUS
  <1>1. InHand(0) = <<>>
    BY DEF InHand
  <1>2. Numbers(0) = <<>>
    BY DEF Numbers
  <1>3. <<>> \o <<>> = <<>>
    OBVIOUS
  <1> QED
    BY <1>1, <1>2, <1>3, Zenon DEF Init, UpAccounted

LEMMA NextUp == TypeOK /\ UpAccounted /\ [Next]_vars => UpAccounted'
  <1> SUFFICES ASSUME TypeOK, UpAccounted, [Next]_vars PROVE UpAccounted'
    OBVIOUS
  <1> DEFINE M == 1..MaxUp
  <1>t. /\ left \in Seq(M) /\ queue \in Seq(M) /\ toFdps \in Seq(M) /\ toPacket \in Seq(M)
        /\ InHand(workerUp) \in Seq(M) /\ InHand(channelHand) \in Seq(M)
    BY ExchangeAssumption, HandIsSeq DEF TypeOK
  <1>0. InHand(0) = <<>> /\ <<>> \in Seq(M) /\ \A m \in M : InHand(m) = <<m>> /\ <<m>> \in Seq(M)
    BY DEF InHand
  <1> DEFINE a1 == left \o queue
             a2 == a1 \o toFdps
             a3 == a2 \o InHand(workerUp)
             a4 == a3 \o toPacket
  <1>s. a1 \in Seq(M) /\ a2 \in Seq(M) /\ a3 \in Seq(M) /\ a4 \in Seq(M)
    BY <1>t, ConcatProperties
  <1>r. a4 \o InHand(channelHand) = Numbers(ups)
    BY DEF UpAccounted
  <1>p. /\ a1' = left' \o queue' /\ a2' = a1' \o toFdps' /\ a3' = a2' \o InHand(workerUp')
        /\ a4' = a3' \o toPacket'
    OBVIOUS
  <1> SUFFICES a4' \o InHand(channelHand') = Numbers(ups')
    BY DEF UpAccounted
  <1> HIDE DEF M, a1, a2, a3, a4
  <1>1. CASE ChannelMessage
    <2>1. /\ ups \in Nat /\ ups + 1 \in M /\ ups' = ups + 1 /\ channelHand = 0 /\ channelHand' = ups + 1
      BY <1>1, ExchangeAssumption DEF ChannelMessage, InSelect, TypeOK, M
    <2>2. a4 = Numbers(ups)
      BY <1>0, <1>r, <1>s, <2>1, ConcatEmptySeq
    <2>3. a4 \o <<ups + 1>> = Numbers(ups + 1)
      BY <1>s, <2>1, <2>2, NumbersNext, AppendIsConcat
    <2>4. a4' = a4
      BY <1>1, <1>p DEF ChannelMessage, a1, a2, a3, a4
    <2> QED
      BY <1>p, <1>0, <2>1, <2>3, <2>4
  <1>2. CASE PushPacket
    <2>1. /\ channelHand \in M /\ toPacket' = Append(toPacket, channelHand) /\ channelHand' = 0
      BY <1>2 DEF PushPacket, TypeOK, M
    <2>2. a3' = a3 /\ ups' = ups
      BY <1>2, <1>p DEF PushPacket, a1, a2, a3
    <2>3. (a3 \o toPacket) \o <<channelHand>> = (a3 \o Append(toPacket, channelHand)) \o <<>>
      BY <1>s, <1>t, <2>1, PushOn, ZenonT(40)
    <2> QED
      BY <1>p, <1>0, <1>r, <2>1, <2>2, <2>3, Zenon DEF a4
  <1>3. CASE WorkerTakesUp
    <2>1. /\ workerUp = 0 /\ toPacket # <<>> /\ workerUp' = Head(toPacket) /\ toPacket' = Tail(toPacket)
      BY <1>3 DEF WorkerTakesUp, WorkerInSelect
    <2>2. a2' = a2 /\ ups' = ups /\ channelHand' = channelHand
      BY <1>3, <1>p DEF WorkerTakesUp, a1, a2
    <2>3. Head(toPacket) \in M
      BY <1>t, <2>1, HeadTailProperties
    <2>4. (a2 \o <<>>) \o toPacket = (a2 \o <<Head(toPacket)>>) \o Tail(toPacket)
      BY <1>s, <1>t, <2>1, TakeHead
    <2>5. a4' = a4
      BY <1>p, <1>0, <2>1, <2>2, <2>3, <2>4, Zenon DEF a3, a4
    <2> QED
      BY <1>r, <2>2, <2>5, Zenon
  <1>4. CASE WorkerPushesUp
    <2>1. /\ workerUp \in M /\ toFdps' = Append(toFdps, workerUp) /\ workerUp' = 0
      BY <1>4 DEF WorkerPushesUp, TypeOK, M
    <2>2. a1' = a1 /\ ups' = ups /\ channelHand' = channelHand /\ toPacket' = toPacket
      BY <1>4, <1>p DEF WorkerPushesUp, a1
    <2>3. (a1 \o toFdps) \o <<workerUp>> = (a1 \o Append(toFdps, workerUp)) \o <<>>
      BY <1>s, <1>t, <2>1, PushOn, ZenonT(40)
    <2>4. a3' = a3
      BY <1>0, <1>p, <2>1, <2>2, <2>3, Zenon DEF a2, a3
    <2> QED
      BY <1>p, <1>r, <2>2, <2>4, Zenon DEF a4
  <1>5. CASE AppendMsg
    <2>1. /\ toFdps # <<>> /\ queue' = Append(queue, Head(toFdps)) /\ toFdps' = Tail(toFdps)
      BY <1>5 DEF AppendMsg
    <2>2. /\ left' = left /\ ups' = ups /\ channelHand' = channelHand /\ workerUp' = workerUp
          /\ toPacket' = toPacket
      BY <1>5 DEF AppendMsg
    <2>3. (left \o queue) \o toFdps = (left \o Append(queue, Head(toFdps))) \o Tail(toFdps)
      <3>1. Head(toFdps) \in M /\ Tail(toFdps) \in Seq(M)
        BY <1>t, <2>1, HeadTailProperties
      <3>2. a1 \o toFdps = Append(a1, Head(toFdps)) \o Tail(toFdps)
        BY <1>s, <1>t, <2>1, MoveOn
      <3>3. left \o Append(queue, Head(toFdps)) = Append(left \o queue, Head(toFdps))
        BY <1>t, <3>1, AppendLast, SMTT(20)
      <3> QED
        BY <3>2, <3>3, Zenon DEF a1
    <2>4. a2' = a2
      BY <1>p, <2>1, <2>2, <2>3, Zenon DEF a1, a2
    <2> QED
      BY <1>p, <1>r, <2>2, <2>4, Zenon DEF a3, a4
  <1>6. CASE CleanOldMsg
    <2>1. left' = left \o queue /\ queue' = <<>> /\ left \o queue \in Seq(M)
      BY <1>6, <1>s DEF CleanOldMsg, a1
    <2>2. /\ toFdps' = toFdps /\ ups' = ups /\ channelHand' = channelHand /\ workerUp' = workerUp
          /\ toPacket' = toPacket
      BY <1>6 DEF CleanOldMsg
    <2>3. (left \o queue) \o <<>> = left \o queue
      BY <2>1, ConcatEmptySeq
    <2>4. a1' = a1
      BY <1>p, <2>1, <2>3, Zenon DEF a1
    <2> QED
      BY <1>p, <1>r, <2>2, <2>4, Zenon DEF a2, a3, a4
  <1>7. ASSUME NEW p \in Providers, RecvMsq(p) PROVE a4' \o InHand(channelHand') = Numbers(ups')
    <2> DEFINE n == IF Len(queue) > MaxMsgToSend THEN MaxMsgToSend ELSE Len(queue)
    <2>1. n \in 0..Len(queue)
      BY <1>t, ExchangeAssumption, LenProperties
    <2>2. left' = left \o SubSeq(queue, 1, n) /\ queue' = SubSeq(queue, n + 1, Len(queue))
      BY <1>7 DEF RecvMsq
    <2> HIDE DEF n
    <2>3. /\ toFdps' = toFdps /\ ups' = ups /\ channelHand' = channelHand /\ workerUp' = workerUp
          /\ toPacket' = toPacket
      BY <1>7 DEF RecvMsq
    <2>4. left \o queue = (left \o SubSeq(queue, 1, n)) \o SubSeq(queue, n + 1, Len(queue))
      BY <1>t, <2>1, CutOff, ZenonT(40)
    <2>5. a1' = a1
      BY <1>p, <2>2, <2>4, Zenon DEF a1
    <2> QED
      BY <1>p, <1>r, <2>3, <2>5, Zenon DEF a2, a3, a4
  <1>8. ASSUME UNCHANGED up PROVE a4' \o InHand(channelHand') = Numbers(ups')
    BY <1>8, <1>p, <1>r DEF up, a1, a2, a3, a4
  <1> QED
    BY <1>1, <1>2, <1>3, <1>4, <1>5, <1>6, <1>7, <1>8
    DEF Next, vars, OldiTakes, OldiPushes, WorkerTakesDown, WorkerPushesDown, ProcessOldiPacket,
        NewChannelState, CheckState, Forgotten, SendMsg, SendNext

\* UpAccounted for any capacities, numbers of messages, providers and calls.
THEOREM UpOrder == Spec => []UpAccounted
  <1>1. Init => UpAccounted
    BY InitUp
  <1>2. TypeOK /\ UpAccounted /\ [Next]_vars => UpAccounted'
    BY NextUp
  <1> QED
    BY <1>1, <1>2, TypeCorrect, PTL DEF Spec

(***************************************************************************)
(* Nor on the way down.                                                    *)
(***************************************************************************)
LEMMA InitDown == Init => DownAccounted
  <1> SUFFICES ASSUME Init PROVE DownAccounted
    OBVIOUS
  <1>1. InHand(0) = <<>>
    BY DEF InHand
  <1>2. Numbers(0) = <<>>
    BY DEF Numbers
  <1>3. <<>> \o <<>> = <<>>
    OBVIOUS
  <1> QED
    BY <1>1, <1>2, <1>3, Zenon DEF Init, DownAccounted

LEMMA NextDown == TypeOK /\ DownAccounted /\ [Next]_vars => DownAccounted'
  <1> SUFFICES ASSUME TypeOK, DownAccounted, [Next]_vars PROVE DownAccounted'
    OBVIOUS
  <1> DEFINE M == 1..MaxLocated
  <1>t. /\ handled \in Seq(M) /\ fromPacket \in Seq(M) /\ fromFdps \in Seq(M) /\ grpc \in Seq(M)
        /\ InHand(workerDown) \in Seq(M) /\ InHand(oldiHand) \in Seq(M)
    BY ExchangeAssumption, HandIsSeq DEF TypeOK
  <1>0. InHand(0) = <<>> /\ <<>> \in Seq(M) /\ \A m \in M : InHand(m) = <<m>> /\ <<m>> \in Seq(M)
    BY DEF InHand
  <1> DEFINE b1 == handled \o fromPacket
             b2 == b1 \o InHand(workerDown)
             b3 == b2 \o fromFdps
             b4 == b3 \o InHand(oldiHand)
  <1>s. b1 \in Seq(M) /\ b2 \in Seq(M) /\ b3 \in Seq(M) /\ b4 \in Seq(M)
    BY <1>t, ConcatProperties
  <1>r. b4 \o grpc = Numbers(downs)
    BY DEF DownAccounted
  <1>p. /\ b1' = handled' \o fromPacket' /\ b2' = b1' \o InHand(workerDown') /\ b3' = b2' \o fromFdps'
        /\ b4' = b3' \o InHand(oldiHand')
    OBVIOUS
  <1> SUFFICES b4' \o grpc' = Numbers(downs')
    BY DEF DownAccounted
  <1> HIDE DEF M, b1, b2, b3, b4
  <1>1. ASSUME NEW c \in Calls, SendNext(c) PROVE b4' \o grpc' = Numbers(downs')
    <2>1. b4' = b4
      BY <1>1, <1>p DEF SendNext, b1, b2, b3, b4
    <2>2. CASE UNCHANGED <<downs, grpc>>
      BY <1>r, <2>1, <2>2
    <2>3. CASE downs < MaxLocated /\ downs' = downs + 1 /\ grpc' = Append(grpc, downs')
      <3>1. downs \in Nat /\ downs + 1 \in M
        BY <2>3, ExchangeAssumption DEF TypeOK, M
      <3>2. b4 \o Append(grpc, downs + 1) = Append(b4 \o grpc, downs + 1)
        BY <1>s, <1>t, <3>1, AppendLast, SMTT(20)
      <3>3. Append(Numbers(downs), downs + 1) = Numbers(downs + 1)
        BY <3>1, NumbersNext
      <3> QED
        BY <1>r, <2>1, <2>3, <3>2, <3>3, Zenon
    <2> QED
      BY <1>1, <2>2, <2>3 DEF SendNext
  <1>2. CASE OldiTakes
    <2>1. oldiHand = 0 /\ grpc # <<>> /\ oldiHand' = Head(grpc) /\ grpc' = Tail(grpc)
      BY <1>2 DEF OldiTakes, OldiInSelect
    <2>2. b3' = b3 /\ downs' = downs
      BY <1>2, <1>p DEF OldiTakes, b1, b2, b3
    <2>3. Head(grpc) \in M
      BY <1>t, <2>1, HeadTailProperties
    <2>4. (b3 \o <<>>) \o grpc = (b3 \o <<Head(grpc)>>) \o Tail(grpc)
      BY <1>s, <1>t, <2>1, TakeHead
    <2> QED
      BY <1>0, <1>p, <1>r, <2>1, <2>2, <2>3, <2>4, Zenon DEF b4
  <1>3. CASE OldiPushes
    <2>1. oldiHand \in M /\ fromFdps' = Append(fromFdps, oldiHand) /\ oldiHand' = 0
      BY <1>3 DEF OldiPushes, TypeOK, M
    <2>2. b2' = b2 /\ downs' = downs /\ grpc' = grpc
      BY <1>3, <1>p DEF OldiPushes, b1, b2
    <2>3. (b2 \o fromFdps) \o <<oldiHand>> = (b2 \o Append(fromFdps, oldiHand)) \o <<>>
      BY <1>s, <1>t, <2>1, PushOn, ZenonT(40)
    <2>4. b4' = b4
      BY <1>0, <1>p, <2>1, <2>2, <2>3, Zenon DEF b3, b4
    <2> QED
      BY <1>r, <2>2, <2>4, Zenon
  <1>4. CASE WorkerTakesDown
    <2>1. /\ workerDown = 0 /\ fromFdps # <<>>
          /\ workerDown' = Head(fromFdps) /\ fromFdps' = Tail(fromFdps)
      BY <1>4 DEF WorkerTakesDown, WorkerInSelect
    <2>2. b1' = b1 /\ downs' = downs /\ grpc' = grpc /\ oldiHand' = oldiHand
      BY <1>4, <1>p DEF WorkerTakesDown, b1
    <2>3. Head(fromFdps) \in M
      BY <1>t, <2>1, HeadTailProperties
    <2>4. (b1 \o <<>>) \o fromFdps = (b1 \o <<Head(fromFdps)>>) \o Tail(fromFdps)
      BY <1>s, <1>t, <2>1, TakeHead
    <2>5. b3' = b3
      BY <1>0, <1>p, <2>1, <2>2, <2>3, <2>4, Zenon DEF b2, b3
    <2> QED
      BY <1>p, <1>r, <2>2, <2>5, Zenon DEF b4
  <1>5. CASE WorkerPushesDown
    <2>1. workerDown \in M /\ fromPacket' = Append(fromPacket, workerDown) /\ workerDown' = 0
      BY <1>5 DEF WorkerPushesDown, TypeOK, M
    <2>2. handled' = handled /\ downs' = downs /\ grpc' = grpc /\ oldiHand' = oldiHand /\ fromFdps' = fromFdps
      BY <1>5 DEF WorkerPushesDown
    <2>3. (handled \o fromPacket) \o <<workerDown>> = (handled \o Append(fromPacket, workerDown)) \o <<>>
      BY <1>t, <2>1, PushOn, ZenonT(40)
    <2>4. b2' = b2
      BY <1>0, <1>p, <2>1, <2>2, <2>3, Zenon DEF b1, b2
    <2> QED
      BY <1>p, <1>r, <2>2, <2>4, Zenon DEF b3, b4
  <1>6. CASE ProcessOldiPacket
    <2>1. /\ fromPacket # <<>> /\ fromPacket' = Tail(fromPacket)
          /\ handled' = Append(handled, Head(fromPacket))
      BY <1>6 DEF ProcessOldiPacket
    <2>2. /\ downs' = downs /\ grpc' = grpc /\ oldiHand' = oldiHand /\ fromFdps' = fromFdps
          /\ workerDown' = workerDown
      BY <1>6 DEF ProcessOldiPacket
    <2>3. handled \o fromPacket = Append(handled, Head(fromPacket)) \o Tail(fromPacket)
      BY <1>t, <2>1, MoveOn
    <2>4. b1' = b1
      BY <1>p, <2>1, <2>3, Zenon DEF b1
    <2> QED
      BY <1>p, <1>r, <2>2, <2>4, Zenon DEF b2, b3, b4
  <1>7. ASSUME UNCHANGED <<downs, grpc, oldiHand, fromFdps, workerDown, fromPacket, handled>>
        PROVE  b4' \o grpc' = Numbers(downs')
    BY <1>7, <1>p, <1>r DEF b1, b2, b3, b4
  <1> QED
    BY <1>1, <1>2, <1>3, <1>4, <1>5, <1>6, <1>7
    DEF Next, vars, down, ChannelMessage, PushPacket, WorkerTakesUp, WorkerPushesUp, AppendMsg,
        CleanOldMsg, RecvMsq, NewChannelState, CheckState, Forgotten, SendMsg

\* DownAccounted for any capacities, numbers of messages, providers and calls.
THEOREM DownOrder == Spec => []DownAccounted
  <1>1. Init => DownAccounted
    BY InitDown
  <1>2. TypeOK /\ DownAccounted /\ [Next]_vars => DownAccounted'
    BY NextDown
  <1> QED
    BY <1>1, <1>2, TypeCorrect, PTL DEF Spec

(***************************************************************************)
(* Both ways implement the queue of MessagePath.                           *)
(***************************************************************************)
\* The head of a row is the head of its first sequence.
LEMMA HeadOfRow ==
  ASSUME NEW S, NEW s \in Seq(S), NEW t \in Seq(S), s # <<>>
  PROVE  s \o t # <<>> /\ Head(s \o t) = Head(s) /\ Tail(s \o t) = Tail(s) \o t
  <1> DEFINE r == s \o t
             u == Tail(s) \o t
  <1>1. Len(s) \in Nat \ {0} /\ Len(t) \in Nat
    BY EmptySeq, LenProperties
  <1>2. /\ Head(s) = s[1] /\ Tail(s) \in Seq(S) /\ Len(Tail(s)) = Len(s) - 1
        /\ \A i \in 1..Len(Tail(s)) : Tail(s)[i] = s[i + 1]
    BY HeadTailProperties
  <1>3. /\ r \in Seq(S) /\ Len(r) = Len(s) + Len(t)
        /\ \A i \in 1..Len(s) + Len(t) : r[i] = IF i <= Len(s) THEN s[i] ELSE t[i - Len(s)]
    BY ConcatProperties
  <1>4. /\ u \in Seq(S) /\ Len(u) = Len(Tail(s)) + Len(t)
        /\ \A i \in 1..Len(Tail(s)) + Len(t) :
             u[i] = IF i <= Len(Tail(s)) THEN Tail(s)[i] ELSE t[i - Len(Tail(s))]
    BY <1>2, ConcatProperties
  <1> HIDE DEF r, u
  <1>5. r # <<>>
    BY <1>1, <1>3
  <1>6. /\ Head(r) = r[1] /\ Tail(r) \in Seq(S) /\ Len(Tail(r)) = Len(r) - 1
        /\ \A i \in 1..Len(Tail(r)) : Tail(r)[i] = r[i + 1]
    BY <1>3, <1>5, HeadTailProperties
  <1>7. Head(r) = Head(s)
    BY <1>1, <1>2, <1>3, <1>6
  <1>8. Len(Tail(r)) = Len(u)
    BY <1>1, <1>2, <1>3, <1>4, <1>6
  <1>9. ASSUME NEW i \in 1..Len(u) PROVE Tail(r)[i] = u[i]
    <2>1. i \in 1..Len(Tail(r)) /\ i + 1 \in 1..Len(s) + Len(t) /\ i \in 1..Len(Tail(s)) + Len(t)
      BY <1>1, <1>2, <1>3, <1>4, <1>6, <1>8
    <2>2. Tail(r)[i] = r[i + 1]
      BY <1>6, <2>1
    <2>3. CASE i <= Len(Tail(s))
      BY <1>1, <1>2, <1>3, <1>4, <2>1, <2>2, <2>3
    <2>4. CASE i > Len(Tail(s))
      BY <1>1, <1>2, <1>3, <1>4, <2>1, <2>2, <2>4
    <2> QED
      BY <1>1, <1>2, <2>1, <2>3, <2>4
  <1>10. Tail(r) = u
    BY <1>4, <1>6, <1>8, <1>9, SeqEqual
  <1> QED
    BY <1>5, <1>7, <1>10 DEF r, u

LEMMA RowLen ==
  ASSUME NEW S, NEW s \in Seq(S), NEW t \in Seq(S)
  PROVE  s \o t \in Seq(S) /\ Len(s \o t) = Len(s) + Len(t) /\ Len(s) \in Nat /\ Len(t) \in Nat
  BY ConcatProperties, LenProperties

LEMMA HandLen ==
  ASSUME NEW m
  PROVE  Len(InHand(m)) <= 1 /\ Len(InHand(0)) = 0
  BY DEF InHand

\* How full a way is.
LEMMA WayUpLen ==
  ASSUME TypeOK
  PROVE  /\ WayUp \in Seq(1..MaxUp)
         /\ channelHand = 0 => Len(WayUp) < 2 * Cap + 2
  <1> DEFINE M == 1..MaxUp
             h == InHand(workerUp)
             k == InHand(channelHand)
             w1 == toFdps \o h
             w2 == w1 \o toPacket
  <1>1. toFdps \in Seq(M) /\ toPacket \in Seq(M) /\ h \in Seq(M) /\ k \in Seq(M)
    BY ExchangeAssumption, HandIsSeq DEF TypeOK
  <1>2. Len(toFdps) <= Cap /\ Len(toPacket) <= Cap /\ Cap \in Nat
    BY ExchangeAssumption DEF TypeOK
  <1>3. Len(h) <= 1 /\ (channelHand = 0 => Len(k) = 0)
    BY HandLen
  <1> HIDE DEF M, h, k
  <1>4. w1 \in Seq(M) /\ Len(w1) = Len(toFdps) + Len(h) /\ Len(toFdps) \in Nat /\ Len(h) \in Nat
    BY <1>1, RowLen
  <1> HIDE DEF w1
  <1>5. w2 \in Seq(M) /\ Len(w2) = Len(w1) + Len(toPacket) /\ Len(toPacket) \in Nat
    BY <1>1, <1>4, RowLen
  <1> HIDE DEF w2
  <1>6. w2 \o k \in Seq(M) /\ Len(w2 \o k) = Len(w2) + Len(k) /\ Len(k) \in Nat
    BY <1>1, <1>5, RowLen
  <1>7. channelHand = 0 => Len(w2 \o k) < 2 * Cap + 2
    BY <1>2, <1>3, <1>4, <1>5, <1>6
  <1> QED
    BY <1>6, <1>7 DEF WayUp, M, h, k, w1, w2

LEMMA WayDownLen ==
  ASSUME TypeOK
  PROVE  /\ WayDown \in Seq(1..MaxLocated)
         /\ Room(grpc) => Len(WayDown) < 3 * Cap + 2
  <1> DEFINE M == 1..MaxLocated
             h == InHand(workerDown)
             k == InHand(oldiHand)
             w1 == fromPacket \o h
             w2 == w1 \o fromFdps
             w3 == w2 \o k
  <1>1. fromPacket \in Seq(M) /\ fromFdps \in Seq(M) /\ grpc \in Seq(M) /\ h \in Seq(M) /\ k \in Seq(M)
    BY ExchangeAssumption, HandIsSeq DEF TypeOK
  <1>2. Len(fromPacket) <= Cap /\ Len(fromFdps) <= Cap /\ Cap \in Nat
    BY ExchangeAssumption DEF TypeOK
  <1>3. Len(h) <= 1 /\ Len(k) <= 1
    BY HandLen
  <1> HIDE DEF M, h, k
  <1>4. w1 \in Seq(M) /\ Len(w1) = Len(fromPacket) + Len(h) /\ Len(fromPacket) \in Nat /\ Len(h) \in Nat
    BY <1>1, RowLen
  <1> HIDE DEF w1
  <1>5. w2 \in Seq(M) /\ Len(w2) = Len(w1) + Len(fromFdps) /\ Len(fromFdps) \in Nat
    BY <1>1, <1>4, RowLen
  <1> HIDE DEF w2
  <1>6. w3 \in Seq(M) /\ Len(w3) = Len(w2) + Len(k) /\ Len(k) \in Nat
    BY <1>1, <1>5, RowLen
  <1> HIDE DEF w3
  <1>7. w3 \o grpc \in Seq(M) /\ Len(w3 \o grpc) = Len(w3) + Len(grpc) /\ Len(grpc) \in Nat
    BY <1>1, <1>6, RowLen
  <1>8. Room(grpc) => Len(w3 \o grpc) < 3 * Cap + 2
    BY <1>2, <1>3, <1>4, <1>5, <1>6, <1>7 DEF Room
  <1> QED
    BY <1>7, <1>8 DEF WayDown, M, h, k, w1, w2, w3

LEMMA InitPaths == Init => Up!Init /\ Down!Init
  <1> SUFFICES ASSUME Init PROVE Up!Init /\ Down!Init
    OBVIOUS
  <1>1. InHand(0) = <<>>
    BY DEF InHand
  <1>2. <<>> \o <<>> = <<>>
    OBVIOUS
  <1>3. WayUp = <<>> /\ WayDown = <<>> /\ left \o queue = <<>>
    BY <1>1, <1>2, Zenon DEF Init, WayUp, WayDown
  <1> QED
    BY <1>3 DEF Init, Up!Init, Down!Init

\* A hand that pushes into the first channel of a row.
LEMMA PushFirst ==
  ASSUME NEW S, NEW s \in Seq(S), NEW m \in S
  PROVE  s \o <<m>> = Append(s, m) \o <<>>
  <1>1. Append(s, m) \in Seq(S) /\ Append(s, m) = s \o <<m>>
    BY AppendProperties, AppendIsConcat
  <1>2. Append(s, m) \o <<>> = Append(s, m)
    BY <1>1, ConcatEmptySeq
  <1> QED
    BY <1>1, <1>2

LEMMA StepUp == TypeOK /\ [Next]_vars => [Up!Next]_(Up!vars)
  <1> SUFFICES ASSUME TypeOK, [Next]_vars PROVE [Up!Next]_(Up!vars)
    OBVIOUS
  <1> DEFINE M == 1..MaxUp
             o  == left \o queue
             w1 == toFdps \o InHand(workerUp)
             w2 == w1 \o toPacket
             w  == WayUp
  <1>t. /\ left \in Seq(M) /\ queue \in Seq(M) /\ toFdps \in Seq(M) /\ toPacket \in Seq(M)
        /\ InHand(workerUp) \in Seq(M) /\ InHand(channelHand) \in Seq(M)
    BY ExchangeAssumption, HandIsSeq DEF TypeOK
  <1>0. InHand(0) = <<>> /\ <<>> \in Seq(M) /\ \A m \in M : InHand(m) = <<m>> /\ <<m>> \in Seq(M)
    BY DEF InHand
  <1>s. o \in Seq(M) /\ w1 \in Seq(M) /\ w2 \in Seq(M)
    BY <1>t, ConcatProperties
  <1>w. w = w2 \o InHand(channelHand) /\ w' = w2' \o InHand(channelHand')
    BY DEF WayUp
  <1>p. o' = left' \o queue' /\ w1' = toFdps' \o InHand(workerUp') /\ w2' = w1' \o toPacket'
    OBVIOUS
  <1>v. Up!vars = <<ups, w, o>> /\ Up!vars' = <<ups', w', o'>>
    BY DEF Up!vars
  <1> HIDE DEF M, o, w1, w2, w
  <1>1. CASE ChannelMessage
    <2>1. ups \in Nat /\ ups + 1 \in M /\ ups' = ups + 1 /\ channelHand = 0 /\ channelHand' = ups + 1
      BY <1>1, ExchangeAssumption DEF ChannelMessage, InSelect, TypeOK, M
    <2>2. w2' = w2 /\ o' = o
      BY <1>1, <1>p DEF ChannelMessage, w1, w2, o
    <2>3. w = w2
      BY <1>0, <1>s, <1>w, <2>1, ConcatEmptySeq
    <2>4. w' = Append(w, ups + 1)
      BY <1>0, <1>s, <1>w, <2>1, <2>2, <2>3, AppendIsConcat
    <2>5. Len(w) < 2 * Cap + 2
      BY <2>1, WayUpLen DEF w
    <2>6. Up!Enter
      BY <2>1, <2>2, <2>4, <2>5 DEF Up!Enter, w, o
    <2> QED
      BY <2>6 DEF Up!Next
  <1>2. CASE PushPacket
    <2>1. channelHand \in M /\ toPacket' = Append(toPacket, channelHand) /\ channelHand' = 0
      BY <1>2 DEF PushPacket, TypeOK, M
    <2>2. w1' = w1 /\ ups' = ups /\ o' = o
      BY <1>2, <1>p DEF PushPacket, w1, o
    <2>3. (w1 \o toPacket) \o <<channelHand>> = (w1 \o Append(toPacket, channelHand)) \o <<>>
      BY <1>s, <1>t, <2>1, PushOn, ZenonT(40)
    <2>4. w' = w
      BY <1>0, <1>p, <1>w, <2>1, <2>2, <2>3, Zenon DEF w2
    <2> QED
      BY <1>v, <2>2, <2>4
  <1>3. CASE WorkerTakesUp
    <2>1. workerUp = 0 /\ toPacket # <<>> /\ workerUp' = Head(toPacket) /\ toPacket' = Tail(toPacket)
      BY <1>3 DEF WorkerTakesUp, WorkerInSelect
    <2>2. toFdps' = toFdps /\ ups' = ups /\ channelHand' = channelHand /\ o' = o
      BY <1>3, <1>p DEF WorkerTakesUp, o
    <2>3. Head(toPacket) \in M
      BY <1>t, <2>1, HeadTailProperties
    <2>4. (toFdps \o <<>>) \o toPacket = (toFdps \o <<Head(toPacket)>>) \o Tail(toPacket)
      BY <1>t, <2>1, TakeHead
    <2>5. w2' = w2
      BY <1>0, <1>p, <2>1, <2>2, <2>3, <2>4, Zenon DEF w1, w2
    <2>6. w' = w
      BY <1>w, <2>2, <2>5, Zenon
    <2> QED
      BY <1>v, <2>2, <2>6
  <1>4. CASE WorkerPushesUp
    <2>1. workerUp \in M /\ toFdps' = Append(toFdps, workerUp) /\ workerUp' = 0
      BY <1>4 DEF WorkerPushesUp, TypeOK, M
    <2>2. ups' = ups /\ channelHand' = channelHand /\ toPacket' = toPacket /\ o' = o
      BY <1>4, <1>p DEF WorkerPushesUp, o
    <2>3. toFdps \o <<workerUp>> = Append(toFdps, workerUp) \o <<>>
      BY <1>t, <2>1, PushFirst, ZenonT(40)
    <2>4. w1' = w1
      BY <1>0, <1>p, <2>1, <2>3, Zenon DEF w1
    <2>5. w' = w
      BY <1>p, <1>w, <2>2, <2>4, Zenon DEF w2
    <2> QED
      BY <1>v, <2>2, <2>5
  <1>5. CASE AppendMsg
    <2> DEFINE h == Head(toFdps)
               t1 == Tail(toFdps) \o InHand(workerUp)
               t2 == t1 \o toPacket
    <2>1. toFdps # <<>> /\ queue' = Append(queue, h) /\ toFdps' = Tail(toFdps)
      BY <1>5 DEF AppendMsg
    <2>2. /\ left' = left /\ ups' = ups /\ channelHand' = channelHand /\ workerUp' = workerUp
          /\ toPacket' = toPacket
      BY <1>5 DEF AppendMsg
    <2>3. h \in M
      BY <1>t, <2>1, HeadTailProperties
    <2> HIDE DEF h
    <2>4. w1 # <<>> /\ Head(w1) = h /\ Tail(w1) = t1
      BY <1>t, <2>1, HeadOfRow DEF w1, h
    <2> HIDE DEF t1
    <2>5. w2 # <<>> /\ Head(w2) = h /\ Tail(w2) = t2
      BY <1>s, <1>t, <2>4, HeadOfRow, ZenonT(40) DEF w2
    <2> HIDE DEF t2
    <2>6. w # <<>> /\ Head(w) = h /\ Tail(w) = t2 \o InHand(channelHand)
      BY <1>s, <1>t, <1>w, <2>5, HeadOfRow, ZenonT(40)
    <2>7. w' = Tail(w)
      BY <1>p, <1>w, <2>1, <2>2, <2>6, Zenon DEF t1, t2
    <2>8. left \o Append(queue, h) = Append(left \o queue, h)
      BY <1>t, <2>3, AppendLast, SMTT(20)
    <2>9. o' = Append(o, Head(w))
      BY <1>p, <2>1, <2>2, <2>6, <2>8, Zenon DEF o
    <2>10. Up!Leave
      BY <2>2, <2>6, <2>7, <2>9 DEF Up!Leave, w, o
    <2> QED
      BY <2>10 DEF Up!Next
  <1>6. ASSUME o' = o, UNCHANGED <<ups, channelHand, toPacket, workerUp, toFdps>>
        PROVE  [Up!Next]_(Up!vars)
    <2>1. w' = w
      BY <1>6, <1>p, <1>w DEF w1, w2
    <2> QED
      BY <1>6, <1>v, <2>1
  <1>7. CASE CleanOldMsg
    <2>1. left' = left \o queue /\ queue' = <<>> /\ left \o queue \in Seq(M)
      BY <1>7, <1>s DEF CleanOldMsg, o
    <2>2. (left \o queue) \o <<>> = left \o queue
      BY <2>1, ConcatEmptySeq
    <2>3. o' = o
      BY <1>p, <2>1, <2>2, Zenon DEF o
    <2> QED
      BY <1>6, <1>7, <2>3 DEF CleanOldMsg
  <1>8. ASSUME NEW p \in Providers, RecvMsq(p) PROVE [Up!Next]_(Up!vars)
    <2> DEFINE n == IF Len(queue) > MaxMsgToSend THEN MaxMsgToSend ELSE Len(queue)
    <2>1. n \in 0..Len(queue)
      BY <1>t, ExchangeAssumption, LenProperties
    <2>2. left' = left \o SubSeq(queue, 1, n) /\ queue' = SubSeq(queue, n + 1, Len(queue))
      BY <1>8 DEF RecvMsq
    <2> HIDE DEF n
    <2>3. left \o queue = (left \o SubSeq(queue, 1, n)) \o SubSeq(queue, n + 1, Len(queue))
      BY <1>t, <2>1, CutOff, ZenonT(40)
    <2>4. o' = o
      BY <1>p, <2>2, <2>3, Zenon DEF o
    <2> QED
      BY <1>6, <1>8, <2>4 DEF RecvMsq
  <1>9. ASSUME UNCHANGED up PROVE [Up!Next]_(Up!vars)
    <2>1. o' = o /\ UNCHANGED <<ups, channelHand, toPacket, workerUp, toFdps>>
      BY <1>9, <1>p DEF up, o
    <2> QED
      BY <1>6, <2>1
  <1> QED
    BY <1>1, <1>2, <1>3, <1>4, <1>5, <1>7, <1>8, <1>9
    DEF Next, vars, OldiTakes, OldiPushes, WorkerTakesDown, WorkerPushesDown, ProcessOldiPacket,
        NewChannelState, CheckState, Forgotten, SendMsg, SendNext

LEMMA StepDown == TypeOK /\ [Next]_vars => [Down!Next]_(Down!vars)
  <1> SUFFICES ASSUME TypeOK, [Next]_vars PROVE [Down!Next]_(Down!vars)
    OBVIOUS
  <1> DEFINE M == 1..MaxLocated
             v1 == fromPacket \o InHand(workerDown)
             v2 == v1 \o fromFdps
             v3 == v2 \o InHand(oldiHand)
             w  == WayDown
  <1>t. /\ handled \in Seq(M) /\ fromPacket \in Seq(M) /\ fromFdps \in Seq(M) /\ grpc \in Seq(M)
        /\ InHand(workerDown) \in Seq(M) /\ InHand(oldiHand) \in Seq(M)
    BY ExchangeAssumption, HandIsSeq DEF TypeOK
  <1>0. InHand(0) = <<>> /\ <<>> \in Seq(M) /\ \A m \in M : InHand(m) = <<m>> /\ <<m>> \in Seq(M)
    BY DEF InHand
  <1>s. v1 \in Seq(M) /\ v2 \in Seq(M) /\ v3 \in Seq(M)
    BY <1>t, ConcatProperties
  <1>w. w = v3 \o grpc /\ w' = v3' \o grpc'
    BY DEF WayDown
  <1>p. /\ v1' = fromPacket' \o InHand(workerDown') /\ v2' = v1' \o fromFdps'
        /\ v3' = v2' \o InHand(oldiHand')
    OBVIOUS
  <1>v. Down!vars = <<downs, w, handled>> /\ Down!vars' = <<downs', w', handled'>>
    BY DEF Down!vars
  <1> HIDE DEF M, v1, v2, v3, w
  <1>1. ASSUME NEW c \in Calls, SendNext(c) PROVE [Down!Next]_(Down!vars)
    <2>1. v3' = v3 /\ handled' = handled
      BY <1>1, <1>p DEF SendNext, v1, v2, v3
    <2>2. CASE UNCHANGED <<downs, grpc>>
      BY <1>v, <1>w, <2>1, <2>2
    <2>3. CASE Room(grpc) /\ downs < MaxLocated /\ downs' = downs + 1 /\ grpc' = Append(grpc, downs')
      <3>1. downs \in Nat /\ downs + 1 \in M
        BY <2>3, ExchangeAssumption DEF TypeOK, M
      <3>2. v3 \o Append(grpc, downs + 1) = Append(v3 \o grpc, downs + 1)
        BY <1>s, <1>t, <3>1, AppendLast, SMTT(20)
      <3>3. w' = Append(w, downs')
        BY <1>w, <2>1, <2>3, <3>2, Zenon
      <3>4. Len(w) < 3 * Cap + 2
        BY <2>3, WayDownLen DEF w
      <3>5. Down!Enter
        BY <2>1, <2>3, <3>3, <3>4 DEF Down!Enter, w
      <3> QED
        BY <3>5 DEF Down!Next
    <2> QED
      BY <1>1, <2>2, <2>3 DEF SendNext
  <1>2. CASE OldiTakes
    <2>1. oldiHand = 0 /\ grpc # <<>> /\ oldiHand' = Head(grpc) /\ grpc' = Tail(grpc)
      BY <1>2 DEF OldiTakes, OldiInSelect
    <2>2. v2' = v2 /\ downs' = downs /\ handled' = handled
      BY <1>2, <1>p DEF OldiTakes, v1, v2
    <2>3. Head(grpc) \in M
      BY <1>t, <2>1, HeadTailProperties
    <2>4. (v2 \o <<>>) \o grpc = (v2 \o <<Head(grpc)>>) \o Tail(grpc)
      BY <1>s, <1>t, <2>1, TakeHead
    <2>5. w' = w
      BY <1>0, <1>p, <1>w, <2>1, <2>2, <2>3, <2>4, Zenon DEF v3
    <2> QED
      BY <1>v, <2>2, <2>5
  <1>3. CASE OldiPushes
    <2>1. oldiHand \in M /\ fromFdps' = Append(fromFdps, oldiHand) /\ oldiHand' = 0
      BY <1>3 DEF OldiPushes, TypeOK, M
    <2>2. v1' = v1 /\ downs' = downs /\ grpc' = grpc /\ handled' = handled
      BY <1>3, <1>p DEF OldiPushes, v1
    <2>3. (v1 \o fromFdps) \o <<oldiHand>> = (v1 \o Append(fromFdps, oldiHand)) \o <<>>
      BY <1>s, <1>t, <2>1, PushOn, ZenonT(40)
    <2>4. v3' = v3
      BY <1>0, <1>p, <2>1, <2>2, <2>3, Zenon DEF v2, v3
    <2>5. w' = w
      BY <1>w, <2>2, <2>4, Zenon
    <2> QED
      BY <1>v, <2>2, <2>5
  <1>4. CASE WorkerTakesDown
    <2>1. /\ workerDown = 0 /\ fromFdps # <<>>
          /\ workerDown' = Head(fromFdps) /\ fromFdps' = Tail(fromFdps)
      BY <1>4 DEF WorkerTakesDown, WorkerInSelect
    <2>2. /\ fromPacket' = fromPacket /\ downs' = downs /\ grpc' = grpc /\ oldiHand' = oldiHand
          /\ handled' = handled
      BY <1>4 DEF WorkerTakesDown
    <2>3. Head(fromFdps) \in M
      BY <1>t, <2>1, HeadTailProperties
    <2>4. (fromPacket \o <<>>) \o fromFdps = (fromPacket \o <<Head(fromFdps)>>) \o Tail(fromFdps)
      BY <1>t, <2>1, TakeHead
    <2>5. v2' = v2
      BY <1>0, <1>p, <2>1, <2>2, <2>3, <2>4, Zenon DEF v1, v2
    <2>6. w' = w
      BY <1>p, <1>w, <2>2, <2>5, Zenon DEF v3
    <2> QED
      BY <1>v, <2>2, <2>6
  <1>5. CASE WorkerPushesDown
    <2>1. workerDown \in M /\ fromPacket' = Append(fromPacket, workerDown) /\ workerDown' = 0
      BY <1>5 DEF WorkerPushesDown, TypeOK, M
    <2>2. /\ downs' = downs /\ grpc' = grpc /\ oldiHand' = oldiHand /\ fromFdps' = fromFdps
          /\ handled' = handled
      BY <1>5 DEF WorkerPushesDown
    <2>3. fromPacket \o <<workerDown>> = Append(fromPacket, workerDown) \o <<>>
      BY <1>t, <2>1, PushFirst, ZenonT(40)
    <2>4. v1' = v1
      BY <1>0, <1>p, <2>1, <2>3, Zenon DEF v1
    <2>5. w' = w
      BY <1>p, <1>w, <2>2, <2>4, Zenon DEF v2, v3
    <2> QED
      BY <1>v, <2>2, <2>5
  <1>6. CASE ProcessOldiPacket
    <2> DEFINE h == Head(fromPacket)
               t1 == Tail(fromPacket) \o InHand(workerDown)
               t2 == t1 \o fromFdps
               t3 == t2 \o InHand(oldiHand)
    <2>1. fromPacket # <<>> /\ fromPacket' = Tail(fromPacket) /\ handled' = Append(handled, h)
      BY <1>6 DEF ProcessOldiPacket
    <2>2. /\ downs' = downs /\ grpc' = grpc /\ oldiHand' = oldiHand /\ fromFdps' = fromFdps
          /\ workerDown' = workerDown
      BY <1>6 DEF ProcessOldiPacket
    <2> HIDE DEF h
    <2>3. v1 # <<>> /\ Head(v1) = h /\ Tail(v1) = t1
      BY <1>t, <2>1, HeadOfRow DEF v1, h
    <2> HIDE DEF t1
    <2>4. v2 # <<>> /\ Head(v2) = h /\ Tail(v2) = t2
      BY <1>s, <1>t, <2>3, HeadOfRow, ZenonT(40) DEF v2
    <2> HIDE DEF t2
    <2>5. v3 # <<>> /\ Head(v3) = h /\ Tail(v3) = t3
      BY <1>s, <1>t, <2>4, HeadOfRow, ZenonT(40) DEF v3
    <2> HIDE DEF t3
    <2>6. w # <<>> /\ Head(w) = h /\ Tail(w) = t3 \o grpc
      BY <1>s, <1>t, <1>w, <2>5, HeadOfRow, ZenonT(40)
    <2>7. w' = Tail(w)
      BY <1>p, <1>w, <2>1, <2>2, <2>6, Zenon DEF t1, t2, t3
    <2>8. Down!Leave
      BY <2>1, <2>2, <2>6, <2>7 DEF Down!Leave, w
    <2> QED
      BY <2>8 DEF Down!Next
  <1>7. ASSUME UNCHANGED <<downs, grpc, oldiHand, fromFdps, workerDown, fromPacket, handled>>
        PROVE  [Down!Next]_(Down!vars)
    <2>1. w' = w
      BY <1>7, <1>p, <1>w DEF v1, v2, v3
    <2> QED
      BY <1>7, <1>v, <2>1
  <1> QED
    BY <1>1, <1>2, <1>3, <1>4, <1>5, <1>6, <1>7
    DEF Next, vars, down, ChannelMessage, PushPacket, WorkerTakesUp, WorkerPushesUp, AppendMsg,
        CleanOldMsg, RecvMsq, NewChannelState, CheckState, Forgotten, SendMsg

\* Seen from the channels and from the providers, each way through the chief is
\* a queue that takes 2 * Cap + 2, or 3 * Cap + 2, messages and gives them back
\* in order: for any capacity and whatever the goroutines hold.
THEOREM Refinement == Spec => PathsSpec
  <1>1. Init => Up!Init /\ Down!Init
    BY InitPaths
  <1>2. TypeOK /\ [Next]_vars => [Up!Next]_(Up!vars)
    BY StepUp
  <1>3. TypeOK /\ [Next]_vars => [Down!Next]_(Down!vars)
    BY StepDown
  <1> QED
    BY <1>1, <1>2, <1>3, TypeCorrect, PTL DEF Spec, PathsSpec, Up!Spec, Down!Spec
=============================================================================
