------------------------- MODULE TcpTransport_proofs -------------------------
(***************************************************************************)
(* Theorems about TcpTransport, for every number of connections, packets   *)
(* and timeouts and every capacity of the queue.                           *)
(***************************************************************************)
EXTENDS TcpTransport, SequencesExt, SequenceTheorems, FiniteSetTheorems, TLAPS

(***************************************************************************)
(* Types.  A loop that writes, or has an event to push, has its packet, as *)
(* has the controller when it waits in sendPacket.                         *)
(***************************************************************************)
Hands ==
  /\ \A c \in Conns : send[c] \in {"writing", "event"} => item[c] # 0
  /\ controller = "sending" => sent # 0

LEMMA ConnNumbers == Conns \subseteq 0..MaxConns /\ 0 \in 0..MaxConns /\ 0 \notin Conns
  BY TransportAssumption DEF Conns

LEMMA TypeInit ==
  ASSUME Init
  PROVE  TypeOK /\ Hands
  <1>1. <<>> \in Seq(1..MaxPackets) /\ Len(<<>>) = 0
    BY EmptySeq
  <1>2. 0 \in 0..MaxConns /\ 0 \in 0..MaxPackets /\ 0 \in 0..MaxTimeouts /\ 0 <= SendCap /\ 0 \in Nat /\ 1 \in Nat
    BY TransportAssumption
  <1>3. reconnects \in Nat
    BY <1>2 DEF Init
  <1> QED
    BY <1>1, <1>2, <1>3 DEF Init, TypeOK, Hands

\* The steps that leave the packets alone.
LEMMA TypeOfConnection ==
  ASSUME TypeOK, Hands,
         \/ Dial \/ Dialled \/ DialFailed
         \/ Listen \/ ListenReported \/ Accept \/ AcceptReported \/ AcceptSetUp
         \/ ServerWork \/ Close \/ GiveUp
         \/ \E c \in Conns : ReceiveLoop(c) \/ Break(c)
  PROVE  TypeOK' /\ Hands'
  <1> USE DEF loopVars, workVars, ctlVars, histories
  <1>1. CASE Dial \/ Dialled \/ DialFailed
    <2>1. CASE Dial
      <3>1. reconnects' \in Nat
        BY <2>1 DEF Dial, TypeOK
      <3>2. tcpClient' \in 0..MaxConns
        BY <2>1, ConnNumbers DEF Dial
      <3>3. conn' \in [Conns -> {"unused", "open", "broken", "closed"}]
        BY <2>1 DEF Dial, TypeOK
      <3>4. work' \in {"dialled", "dial_failed"}
        BY <2>1 DEF Dial
      <3> QED
        BY <2>1, <3>1, <3>2, <3>3, <3>4 DEF Dial, TypeOK, Hands
    <2>2. CASE Dialled
      BY <2>2 DEF Dialled, Spawn, TypeOK, Hands
    <2>3. CASE DialFailed
      BY <2>3 DEF DialFailed, TypeOK, Hands
    <2> QED
      BY <1>1, <2>1, <2>2, <2>3
  <1>2. CASE Listen \/ ListenReported \/ Accept \/ AcceptReported \/ AcceptSetUp
    <2>1. CASE Listen
      BY <2>1 DEF Listen, TypeOK, Hands
    <2>2. CASE ListenReported
      BY <2>2 DEF ListenReported, TypeOK, Hands
    <2>3. CASE Accept
      BY <2>3, ConnNumbers DEF Accept, TypeOK, Hands
    <2>4. CASE AcceptReported
      BY <2>4 DEF AcceptReported, TypeOK, Hands
    <2>5. CASE AcceptSetUp
      BY <2>5 DEF AcceptSetUp, Spawn, TypeOK, Hands
    <2> QED
      BY <1>2, <2>1, <2>2, <2>3, <2>4, <2>5
  <1>3. CASE ServerWork \/ Close
    <2>1. CASE IgnoreReconnect
      BY <2>1 DEF IgnoreReconnect, TypeOK, Hands
    <2>2. CASE TakeError
      BY <2>2 DEF TakeError, TypeOK, Hands
    <2>3. CASE Cancel
      BY <2>3 DEF Cancel, TypeOK, Hands
    <2>4. CASE Report
      BY <2>4 DEF Report, TypeOK, Hands
    <2>5. CASE ServerClose
      <3>1. conn' \in [Conns -> {"unused", "open", "broken", "closed"}]
        BY <2>5 DEF ServerClose, TypeOK
      <3> QED
        BY <2>5, <3>1, ConnNumbers DEF ServerClose, TypeOK, Hands
    <2>6. CASE Close
      BY <2>6 DEF Close, Panic, TypeOK, Hands
    <2> QED
      BY <1>3, <2>1, <2>2, <2>3, <2>4, <2>5, <2>6 DEF ServerWork
  <1>4. CASE GiveUp
    BY <1>4, TransportAssumption DEF GiveUp, TypeOK, Hands
  <1>5. ASSUME NEW c \in Conns, ReceiveLoop(c) \/ Break(c)
        PROVE  TypeOK' /\ Hands'
    <2>1. CASE StartRead(c)
      BY <2>1 DEF StartRead, BeginRead, Panic, TypeOK, Hands
    <2>2. CASE ServerStartRead(c)
      BY <2>2 DEF ServerStartRead, BeginRead, TypeOK, Hands
    <2>3. CASE EndRead(c)
      BY <2>3 DEF EndRead, TypeOK, Hands
    <2>4. CASE Break(c)
      BY <2>4 DEF Break, TypeOK, Hands
    <2> QED
      BY <1>5, <2>1, <2>2, <2>3, <2>4 DEF ReceiveLoop
  <1> QED
    BY <1>1, <1>2, <1>3, <1>4, <1>5

\* The steps of the packets.
LEMMA TypeOfPackets ==
  ASSUME TypeOK, Hands, SendPacket \/ SendUnblocked \/ \E c \in Conns : SendLoop(c)
  PROVE  TypeOK' /\ Hands'
  <1> USE DEF loopVars, workVars, ctlVars, histories
  <1>0. MaxPackets \in Nat /\ sent \in 0..MaxPackets /\ toSend \in Seq(1..MaxPackets) /\ Len(toSend) \in Nat
    BY TransportAssumption, LenProperties DEF TypeOK
  <1>1. CASE SendPacket
    <2>1. sent + 1 \in 1..MaxPackets
      BY <1>0, <1>1 DEF SendPacket
    <2>2. Append(toSend, sent + 1) \in Seq(1..MaxPackets) /\ Len(Append(toSend, sent + 1)) = Len(toSend) + 1
      BY <1>0, <2>1, AppendProperties
    <2>3. toSend' \in Seq(1..MaxPackets) /\ Len(toSend') <= SendCap
      <3>1. \/ toSend' = Append(toSend, sent + 1) /\ Len(toSend) < SendCap
            \/ toSend' = toSend
        BY <1>1 DEF SendPacket
      <3>2. Len(toSend) <= SendCap /\ SendCap \in Nat
        BY TransportAssumption DEF TypeOK
      <3>3. CASE toSend' = Append(toSend, sent + 1) /\ Len(toSend) < SendCap
        BY <1>0, <2>2, <3>2, <3>3
      <3>4. CASE toSend' = toSend
        BY <1>0, <3>2, <3>4
      <3> QED
        BY <3>1, <3>3, <3>4
    <2>4. sent' \in 0..MaxPackets /\ sent' # 0
      BY <1>0, <1>1, <2>1 DEF SendPacket
    <2>5. controller' \in {"select", "sending"}
      BY <1>1 DEF SendPacket
    <2> QED
      BY <1>1, <2>3, <2>4, <2>5 DEF SendPacket, TypeOK, Hands
  <1>2. CASE SendUnblocked
    <2>1. sent \in 1..MaxPackets
      BY <1>0, <1>2 DEF SendUnblocked, Hands
    <2>2. Append(toSend, sent) \in Seq(1..MaxPackets) /\ Len(Append(toSend, sent)) = Len(toSend) + 1
      BY <1>0, <2>1, AppendProperties
    <2>3. toSend' \in Seq(1..MaxPackets) /\ Len(toSend') <= SendCap
      <3>1. toSend' = Append(toSend, sent) /\ Len(toSend) < SendCap
        BY <1>2 DEF SendUnblocked
      <3> QED
        BY <1>0, <2>2, <3>1, TransportAssumption
    <2> QED
      BY <1>2, <2>3 DEF SendUnblocked, TypeOK, Hands
  <1>3. ASSUME NEW c \in Conns, TakePacket(c)
        PROVE  TypeOK' /\ Hands'
    <2>1. Head(toSend) \in 1..MaxPackets /\ Tail(toSend) \in Seq(1..MaxPackets) /\ Len(Tail(toSend)) = Len(toSend) - 1
      BY <1>0, <1>3, HeadTailProperties DEF TakePacket
    <2>2. toSend' \in Seq(1..MaxPackets) /\ Len(toSend') <= SendCap
      BY <1>0, <1>3, <2>1, TransportAssumption DEF TakePacket, TypeOK
    <2>3. item' \in [Conns -> 0..MaxPackets] /\ item'[c] # 0 /\ \A d \in Conns : d # c => item'[d] = item[d]
      <3>1. item' = [item EXCEPT ![c] = Head(toSend)] /\ item \in [Conns -> 0..MaxPackets]
        BY <1>3 DEF TakePacket, TypeOK
      <3>2. Head(toSend) \in 0..MaxPackets /\ Head(toSend) # 0
        BY <1>0, <2>1
      <3> QED
        BY <3>1, <3>2
    <2>4. send' = [send EXCEPT ![c] = "writing"] /\ send \in [Conns -> {"none", "select", "writing", "event", "error"}]
      BY <1>3 DEF TakePacket, TypeOK
    <2>5. UNCHANGED <<role, workVars, recv, reads, ctlVars, panicked, histories>>
      BY <1>3 DEF TakePacket
    <2>6. Hands'
      BY <2>3, <2>4, <2>5 DEF Hands
    <2> QED
      BY <2>2, <2>3, <2>4, <2>5, <2>6 DEF TypeOK
  <1>4. ASSUME NEW c \in Conns, Write(c)
        PROVE  TypeOK' /\ Hands'
    <2>1. item[c] \in 1..MaxPackets
      BY <1>0, <1>4 DEF Write, TypeOK, Hands
    <2>2. written' \in Seq(1..MaxPackets)
      <3>1. Append(written, item[c]) \in Seq(1..MaxPackets)
        BY <2>1, AppendProperties DEF TypeOK
      <3> QED
        BY <1>4, <3>1 DEF Write, TypeOK
    <2>3. /\ send' \in [Conns -> {"none", "select", "writing", "event", "error"}]
          /\ \A d \in Conns : send'[d] \in {"writing", "event"} => send[d] \in {"writing", "event"}
      <3>1. send \in [Conns -> {"none", "select", "writing", "event", "error"}] /\ send[c] = "writing"
        BY <1>4 DEF Write, TypeOK
      <3>2. \/ send' = send
            \/ \E at \in {"select", "event", "error"} : send' = [send EXCEPT ![c] = at]
        BY <1>4 DEF Write, Panic
      <3> QED
        BY <3>1, <3>2
    <2>4. UNCHANGED <<role, work, acceptor, tcpClient, conn, recv, reads, item, toSend, ctlVars, events>>
      BY <1>4 DEF Write, Panic
    <2>5. panicked' \in BOOLEAN
      BY <1>4 DEF Write, Panic, TypeOK
    <2>6. Hands'
      BY <2>3, <2>4 DEF Hands
    <2> QED
      BY <2>2, <2>3, <2>4, <2>5, <2>6 DEF TypeOK
  <1>5. ASSUME NEW c \in Conns, PushEvent(c)
        PROVE  TypeOK' /\ Hands'
    <2>1. item[c] \in 1..MaxPackets
      BY <1>0, <1>5 DEF PushEvent, TypeOK, Hands
    <2>2. events' \in Seq(1..MaxPackets)
      <3>1. Append(events, item[c]) \in Seq(1..MaxPackets)
        BY <2>1, AppendProperties DEF TypeOK
      <3> QED
        BY <1>5, <3>1 DEF PushEvent
    <2> QED
      BY <1>5, <2>2 DEF PushEvent, TypeOK, Hands
  <1> QED
    BY <1>1, <1>2, <1>3, <1>4, <1>5 DEF SendLoop

LEMMA TypeNext == TypeOK /\ Hands /\ [Next]_vars => TypeOK' /\ Hands'
  <1> SUFFICES ASSUME TypeOK, Hands, [Next]_vars
               PROVE  TypeOK' /\ Hands'
    OBVIOUS
  <1>1. CASE UNCHANGED vars
    BY <1>1 DEF vars, TypeOK, Hands
  <1>2. CASE Next
    BY <1>2, TypeOfConnection, TypeOfPackets DEF Next
  <1> QED
    BY <1>1, <1>2

\* Every variable has its type, whatever the peer, the network and the loops do.
THEOREM TypeCorrect == Spec => []TypeOK
  <1>1. Init => TypeOK /\ Hands
    BY TypeInit
  <1> QED
    BY <1>1, TypeNext, PTL DEF Spec

(***************************************************************************)
(* One connection after another.  As long as the controller only gives up  *)
(* connections that were reported, the client dials with no loop left and  *)
(* the one callback that there is, and the server accepts with no loop     *)
(* left and the field cleared; in between both loops run, or one that      *)
(* stopClient still has to cancel.                                         *)
(***************************************************************************)
NoneLive == \A c \in Conns : recv[c] = "none" /\ send[c] = "none"
BothLive == tcpClient # 0 /\ recv[tcpClient] # "none" /\ send[tcpClient] # "none"

Ends ==
  /\ role = "client" => acceptor = "listen"
  /\ role = "server" => work \notin {"dialled", "dial_failed"}

Session ==
  /\ \A c \in Conns : recv[c] # "none" \/ send[c] # "none" => tcpClient = c
  /\ work = "select" => NoneLive \/ BothLive
  /\ work = "cancel" => tcpClient # 0 /\ (recv[tcpClient] = "none" <=> send[tcpClient] # "none")
  /\ work \in {"dialled", "dial_failed", "report", "close"} => NoneLive
  /\ work \in {"dialled", "report", "close"} => tcpClient # 0

ClientSession ==
  role = "client" =>
    /\ work \in {"dialled", "dial_failed", "cancel", "report"} => reconnects = 0
    /\ work = "close" => reconnects = 1
    /\ work = "select" => reconnects = IF NoneLive THEN 1 ELSE 0

ServerSession ==
  role = "server" =>
    /\ acceptor # "accept" => NoneLive /\ work = "select"
    /\ acceptor \in {"listen", "listening", "refused", "stopped"} => tcpClient = 0
    /\ acceptor \in {"report", "setup"} => tcpClient # 0

Sessions == Orderly => ~panicked /\ Session /\ ClientSession /\ ServerSession

LEMMA SessionInit ==
  ASSUME Init
  PROVE  Ends /\ Sessions
  <1>1. NoneLive
    BY DEF Init, NoneLive
  <1>2. Session
    BY <1>1 DEF Init, Session, NoneLive
  <1>3. ClientSession /\ ServerSession
    BY <1>1 DEF Init, ClientSession, ServerSession
  <1> QED
    BY <1>2, <1>3 DEF Init, Ends, Sessions

LEMMA EndsKept == TypeOK /\ Ends /\ [Next]_vars => Ends'
  <1> SUFFICES ASSUME TypeOK, Ends, [Next]_vars
               PROVE  Ends'
    OBVIOUS
  <1> USE DEF Ends, loopVars, workVars, ctlVars, histories
  <1>1. CASE UNCHANGED vars
    BY <1>1 DEF vars
  <1>2. CASE Dial \/ Dialled \/ DialFailed
    BY <1>2 DEF Dial, Dialled, DialFailed
  <1>3. CASE Listen \/ ListenReported \/ Accept \/ AcceptReported \/ AcceptSetUp
    BY <1>3 DEF Listen, ListenReported, Accept, AcceptReported, AcceptSetUp
  <1>4. CASE ServerWork \/ Close
    BY <1>4 DEF ServerWork, IgnoreReconnect, TakeError, Cancel, Report, ServerClose, Close, Panic
  <1>5. ASSUME NEW c \in Conns, ReceiveLoop(c)
        PROVE  Ends'
    BY <1>5 DEF ReceiveLoop, StartRead, ServerStartRead, BeginRead, EndRead, Panic
  <1>6. ASSUME NEW c \in Conns, SendLoop(c)
        PROVE  Ends'
    BY <1>6 DEF SendLoop, TakePacket, Write, PushEvent, Panic
  <1>7. CASE SendPacket \/ SendUnblocked \/ GiveUp \/ \E c \in Conns : Break(c)
    BY <1>7 DEF SendPacket, SendUnblocked, GiveUp, Break
  <1> QED
    BY <1>1, <1>2, <1>3, <1>4, <1>5, <1>6, <1>7 DEF Next

LEMMA OrderlyBefore ==
  ASSUME TypeOK, [Next]_vars, Orderly'
  PROVE  Orderly
  <1> USE DEF Orderly, loopVars, workVars, ctlVars, histories
  <1>1. CASE UNCHANGED vars
    BY <1>1 DEF vars
  <1>2. CASE GiveUp
    <2>1. timeouts + 1 # 0
      BY TransportAssumption DEF TypeOK
    <2> QED
      BY <1>2, <2>1 DEF GiveUp
  <1>3. CASE Dial \/ Dialled \/ DialFailed
    BY <1>3 DEF Dial, Dialled, DialFailed
  <1>4. CASE Listen \/ ListenReported \/ Accept \/ AcceptReported \/ AcceptSetUp
    BY <1>4 DEF Listen, ListenReported, Accept, AcceptReported, AcceptSetUp
  <1>5. CASE ServerWork \/ Close
    BY <1>5 DEF ServerWork, IgnoreReconnect, TakeError, Cancel, Report, ServerClose, Close, Panic
  <1>6. ASSUME NEW c \in Conns, ReceiveLoop(c)
        PROVE  Orderly
    BY <1>6 DEF ReceiveLoop, StartRead, ServerStartRead, BeginRead, EndRead, Panic
  <1>7. ASSUME NEW c \in Conns, SendLoop(c)
        PROVE  Orderly
    BY <1>7 DEF SendLoop, TakePacket, Write, PushEvent, Panic
  <1>8. CASE SendPacket \/ SendUnblocked \/ \E c \in Conns : Break(c)
    BY <1>8 DEF SendPacket, SendUnblocked, Break
  <1> QED
    BY <1>1, <1>2, <1>3, <1>4, <1>5, <1>6, <1>7, <1>8 DEF Next

\* Steps that change none of what a session is made of.
SessionVars == <<role, work, acceptor, tcpClient, recv, send, reconnects, panicked>>

LEMMA SameSession ==
  ASSUME Session, ClientSession, ServerSession, ~panicked, UNCHANGED SessionVars
  PROVE  ~panicked' /\ Session' /\ ClientSession' /\ ServerSession'
  BY DEF Session, ClientSession, ServerSession, NoneLive, BothLive, SessionVars

\* A loop goes on, and is neither started nor ended.
LEMMA LoopGoesOn ==
  ASSUME TypeOK, Session, ClientSession, ServerSession, NEW c \in Conns,
         \/ recv[c] # "none" /\ (\E at \in {"select", "reading", "error"} : recv' = [recv EXCEPT ![c] = at]) /\ send' = send
         \/ send[c] # "none" /\ (\E at \in {"select", "writing", "event", "error"} : send' = [send EXCEPT ![c] = at]) /\ recv' = recv,
         UNCHANGED <<role, work, acceptor, tcpClient, reconnects>>
  PROVE  Session' /\ ClientSession' /\ ServerSession'
  <1>1. \A d \in Conns : (recv'[d] = "none" <=> recv[d] = "none") /\ (send'[d] = "none" <=> send[d] = "none")
    BY DEF TypeOK
  <1>2. tcpClient' = tcpClient /\ (tcpClient # 0 => tcpClient \in Conns)
    BY ConnNumbers DEF TypeOK, Conns
  <1>3. NoneLive' <=> NoneLive
    BY <1>1 DEF NoneLive
  <1>4. BothLive' <=> BothLive
    BY <1>1, <1>2 DEF BothLive
  <1>5. Session'
    BY <1>1, <1>2, <1>3, <1>4 DEF Session
  <1> QED
    BY <1>3, <1>5 DEF ClientSession, ServerSession

\* What starts a session, and what ends it.
LEMMA SessionOfClient ==
  ASSUME TypeOK, Ends, Session, ClientSession, ServerSession, ~panicked,
         Dial \/ Dialled \/ DialFailed \/ Close
  PROVE  ~panicked' /\ Session' /\ ClientSession' /\ ServerSession'
  <1> USE DEF loopVars, ctlVars, histories
  <1>0. role' = role /\ tcpClient \in 0..MaxConns /\ reconnects \in Nat
    BY DEF TypeOK, Dial, Dialled, DialFailed, Close
  <1>1. role = "client"
    BY DEF TypeOK, Ends, Dial, Dialled, DialFailed, Close
  <1>2. CASE Dial
    <2>1. NoneLive /\ reconnects = 1
      BY <1>1, <1>2 DEF Dial, Session, ClientSession
    <2>2. NoneLive' /\ recv' = recv /\ send' = send /\ reconnects' = 0
      BY <1>2, <2>1 DEF Dial, NoneLive
    <2>3. \/ work' = "dialled" /\ tcpClient' # 0
          \/ work' = "dial_failed"
      BY <1>2, ConnNumbers DEF Dial
    <2> QED
      BY <1>0, <1>1, <1>2, <2>2, <2>3 DEF Dial, Session, ClientSession, ServerSession, NoneLive
  <1>3. CASE Dialled
    <2>1. NoneLive /\ reconnects = 0 /\ tcpClient \in Conns
      BY <1>0, <1>1, <1>3 DEF Dialled, Session, ClientSession, Conns
    <2>2. BothLive' /\ tcpClient' = tcpClient /\ work' = "select" /\ reconnects' = 0
      BY <1>3, <2>1, ConnNumbers DEF Dialled, Spawn, BothLive, TypeOK
    <2>3. \A d \in Conns : d # tcpClient => recv'[d] = "none" /\ send'[d] = "none"
      BY <1>3, <2>1 DEF Dialled, Spawn, NoneLive, TypeOK
    <2>4. ~NoneLive'
      BY <2>1, <2>2 DEF NoneLive, BothLive
    <2>5. Session'
      BY <2>2, <2>3 DEF Session
    <2>6. ClientSession' /\ ServerSession'
      BY <1>0, <1>1, <2>2, <2>4 DEF ClientSession, ServerSession
    <2> QED
      BY <1>3, <2>5, <2>6 DEF Dialled
  <1>4. CASE DialFailed
    <2>1. NoneLive /\ reconnects = 0
      BY <1>1, <1>4 DEF DialFailed, Session, ClientSession
    <2>2. NoneLive' /\ recv' = recv /\ send' = send /\ reconnects' = 1 /\ work' = "select" /\ panicked' = panicked
      BY <1>4, <2>1 DEF DialFailed, NoneLive
    <2> QED
      BY <1>0, <1>1, <2>2 DEF Session, ClientSession, ServerSession, NoneLive
  <1>5. CASE Close
    <2>1. NoneLive /\ reconnects = 1 /\ tcpClient # 0
      BY <1>1, <1>5 DEF Close, Session, ClientSession
    <2>2. NoneLive' /\ recv' = recv /\ send' = send /\ reconnects' = 1 /\ work' = "select" /\ panicked' = panicked
      BY <1>5, <2>1 DEF Close, NoneLive
    <2> QED
      BY <1>0, <1>1, <2>2 DEF Session, ClientSession, ServerSession, NoneLive
  <1> QED
    BY <1>2, <1>3, <1>4, <1>5

LEMMA SessionOfServer ==
  ASSUME TypeOK, Ends, Session, ClientSession, ServerSession, ~panicked,
         Listen \/ ListenReported \/ Accept \/ AcceptReported \/ AcceptSetUp \/ IgnoreReconnect \/ ServerClose
  PROVE  ~panicked' /\ Session' /\ ClientSession' /\ ServerSession'
  <1> USE DEF loopVars, workVars, ctlVars, histories
  <1>1. role = "server" /\ role' = "server" /\ panicked' = panicked
    BY DEF TypeOK, Ends, Listen, ListenReported, Accept, AcceptReported, AcceptSetUp, IgnoreReconnect, ServerClose
  <1>2. ClientSession'
    BY <1>1 DEF ClientSession
  <1>3. CASE Listen \/ ListenReported \/ AcceptReported
    <2>1. /\ acceptor # "accept" /\ (acceptor' # "accept" \/ tcpClient = 0)
          /\ acceptor' \in {"listening", "refused", "stopped", "accept"} <=> acceptor \in {"listen", "listening", "refused", "stopped"}
          /\ acceptor' \in {"report", "setup"} => acceptor \in {"report", "setup"}
      BY <1>1, <1>3 DEF Listen, ListenReported, AcceptReported, ServerSession
    <2>2. UNCHANGED <<work, tcpClient, recv, send>>
      BY <1>3 DEF Listen, ListenReported, AcceptReported
    <2>3. acceptor' # "listen"
      BY <1>3 DEF Listen, ListenReported, AcceptReported
    <2>4. Session'
      BY <2>2 DEF Session, NoneLive, BothLive
    <2>5. ServerSession'
      BY <1>1, <2>1, <2>2, <2>3 DEF ServerSession, NoneLive
    <2> QED
      BY <1>1, <1>2, <2>4, <2>5
  <1>4. CASE Accept
    <2>1. NoneLive /\ work = "select"
      BY <1>4, ConnNumbers DEF Accept, Session, NoneLive, BothLive, TypeOK, Ends
    <2>2. NoneLive' /\ recv' = recv /\ send' = send /\ work' = "select" /\ tcpClient' # 0 /\ acceptor' = "report"
      BY <1>4, <2>1, ConnNumbers DEF Accept, NoneLive
    <2> QED
      BY <1>1, <1>2, <2>2 DEF Session, ServerSession, NoneLive
  <1>5. CASE AcceptSetUp
    <2>1. NoneLive /\ work = "select" /\ tcpClient \in Conns
      BY <1>1, <1>5 DEF AcceptSetUp, ServerSession, TypeOK, Conns
    <2>2. BothLive' /\ tcpClient' = tcpClient /\ work' = "select" /\ acceptor' = "accept"
      BY <1>5, <2>1, ConnNumbers DEF AcceptSetUp, Spawn, BothLive, TypeOK
    <2>3. \A d \in Conns : d # tcpClient => recv'[d] = "none" /\ send'[d] = "none"
      BY <1>5, <2>1 DEF AcceptSetUp, Spawn, NoneLive, TypeOK
    <2>4. Session' /\ ServerSession'
      BY <2>2, <2>3 DEF Session, ServerSession
    <2> QED
      BY <1>1, <1>2, <2>4
  <1>6. CASE IgnoreReconnect
    BY <1>1, <1>2, <1>6 DEF IgnoreReconnect, Session, ServerSession, NoneLive, BothLive
  <1>7. CASE ServerClose
    <2>1. NoneLive /\ acceptor = "accept"
      BY <1>1, <1>7 DEF ServerClose, Session, ServerSession
    <2>2. NoneLive' /\ recv' = recv /\ send' = send /\ work' = "select" /\ acceptor' = "accept"
      BY <1>7, <2>1 DEF ServerClose, NoneLive
    <2> QED
      BY <1>1, <1>2, <2>2 DEF Session, ServerSession, NoneLive
  <1> QED
    BY <1>3, <1>4, <1>5, <1>6, <1>7

\* The steps of stopClient: one loop after the other ends.
LEMMA SessionStops ==
  ASSUME TypeOK, Ends, Session, ClientSession, ServerSession, ~panicked,
         TakeError \/ Cancel \/ Report
  PROVE  ~panicked' /\ Session' /\ ClientSession' /\ ServerSession'
  <1> USE DEF loopVars, workVars, ctlVars, histories
  <1>0. role' = role /\ tcpClient' = tcpClient /\ acceptor' = acceptor /\ panicked' = panicked
    BY DEF TakeError, Cancel, Report
  <1>1. CASE TakeError
    <2>1. PICK c \in Conns :
            \/ recv[c] = "error" /\ recv' = [recv EXCEPT ![c] = "none"] /\ send' = send
            \/ send[c] = "error" /\ send' = [send EXCEPT ![c] = "none"] /\ recv' = recv
      BY <1>1 DEF TakeError
    <2>2. c = tcpClient /\ BothLive /\ ~NoneLive /\ tcpClient # 0
      BY <1>1, <2>1 DEF TakeError, Session, NoneLive, BothLive
    <2>3. /\ recv'[tcpClient] = "none" <=> send'[tcpClient] # "none"
          /\ \A d \in Conns : d # c => recv'[d] = recv[d] /\ send'[d] = send[d]
      BY <2>1, <2>2 DEF BothLive, TypeOK
    <2>4. work' = "cancel" /\ reconnects' = reconnects /\ work = "select"
      BY <1>1 DEF TakeError
    <2>5. Session'
      BY <1>0, <2>2, <2>3, <2>4 DEF Session
    <2>6. ClientSession' /\ ServerSession'
      BY <1>0, <2>2, <2>4 DEF ClientSession, ServerSession
    <2> QED
      BY <1>0, <2>5, <2>6
  <1>2. CASE Cancel
    <2>1. PICK c \in Conns :
            \/ recv[c] = "select" /\ recv' = [recv EXCEPT ![c] = "none"] /\ send' = send
            \/ send[c] = "select" /\ send' = [send EXCEPT ![c] = "none"] /\ recv' = recv
      BY <1>2 DEF Cancel
    <2>2. c = tcpClient /\ ~NoneLive /\ tcpClient # 0 /\ (recv[tcpClient] = "none" <=> send[tcpClient] # "none")
      BY <1>2, <2>1 DEF Cancel, Session, NoneLive
    <2>3. recv'[c] = "none" /\ send'[c] = "none" /\ \A d \in Conns : d # c => recv'[d] = recv[d] /\ send'[d] = send[d]
      BY <2>1, <2>2 DEF TypeOK
    <2>4. \A d \in Conns : d # c => recv[d] = "none" /\ send[d] = "none"
      BY <2>2 DEF Session
    <2>5. NoneLive'
      BY <2>3, <2>4 DEF NoneLive
    <2>6. work' = "report" /\ reconnects' = reconnects /\ work = "cancel"
      BY <1>2 DEF Cancel
    <2>7. Session'
      BY <1>0, <2>2, <2>5, <2>6 DEF Session, NoneLive
    <2>8. ClientSession' /\ ServerSession'
      BY <1>0, <2>2, <2>6 DEF ClientSession, ServerSession
    <2> QED
      BY <1>0, <2>7, <2>8
  <1>3. CASE Report
    <2>1. NoneLive /\ tcpClient # 0 /\ (role = "client" => reconnects = 0) /\ (role = "server" => acceptor = "accept")
      BY <1>3 DEF Report, Session, ClientSession, ServerSession
    <2>2. NoneLive' /\ recv' = recv /\ send' = send /\ work' = "close" /\ reconnects' = reconnects + 1
      BY <1>3, <2>1 DEF Report, NoneLive
    <2>3. Session'
      BY <1>0, <2>1, <2>2 DEF Session, NoneLive
    <2>4. ClientSession' /\ ServerSession'
      BY <1>0, <2>1, <2>2 DEF ClientSession, ServerSession
    <2> QED
      BY <1>0, <2>3, <2>4
  <1> QED
    BY <1>1, <1>2, <1>3

\* The loops: with a session there is a connection to read from and write to.
LEMMA SessionLoops ==
  ASSUME TypeOK, Session, ClientSession, ServerSession, ~panicked,
         NEW c \in Conns, ReceiveLoop(c) \/ SendLoop(c)
  PROVE  ~panicked' /\ Session' /\ ClientSession' /\ ServerSession'
  <1> USE DEF loopVars, workVars, ctlVars, histories
  <1>1. recv[c] # "none" \/ send[c] # "none"
    BY DEF ReceiveLoop, SendLoop, StartRead, ServerStartRead, EndRead, TakePacket, Write, PushEvent
  <1>2. tcpClient # 0
    BY <1>1, ConnNumbers DEF Session
  <1>3. CASE ReceiveLoop(c)
    <2>1. /\ recv[c] # "none" /\ (\E at \in {"select", "reading", "error"} : recv' = [recv EXCEPT ![c] = at]) /\ send' = send
          /\ panicked' = panicked /\ UNCHANGED <<role, work, acceptor, tcpClient, reconnects>>
      <3>1. CASE StartRead(c)
        BY <1>2, <3>1 DEF StartRead, BeginRead
      <3>2. CASE ServerStartRead(c)
        BY <3>2 DEF ServerStartRead, BeginRead
      <3>3. CASE EndRead(c)
        BY <3>3 DEF EndRead
      <3> QED
        BY <1>3, <3>1, <3>2, <3>3 DEF ReceiveLoop
    <2> QED
      BY <2>1, LoopGoesOn
  <1>4. CASE SendLoop(c)
    <2>1. /\ send[c] # "none" /\ (\E at \in {"select", "writing", "event", "error"} : send' = [send EXCEPT ![c] = at]) /\ recv' = recv
          /\ panicked' = panicked /\ UNCHANGED <<role, work, acceptor, tcpClient, reconnects>>
      <3>1. CASE TakePacket(c)
        BY <3>1 DEF TakePacket
      <3>2. CASE Write(c)
        BY <1>2, <3>2 DEF Write
      <3>3. CASE PushEvent(c)
        BY <3>3 DEF PushEvent
      <3> QED
        BY <1>4, <3>1, <3>2, <3>3 DEF SendLoop
    <2> QED
      BY <2>1, LoopGoesOn
  <1> QED
    BY <1>3, <1>4

LEMMA SessionsKept == TypeOK /\ Ends /\ Sessions /\ [Next]_vars => Sessions'
  <1> SUFFICES ASSUME TypeOK, Ends, Sessions, [Next]_vars, Orderly'
               PROVE  ~panicked' /\ Session' /\ ClientSession' /\ ServerSession'
    BY DEF Sessions
  <1>1. ~panicked /\ Session /\ ClientSession /\ ServerSession
    BY OrderlyBefore DEF Sessions
  <1>2. CASE UNCHANGED SessionVars
    BY <1>1, <1>2, SameSession
  <1>3. CASE UNCHANGED vars
    BY <1>2, <1>3 DEF vars, SessionVars
  <1>4. CASE SendPacket \/ SendUnblocked \/ \E c \in Conns : Break(c)
    BY <1>2, <1>4 DEF SendPacket, SendUnblocked, Break, SessionVars, workVars, loopVars, ctlVars
  <1>5. CASE GiveUp
    <2>1. timeouts' # 0
      BY <1>5, TransportAssumption DEF GiveUp, TypeOK
    <2>2. role = "server" /\ role' = "server"
      BY <1>5, <2>1 DEF Orderly, GiveUp
    <2>3. UNCHANGED <<work, acceptor, tcpClient, recv, send, panicked>>
      BY <1>5 DEF GiveUp, workVars, loopVars
    <2> QED
      BY <1>1, <2>2, <2>3 DEF Session, ClientSession, ServerSession, NoneLive, BothLive
  <1> QED
    BY <1>1, <1>3, <1>4, <1>5, SessionOfClient, SessionOfServer, SessionStops, SessionLoops
    DEF Next, ServerWork

LEMMA SessionsServe ==
  ASSUME Sessions
  PROVE  OneConnectionServed
  <1> SUFFICES ASSUME Orderly
               PROVE  /\ Cardinality(LiveReceivers) <= 1 /\ Cardinality(LiveSenders) <= 1
                      /\ \A c \in LiveReceivers \cup LiveSenders : tcpClient = c
                      /\ ~panicked
    BY DEF OneConnectionServed
  <1>1. Session /\ ~panicked
    BY DEF Sessions
  <1>2. \A c \in LiveReceivers \cup LiveSenders : tcpClient = c
    BY <1>1 DEF Session, LiveReceivers, LiveSenders
  <1>3. ASSUME NEW L, L \in {LiveReceivers, LiveSenders}
        PROVE  Cardinality(L) <= 1
    <2>1. L = {} \/ L = {tcpClient}
      BY <1>2, <1>3
    <2>2. Cardinality({}) = 0 /\ Cardinality({tcpClient}) = 1
      BY FS_EmptySet, FS_Singleton
    <2> QED
      BY <2>1, <2>2
  <1> QED
    BY <1>1, <1>2, <1>3

\* In whichever order errors, cancels, reports, dials and accepts come: no loop
\* survives into the next connection, and no method is called on a nil tcpClient,
\* as long as reconnects only follow reported disconnects.
THEOREM OneConnection == Spec => []OneConnectionServed
  <1>1. Init => TypeOK /\ Hands /\ Ends /\ Sessions
    BY TypeInit, SessionInit
  <1>2. TypeOK /\ Hands /\ Ends /\ Sessions /\ [Next]_vars => TypeOK' /\ Hands' /\ Ends' /\ Sessions'
    BY TypeNext, EndsKept, SessionsKept
  <1>3. Sessions => OneConnectionServed
    BY SessionsServe
  <1> QED
    BY <1>1, <1>2, <1>3, PTL DEF Spec

(***************************************************************************)
(* The callbacks.  A callback counts two, and so does what will become     *)
(* one: a dial that fails, a report, a port that cannot be opened; and the *)
(* two loops of a connection, of which stopClient needs both for a report, *)
(* count one each.  Only connections and timeouts add to the sum.          *)
(***************************************************************************)
Used == {c \in Conns : conn[c] # "unused"}

WorkOwes ==
  IF work \in {"dialled", "dial_failed", "report"} THEN 2 ELSE IF work = "cancel" THEN 1 ELSE 0
AcceptorOwes ==
  IF role = "server" /\ acceptor \notin {"accept", "stopped"} THEN 2 ELSE 0

Budget ==
  2 * reconnects + Cardinality(LiveReceivers) + Cardinality(LiveSenders) + WorkOwes + AcceptorOwes
    <= 2 + 2 * timeouts + 2 * Cardinality(Used)

\* A connection comes up without loops.
Fresh ==
  /\ \A c \in Conns : conn[c] = "unused" => recv[c] = "none" /\ send[c] = "none"
  /\ tcpClient # 0 => conn[tcpClient] # "unused"
  /\ work = "dialled" => tcpClient # 0 /\ recv[tcpClient] = "none" /\ send[tcpClient] = "none"

LEMMA Counts ==
  ASSUME NEW L \in SUBSET Conns
  PROVE  /\ Cardinality(L) \in Nat
         /\ \A c \in Conns \ L : Cardinality(L \cup {c}) = Cardinality(L) + 1
         /\ \A c \in L : Cardinality(L \ {c}) = Cardinality(L) - 1
  <1>1. IsFiniteSet(Conns)
    BY FS_Interval, TransportAssumption DEF Conns
  <1>2. IsFiniteSet(L)
    BY <1>1, FS_Subset
  <1> QED
    BY <1>2, FS_CardinalityType, FS_AddElement, FS_RemoveElement

LEMMA FreshInit == Init => Fresh /\ Budget
  <1> SUFFICES ASSUME Init
               PROVE  Fresh /\ Budget
    OBVIOUS
  <1>1. Fresh
    BY DEF Init, Fresh
  <1>2. LiveReceivers = {} /\ LiveSenders = {} /\ Used = {}
    BY DEF Init, LiveReceivers, LiveSenders, Used
  <1>3. Cardinality({}) = 0
    BY FS_EmptySet
  <1>4. timeouts = 0 /\ WorkOwes = 0 /\ ((reconnects = 1 /\ AcceptorOwes = 0) \/ (reconnects = 0 /\ AcceptorOwes = 2))
    BY DEF Init, WorkOwes, AcceptorOwes
  <1> QED
    BY <1>1, <1>2, <1>3, <1>4 DEF Budget

LEMMA FreshKept == TypeOK /\ Ends /\ Sessions /\ Fresh /\ [Next]_vars => Fresh'
  <1> SUFFICES ASSUME TypeOK, Ends, Sessions, Fresh, [Next]_vars
               PROVE  Fresh'
    OBVIOUS
  <1> USE DEF loopVars, workVars, ctlVars, histories
  <1>0. /\ \A c \in Conns : conn[c] \in {"unused", "open", "broken", "closed"}
        /\ tcpClient # 0 => tcpClient \in Conns
        /\ DOMAIN conn = Conns /\ DOMAIN recv = Conns /\ DOMAIN send = Conns
    BY DEF TypeOK, Conns
  <1>1. CASE UNCHANGED vars
    BY <1>1 DEF vars, Fresh
  <1>2. CASE Dial \/ Dialled \/ DialFailed
    <2>1. CASE Dial
      BY <1>0, <2>1, ConnNumbers DEF Dial, Established, Fresh, TypeOK
    <2>2. CASE Dialled
      BY <1>0, <2>2 DEF Dialled, Spawn, Fresh, TypeOK
    <2>3. CASE DialFailed
      BY <2>3 DEF DialFailed, Fresh
    <2> QED
      BY <1>2, <2>1, <2>2, <2>3
  <1>3. CASE Listen \/ ListenReported \/ AcceptReported \/ SendPacket \/ SendUnblocked \/ GiveUp
    BY <1>3 DEF Listen, ListenReported, AcceptReported, SendPacket, SendUnblocked, GiveUp, Fresh
  <1>4. CASE Accept
    <2>1. work # "dialled" /\ work' = work /\ recv' = recv /\ send' = send
      BY <1>4 DEF Accept, Ends
    <2>2. PICK c \in Conns : conn' = [conn EXCEPT ![c] = "open"] /\ tcpClient' = c
      BY <1>4 DEF Accept
    <2> QED
      BY <1>0, <2>1, <2>2 DEF Fresh
  <1>5. CASE AcceptSetUp
    <2>1. role = "server" /\ work' # "dialled"
      BY <1>5 DEF AcceptSetUp, Ends, TypeOK
    <2>2. tcpClient \in Conns
      BY <1>0, <1>5, <2>1 DEF AcceptSetUp, Sessions, Orderly, ServerSession
    <2> QED
      BY <1>0, <1>5, <2>1, <2>2, ConnNumbers DEF AcceptSetUp, Spawn, Fresh
  <1>6. CASE ServerWork \/ Close
    <2>1. CASE IgnoreReconnect \/ Report
      BY <2>1 DEF IgnoreReconnect, Report, Fresh
    <2>2. CASE TakeError \/ Cancel
      BY <1>0, <2>2 DEF TakeError, Cancel, Fresh
    <2>3. CASE ServerClose
      BY <1>0, <2>3 DEF ServerClose, Fresh
    <2>4. CASE Close
      BY <1>0, <2>4 DEF Close, Panic, Fresh
    <2> QED
      BY <1>6, <2>1, <2>2, <2>3, <2>4 DEF ServerWork
  <1>7. ASSUME NEW c \in Conns, ReceiveLoop(c)
        PROVE  Fresh'
    <2>1. CASE StartRead(c)
      BY <1>0, <2>1 DEF StartRead, BeginRead, Panic, Fresh
    <2>2. CASE ServerStartRead(c)
      BY <1>0, <2>2 DEF ServerStartRead, BeginRead, Fresh
    <2>3. CASE EndRead(c)
      BY <1>0, <2>3 DEF EndRead, Fresh
    <2> QED
      BY <1>7, <2>1, <2>2, <2>3 DEF ReceiveLoop
  <1>8. ASSUME NEW c \in Conns, SendLoop(c)
        PROVE  Fresh'
    <2>1. CASE TakePacket(c)
      BY <1>0, <2>1 DEF TakePacket, Fresh
    <2>2. CASE Write(c)
      BY <1>0, <2>2 DEF Write, Panic, Fresh
    <2>3. CASE PushEvent(c)
      BY <1>0, <2>3 DEF PushEvent, Fresh
    <2> QED
      BY <1>8, <2>1, <2>2, <2>3 DEF SendLoop
  <1>9. ASSUME NEW c \in Conns, Break(c)
        PROVE  Fresh'
    BY <1>0, <1>9 DEF Break, Fresh
  <1> QED
    BY <1>1, <1>2, <1>3, <1>4, <1>5, <1>6, <1>7, <1>8, <1>9 DEF Next

\* What the counts of a step come to.
LEMMA BudgetHolds ==
  ASSUME TypeOK, Budget,
         NEW r \in {-1, 0, 1}, NEW l \in {-1, 0, 1, 2}, NEW w \in {-2, 0, 1, 2, -1}, NEW a \in {-2, 0, 2},
         NEW t \in {0, 1}, NEW u \in {0, 1},
         reconnects' = reconnects + r,
         Cardinality(LiveReceivers') + Cardinality(LiveSenders') = Cardinality(LiveReceivers) + Cardinality(LiveSenders) + l,
         WorkOwes' = WorkOwes + w, AcceptorOwes' = AcceptorOwes + a,
         timeouts' = timeouts + t, Cardinality(Used') = Cardinality(Used) + u,
         2 * r + l + w + a <= 2 * t + 2 * u
  PROVE  Budget'
  <1>1. /\ Cardinality(LiveReceivers) \in Nat /\ Cardinality(LiveSenders) \in Nat /\ Cardinality(Used) \in Nat
        /\ Cardinality(LiveReceivers') \in Nat /\ Cardinality(LiveSenders') \in Nat
    BY Counts DEF LiveReceivers, LiveSenders, Used
  <1>2. WorkOwes \in Nat /\ AcceptorOwes \in Nat /\ reconnects \in Nat /\ timeouts \in Nat
    BY TransportAssumption DEF TypeOK, WorkOwes, AcceptorOwes
  <1> QED
    BY <1>1, <1>2 DEF Budget

\* A step that starts and ends no loop.
LEMMA SameLoops ==
  ASSUME \A c \in Conns : (recv'[c] = "none" <=> recv[c] = "none") /\ (send'[c] = "none" <=> send[c] = "none")
  PROVE  LiveReceivers' = LiveReceivers /\ LiveSenders' = LiveSenders
  BY DEF LiveReceivers, LiveSenders

LEMMA SameUsed ==
  ASSUME \A c \in Conns : conn'[c] = "unused" <=> conn[c] = "unused"
  PROVE  Used' = Used
  BY DEF Used

\* Nothing that is counted changes, or a callback is spent.
LEMMA BudgetStays ==
  ASSUME TypeOK, Budget, LiveReceivers' = LiveReceivers, LiveSenders' = LiveSenders, Used' = Used,
         UNCHANGED <<role, work, acceptor, timeouts>>, reconnects' \in {reconnects, reconnects - 1}
  PROVE  Budget'
  <1>1. WorkOwes' = WorkOwes + 0 /\ AcceptorOwes' = AcceptorOwes + 0 /\ timeouts' = timeouts + 0
    BY TransportAssumption DEF WorkOwes, AcceptorOwes, TypeOK
  <1>2. Cardinality(LiveReceivers) \in Nat /\ Cardinality(LiveSenders) \in Nat /\ Cardinality(Used) \in Nat
    BY Counts DEF LiveReceivers, LiveSenders, Used
  <1>3. PICK r \in {-1, 0} : reconnects' = reconnects + r
    BY DEF TypeOK
  <1> QED
    BY <1>1, <1>2, <1>3, BudgetHolds

\* Both loops of a connection start.
LEMMA LoopsStart ==
  ASSUME TypeOK, tcpClient \in Conns, recv[tcpClient] = "none", send[tcpClient] = "none", Spawn(tcpClient)
  PROVE  /\ Cardinality(LiveReceivers') + Cardinality(LiveSenders') = Cardinality(LiveReceivers) + Cardinality(LiveSenders) + 2
         /\ Cardinality(LiveReceivers) \in Nat /\ Cardinality(LiveSenders) \in Nat
  <1>1. LiveReceivers' = LiveReceivers \cup {tcpClient} /\ LiveSenders' = LiveSenders \cup {tcpClient}
    BY DEF LiveReceivers, LiveSenders, Spawn, TypeOK
  <1>2. /\ LiveReceivers \in SUBSET Conns /\ tcpClient \in Conns \ LiveReceivers
        /\ LiveSenders \in SUBSET Conns /\ tcpClient \in Conns \ LiveSenders
    BY DEF LiveReceivers, LiveSenders
  <1>3. Cardinality(LiveReceivers') = Cardinality(LiveReceivers) + 1 /\ Cardinality(LiveReceivers) \in Nat
    BY <1>1, <1>2, Counts
  <1>4. Cardinality(LiveSenders') = Cardinality(LiveSenders) + 1 /\ Cardinality(LiveSenders) \in Nat
    BY <1>1, <1>2, Counts
  <1> QED
    BY <1>3, <1>4

\* A loop ends.
LEMMA LoopEnds ==
  ASSUME TypeOK, NEW c \in Conns,
         \/ recv[c] # "none" /\ recv' = [recv EXCEPT ![c] = "none"] /\ send' = send
         \/ send[c] # "none" /\ send' = [send EXCEPT ![c] = "none"] /\ recv' = recv
  PROVE  Cardinality(LiveReceivers') + Cardinality(LiveSenders') = Cardinality(LiveReceivers) + Cardinality(LiveSenders) + (-1)
  <1>1. LiveReceivers \in SUBSET Conns /\ LiveSenders \in SUBSET Conns
    BY DEF LiveReceivers, LiveSenders
  <1>2. \/ c \in LiveReceivers /\ LiveReceivers' = LiveReceivers \ {c} /\ LiveSenders' = LiveSenders
        \/ c \in LiveSenders /\ LiveSenders' = LiveSenders \ {c} /\ LiveReceivers' = LiveReceivers
    BY DEF LiveReceivers, LiveSenders, TypeOK
  <1>3. /\ Cardinality(LiveReceivers) \in Nat /\ Cardinality(LiveSenders) \in Nat
        /\ c \in LiveReceivers => Cardinality(LiveReceivers \ {c}) = Cardinality(LiveReceivers) - 1
        /\ c \in LiveSenders => Cardinality(LiveSenders \ {c}) = Cardinality(LiveSenders) - 1
    BY <1>1, Counts
  <1>4. CASE c \in LiveReceivers /\ LiveReceivers' = LiveReceivers \ {c} /\ LiveSenders' = LiveSenders
    <2>1. Cardinality(LiveReceivers') = Cardinality(LiveReceivers) - 1 /\ Cardinality(LiveSenders') = Cardinality(LiveSenders)
      BY <1>3, <1>4
    <2> QED
      BY <1>3, <2>1
  <1>5. CASE c \in LiveSenders /\ LiveSenders' = LiveSenders \ {c} /\ LiveReceivers' = LiveReceivers
    <2>1. Cardinality(LiveSenders') = Cardinality(LiveSenders) - 1 /\ Cardinality(LiveReceivers') = Cardinality(LiveReceivers)
      BY <1>3, <1>5
    <2> QED
      BY <1>3, <2>1
  <1> QED
    BY <1>2, <1>4, <1>5

\* A connection is established.
LEMMA ConnectionUsed ==
  ASSUME TypeOK, NEW c \in Conns, Established(c), conn' = [conn EXCEPT ![c] = "open"]
  PROVE  Cardinality(Used') = Cardinality(Used) + 1 /\ Cardinality(Used) \in Nat
  <1>1. Used \in SUBSET Conns /\ c \in Conns \ Used /\ Used' = Used \cup {c}
    BY DEF Used, Established, TypeOK
  <1> QED
    BY <1>1, Counts

LEMMA BudgetKept == TypeOK /\ Ends /\ Sessions /\ Fresh /\ Budget /\ [Next]_vars => Budget'
  <1> SUFFICES ASSUME TypeOK, Ends, Sessions, Fresh, Budget, [Next]_vars
               PROVE  Budget'
    OBVIOUS
  <1> USE DEF loopVars, workVars, ctlVars, histories
  <1>0. /\ LiveReceivers \in SUBSET Conns /\ LiveSenders \in SUBSET Conns /\ Used \in SUBSET Conns
        /\ Cardinality(LiveReceivers) \in Nat /\ Cardinality(LiveSenders) \in Nat /\ Cardinality(Used) \in Nat
        /\ reconnects \in Nat /\ timeouts \in Nat /\ WorkOwes \in Nat /\ AcceptorOwes \in Nat
    BY Counts, TransportAssumption DEF LiveReceivers, LiveSenders, Used, TypeOK, WorkOwes, AcceptorOwes
  <1>1. tcpClient # 0 => tcpClient \in Conns
    BY DEF TypeOK, Conns
  <1>2. ASSUME UNCHANGED <<recv, send>>
        PROVE  LiveReceivers' = LiveReceivers /\ LiveSenders' = LiveSenders
    BY <1>2 DEF LiveReceivers, LiveSenders
  <1>3. ASSUME UNCHANGED conn
        PROVE  Used' = Used
    BY <1>3 DEF Used
  <1> DEFINE sameLoops == Cardinality(LiveReceivers') + Cardinality(LiveSenders')
                            = Cardinality(LiveReceivers) + Cardinality(LiveSenders) + 0
             sameUsed == Cardinality(Used') = Cardinality(Used) + 0
  <1>4. ASSUME UNCHANGED <<recv, send>>
        PROVE  sameLoops
    BY <1>0, <1>2, <1>4
  <1>5. ASSUME UNCHANGED conn
        PROVE  sameUsed
    BY <1>0, <1>3, <1>5
  <1>6. CASE Dial
    <2>1. PICK r \in {-1} : reconnects' = reconnects + r
      BY <1>0, <1>6 DEF Dial
    <2>2. AcceptorOwes' = AcceptorOwes + 0 /\ timeouts' = timeouts + 0 /\ sameLoops
      BY <1>0, <1>4, <1>6 DEF Dial, AcceptorOwes
    <2>3. WorkOwes' = WorkOwes + 2
      BY <1>6 DEF Dial, WorkOwes
    <2>4. Cardinality(Used') = Cardinality(Used) + 1 \/ sameUsed
      BY <1>5, <1>6, ConnectionUsed DEF Dial
    <2> HIDE DEF sameLoops, sameUsed
    <2>5. CASE Cardinality(Used') = Cardinality(Used) + 1
      BY <2>1, <2>2, <2>3, <2>5, BudgetHolds DEF sameLoops
    <2>6. CASE sameUsed
      BY <2>1, <2>2, <2>3, <2>6, BudgetHolds DEF sameLoops, sameUsed
    <2> QED
      BY <2>4, <2>5, <2>6
  <1>7. CASE Dialled
    <2>1. reconnects' = reconnects + 0 /\ timeouts' = timeouts + 0 /\ AcceptorOwes' = AcceptorOwes + 0 /\ sameUsed
      BY <1>0, <1>5, <1>7 DEF Dialled, AcceptorOwes
    <2>2. WorkOwes' = WorkOwes + (-2)
      BY <1>7 DEF Dialled, WorkOwes
    <2>3. Cardinality(LiveReceivers') + Cardinality(LiveSenders') = Cardinality(LiveReceivers) + Cardinality(LiveSenders) + 2
      BY <1>1, <1>7, LoopsStart DEF Dialled, Fresh
    <2> QED
      BY <2>1, <2>2, <2>3, BudgetHolds
  <1>8. CASE DialFailed
    <2>1. reconnects' = reconnects + 1 /\ timeouts' = timeouts + 0 /\ AcceptorOwes' = AcceptorOwes + 0 /\ sameUsed /\ sameLoops
      BY <1>0, <1>4, <1>5, <1>8 DEF DialFailed, AcceptorOwes
    <2>2. WorkOwes' = WorkOwes + (-2)
      BY <1>8 DEF DialFailed, WorkOwes
    <2> QED
      BY <2>1, <2>2, BudgetHolds
  <1>9. CASE Listen \/ AcceptReported
    <2>1. /\ reconnects' = reconnects + 0 /\ timeouts' = timeouts + 0 /\ WorkOwes' = WorkOwes + 0
          /\ AcceptorOwes' = AcceptorOwes + 0 /\ sameUsed /\ sameLoops
      BY <1>0, <1>4, <1>5, <1>9 DEF Listen, AcceptReported, AcceptorOwes, WorkOwes
    <2> QED
      BY <2>1, BudgetHolds
  <1>10. CASE ListenReported
    <2>1. timeouts' = timeouts + 0 /\ WorkOwes' = WorkOwes + 0 /\ sameUsed /\ sameLoops
      BY <1>0, <1>4, <1>5, <1>10 DEF ListenReported, WorkOwes
    <2>2. role = "server" /\ AcceptorOwes' = AcceptorOwes + (-2)
      BY <1>10 DEF ListenReported, AcceptorOwes, Ends, TypeOK
    <2>3. PICK r \in {0, 1} : reconnects' = reconnects + r
      BY <1>0, <1>10 DEF ListenReported
    <2> QED
      BY <2>1, <2>2, <2>3, BudgetHolds
  <1>11. CASE Accept
    <2>1. reconnects' = reconnects + 0 /\ timeouts' = timeouts + 0 /\ WorkOwes' = WorkOwes + 0 /\ sameLoops
      BY <1>0, <1>4, <1>11 DEF Accept, WorkOwes
    <2>2. AcceptorOwes' = AcceptorOwes + 2
      BY <1>11 DEF Accept, AcceptorOwes
    <2>3. Cardinality(Used') = Cardinality(Used) + 1
      BY <1>11, ConnectionUsed DEF Accept
    <2> QED
      BY <2>1, <2>2, <2>3, BudgetHolds
  <1>12. CASE AcceptSetUp
    <2>1. reconnects' = reconnects + 0 /\ timeouts' = timeouts + 0 /\ WorkOwes' = WorkOwes + 0 /\ sameUsed
      BY <1>0, <1>5, <1>12 DEF AcceptSetUp, WorkOwes
    <2>2. role = "server" /\ AcceptorOwes' = AcceptorOwes + (-2)
      BY <1>12 DEF AcceptSetUp, AcceptorOwes, Ends, TypeOK
    <2>3. tcpClient \in Conns /\ recv[tcpClient] = "none" /\ send[tcpClient] = "none"
      BY <1>1, <1>12, <2>2 DEF AcceptSetUp, Sessions, Orderly, ServerSession, NoneLive
    <2>4. Cardinality(LiveReceivers') + Cardinality(LiveSenders') = Cardinality(LiveReceivers) + Cardinality(LiveSenders) + 2
      BY <1>12, <2>3, LoopsStart DEF AcceptSetUp
    <2> QED
      BY <2>1, <2>2, <2>4, BudgetHolds
  <1>13. CASE TakeError \/ Cancel
    <2>1. /\ reconnects' = reconnects + 0 /\ timeouts' = timeouts + 0 /\ AcceptorOwes' = AcceptorOwes + 0 /\ sameUsed
          /\ WorkOwes' = WorkOwes + 1
      BY <1>0, <1>5, <1>13 DEF TakeError, Cancel, AcceptorOwes, WorkOwes
    <2>2. Cardinality(LiveReceivers') + Cardinality(LiveSenders') = Cardinality(LiveReceivers) + Cardinality(LiveSenders) + (-1)
      BY <1>13, LoopEnds DEF TakeError, Cancel
    <2> QED
      BY <2>1, <2>2, BudgetHolds
  <1>14. CASE Report
    <2>1. /\ reconnects' = reconnects + 1 /\ timeouts' = timeouts + 0 /\ AcceptorOwes' = AcceptorOwes + 0 /\ sameUsed /\ sameLoops
          /\ WorkOwes' = WorkOwes + (-2)
      BY <1>0, <1>4, <1>5, <1>14 DEF Report, AcceptorOwes, WorkOwes
    <2> QED
      BY <2>1, BudgetHolds
  <1>15. CASE Close \/ ServerClose
    <2>1. Used' = Used
      <3>1. CASE Close
        <4>1. \/ conn' = conn
              \/ tcpClient \in Conns /\ conn[tcpClient] # "unused" /\ conn' = [conn EXCEPT ![tcpClient] = "closed"]
          BY <1>1, <3>1 DEF Close, Panic, Fresh
        <4> QED
          BY <4>1, SameUsed DEF TypeOK
      <3>2. CASE ServerClose
        <4>1. \A c \in Conns : conn'[c] = IF c = tcpClient THEN "closed" ELSE conn[c]
          BY <3>2 DEF ServerClose
        <4>2. \A c \in Conns : c = tcpClient => conn[c] # "unused"
          BY ConnNumbers DEF Fresh
        <4> QED
          BY <4>1, <4>2, SameUsed
      <3> QED
        BY <1>15, <3>1, <3>2
    <2>2. sameUsed /\ sameLoops /\ reconnects' = reconnects + 0 /\ timeouts' = timeouts + 0
      BY <1>0, <1>4, <1>15, <2>1 DEF Close, ServerClose, Panic
    <2>3. AcceptorOwes' = AcceptorOwes + 0 /\ WorkOwes' = WorkOwes + 0
      BY <1>15 DEF Close, ServerClose, Panic, AcceptorOwes, WorkOwes
    <2> QED
      BY <2>2, <2>3, BudgetHolds
  <1>16. CASE GiveUp
    <2>1. /\ reconnects' = reconnects + 1 /\ timeouts' = timeouts + 1 /\ AcceptorOwes' = AcceptorOwes + 0 /\ sameUsed /\ sameLoops
          /\ WorkOwes' = WorkOwes + 0
      BY <1>0, <1>4, <1>5, <1>16 DEF GiveUp, AcceptorOwes, WorkOwes
    <2> QED
      BY <2>1, BudgetHolds
  <1>17. CASE IgnoreReconnect \/ SendPacket \/ SendUnblocked \/ UNCHANGED vars
    <2>1. /\ UNCHANGED <<role, work, acceptor, timeouts>> /\ reconnects' \in {reconnects, reconnects - 1}
          /\ UNCHANGED <<recv, send>> /\ UNCHANGED conn
      BY <1>17 DEF IgnoreReconnect, SendPacket, SendUnblocked, vars
    <2> QED
      BY <1>2, <1>3, <2>1, BudgetStays
  <1>18. ASSUME NEW c \in Conns, ReceiveLoop(c) \/ SendLoop(c) \/ Break(c)
         PROVE  Budget'
    <2>1. UNCHANGED <<role, work, acceptor, timeouts, reconnects>>
      BY <1>18 DEF ReceiveLoop, SendLoop, StartRead, ServerStartRead, BeginRead, EndRead, TakePacket, Write, PushEvent, Break, Panic
    <2>2. \A d \in Conns : conn'[d] = "unused" <=> conn[d] = "unused"
      BY <1>18 DEF ReceiveLoop, SendLoop, StartRead, ServerStartRead, BeginRead, EndRead, TakePacket, Write, PushEvent, Break, Panic, TypeOK
    <2>3. \A d \in Conns : (recv'[d] = "none" <=> recv[d] = "none") /\ (send'[d] = "none" <=> send[d] = "none")
      <3>1. CASE StartRead(c)
        BY <3>1 DEF StartRead, BeginRead, Panic, TypeOK
      <3>2. CASE ServerStartRead(c)
        BY <3>2 DEF ServerStartRead, BeginRead, TypeOK
      <3>3. CASE EndRead(c)
        BY <3>3 DEF EndRead, TypeOK
      <3>4. CASE TakePacket(c)
        BY <3>4 DEF TakePacket, TypeOK
      <3>5. CASE Write(c)
        BY <3>5 DEF Write, Panic, TypeOK
      <3>6. CASE PushEvent(c)
        BY <3>6 DEF PushEvent, TypeOK
      <3>7. CASE Break(c)
        BY <3>7 DEF Break
      <3> QED
        BY <1>18, <3>1, <3>2, <3>3, <3>4, <3>5, <3>6, <3>7 DEF ReceiveLoop, SendLoop
    <2> QED
      BY <2>1, <2>2, <2>3, SameLoops, SameUsed, BudgetStays
  <1> QED
    BY <1>6, <1>7, <1>8, <1>9, <1>10, <1>11, <1>12, <1>13, <1>14, <1>15, <1>16, <1>17, <1>18
    DEF Next, ServerWork

\* However errors, timeouts, failed dials and reports come together: there is at
\* most the one callback of the start, one for each connection and one for each
\* timeout.
THEOREM CallbacksOwed == Spec => []ReconnectsOwed
  <1>1. Init => TypeOK /\ Hands /\ Ends /\ Sessions /\ Fresh /\ Budget
    BY TypeInit, SessionInit, FreshInit
  <1>2. /\ TypeOK /\ Hands /\ Ends /\ Sessions /\ Fresh /\ Budget /\ [Next]_vars
           => TypeOK' /\ Hands' /\ Ends' /\ Sessions' /\ Fresh' /\ Budget'
    BY TypeNext, EndsKept, SessionsKept, FreshKept, BudgetKept
  <1>3. TypeOK /\ Budget => ReconnectsOwed
    <2> SUFFICES ASSUME TypeOK, Budget
                 PROVE  reconnects <= 1 + timeouts + Cardinality(Used)
      BY DEF ReconnectsOwed, Used
    <2>1. /\ Cardinality(LiveReceivers) \in Nat /\ Cardinality(LiveSenders) \in Nat /\ Cardinality(Used) \in Nat
          /\ reconnects \in Nat /\ timeouts \in Nat /\ WorkOwes \in Nat /\ AcceptorOwes \in Nat
      BY Counts, TransportAssumption DEF LiveReceivers, LiveSenders, Used, TypeOK, WorkOwes, AcceptorOwes
    <2>2. 2 * reconnects <= 2 * (1 + timeouts + Cardinality(Used))
      BY <2>1 DEF Budget
    <2> QED
      BY <2>1, <2>2
  <1> QED
    BY <1>1, <1>2, <1>3, PTL DEF Spec

(***************************************************************************)
(* Sequences of numbers that rise, taken from at the head and added to at  *)
(* the end.                                                                *)
(***************************************************************************)
Rising(s)   == \A i, j \in DOMAIN s : i < j => s[i] < s[j]
Below(A, B) == \A a \in A, b \in B : a < b

\* The number in front, and those behind it.
LEMMA RisingHead ==
  ASSUME NEW s \in Seq(Nat), s # <<>>
  PROVE  /\ Head(s) \in Nat /\ Tail(s) \in Seq(Nat)
         /\ ToSet(s) = {Head(s)} \cup ToSet(Tail(s))
         /\ Rising(s) => Rising(Tail(s)) /\ Below({Head(s)}, ToSet(Tail(s)))
  <1> DEFINE t == Tail(s)
  <1>1. /\ Head(s) = s[1] /\ Head(s) \in Nat /\ t \in Seq(Nat) /\ Len(t) = Len(s) - 1
        /\ \A i \in 1..Len(t) : t[i] = s[i + 1]
    BY HeadTailProperties
  <1>2. /\ Len(s) \in Nat \ {0} /\ DOMAIN s = 1..Len(s) /\ DOMAIN t = 1..Len(t)
        /\ \A i \in 1..Len(s) : s[i] \in Nat
    BY <1>1, LenProperties, EmptySeq, ElementOfSeq
  <1> HIDE DEF t
  <1>3. /\ \A i \in DOMAIN t : i \in Int /\ i + 1 \in DOMAIN s /\ 1 < i + 1 /\ t[i] = s[i + 1]
        /\ 1 \in DOMAIN s
    BY <1>1, <1>2
  <1>4. \A i \in DOMAIN s : i = 1 \/ (i - 1 \in DOMAIN t /\ t[i - 1] = s[i])
    <2> SUFFICES ASSUME NEW i \in 1..Len(s), i # 1
                 PROVE  i - 1 \in 1..Len(t) /\ t[i - 1] = s[i]
      BY <1>2
    <2>1. i - 1 \in 1..Len(t) /\ (i - 1) + 1 = i
      BY <1>1, <1>2
    <2>2. t[i - 1] = s[(i - 1) + 1]
      BY <1>1, <2>1
    <2> QED
      BY <2>1, <2>2
  <1>5. ToSet(s) = {Head(s)} \cup ToSet(t)
    <2>1. ToSet(s) \subseteq {Head(s)} \cup ToSet(t)
      BY <1>1, <1>4 DEF ToSet
    <2>2. {Head(s)} \cup ToSet(t) \subseteq ToSet(s)
      BY <1>1, <1>3 DEF ToSet
    <2> QED
      BY <2>1, <2>2
  <1>6. ASSUME Rising(s) PROVE Rising(t) /\ Below({Head(s)}, ToSet(t))
    <2>1. Rising(t)
      <3> SUFFICES ASSUME NEW i \in DOMAIN t, NEW j \in DOMAIN t, i < j
                   PROVE  t[i] < t[j]
        BY DEF Rising
      <3>1. i + 1 < j + 1
        BY <1>3
      <3> QED
        BY <1>3, <1>6, <3>1 DEF Rising
    <2>2. \A i \in DOMAIN t : Head(s) < t[i]
      BY <1>1, <1>3, <1>6 DEF Rising
    <2> QED
      BY <2>1, <2>2 DEF Below, ToSet
  <1> QED
    BY <1>1, <1>5, <1>6 DEF t

\* A later number behind them.
LEMMA RisingAppend ==
  ASSUME NEW s \in Seq(Nat), NEW m \in Nat
  PROVE  /\ Append(s, m) \in Seq(Nat) /\ ToSet(Append(s, m)) = ToSet(s) \cup {m}
         /\ Rising(Append(s, m)) <=> Rising(s) /\ Below(ToSet(s), {m})
  <1> DEFINE u == Append(s, m)
  <1>1. /\ u \in Seq(Nat) /\ Len(u) = Len(s) + 1 /\ u[Len(s) + 1] = m
        /\ \A i \in 1..Len(s) : u[i] = s[i]
    BY AppendProperties
  <1>2. Len(s) \in Nat /\ DOMAIN s = 1..Len(s) /\ DOMAIN u = 1..Len(u)
    BY <1>1, LenProperties
  <1> HIDE DEF u
  <1>3. /\ DOMAIN u = DOMAIN s \cup {Len(s) + 1}
        /\ \A i \in DOMAIN s : u[i] = s[i] /\ i < Len(s) + 1
    BY <1>1, <1>2
  <1>4. ToSet(u) = ToSet(s) \cup {m}
    BY <1>1, <1>3 DEF ToSet
  <1>5. Rising(u) => Rising(s) /\ Below(ToSet(s), {m})
    BY <1>1, <1>3 DEF Rising, Below, ToSet
  <1>6. ASSUME Rising(s), Below(ToSet(s), {m}) PROVE Rising(u)
    <2> SUFFICES ASSUME NEW i \in DOMAIN u, NEW j \in DOMAIN u, i < j
                 PROVE  u[i] < u[j]
      BY DEF Rising
    <2>0. i \in DOMAIN s
      <3>1. i \in 1..Len(s) + 1 /\ j \in 1..Len(s) + 1
        BY <1>1, <1>2
      <3> QED
        BY <1>2, <3>1
    <2>1. u[i] = s[i] /\ s[i] \in ToSet(s)
      BY <1>3, <2>0 DEF ToSet
    <2>2. CASE j \in DOMAIN s
      BY <1>3, <1>6, <2>0, <2>1, <2>2 DEF Rising
    <2>3. CASE j = Len(s) + 1
      BY <1>1, <1>6, <2>1, <2>3 DEF Below
    <2> QED
      BY <1>3, <2>2, <2>3
  <1> QED
    BY <1>1, <1>4, <1>5, <1>6 DEF u

LEMMA EmptyRises == <<>> \in Seq(Nat) /\ ToSet(<<>>) = {} /\ Rising(<<>>)
  BY DEF ToSet, Rising

(***************************************************************************)
(* The order of packets.  Behind what was written comes what the one       *)
(* sendLoop has in hand, then the queue, then what the controller has to   *)
(* push or to number next; an event follows its packet before any other.   *)
(***************************************************************************)
NextNumber == IF controller = "sending" THEN sent ELSE sent + 1

InHands   == {item[c] : c \in {c \in Conns : send[c] = "writing"}}
Announced == {item[c] : c \in {c \in Conns : send[c] = "event"}}

Queued ==
  /\ Rising(written) /\ Rising(events) /\ Rising(toSend)
  /\ Below(ToSet(written), InHands \cup ToSet(toSend) \cup {NextNumber})
  /\ Below(ToSet(events), Announced \cup InHands \cup ToSet(toSend) \cup {NextNumber})
  /\ Below(InHands \cup Announced, ToSet(toSend) \cup {NextNumber})
  /\ Below(ToSet(toSend), {NextNumber})

PacketsOrdered == Orderly => Queued

LEMMA PacketNumbers ==
  ASSUME TypeOK
  PROVE  /\ written \in Seq(Nat) /\ events \in Seq(Nat) /\ toSend \in Seq(Nat)
         /\ sent \in Nat /\ \A c \in Conns : item[c] \in Nat
  <1>1. MaxPackets \in Nat /\ 1..MaxPackets \subseteq Nat
    BY TransportAssumption
  <1>2. Seq(1..MaxPackets) \subseteq Seq(Nat)
    BY <1>1, SeqMonotonic
  <1> QED
    BY <1>1, <1>2 DEF TypeOK

\* What the one sendLoop has.
LEMMA HandsOfSession ==
  ASSUME Session, NEW c \in Conns
  PROVE  /\ send[c] = "select"  => InHands = {} /\ Announced = {}
         /\ send[c] = "writing" => InHands = {item[c]} /\ Announced = {}
         /\ send[c] = "event"   => InHands = {} /\ Announced = {item[c]}
  <1>1. \A d \in Conns : send[c] # "none" /\ send[d] # "none" => d = c
    BY DEF Session
  <1> QED
    BY <1>1 DEF InHands, Announced

\* A loop that starts or ends takes no packet along.
LEMMA SameHands ==
  ASSUME item' = item,
         \A c \in Conns : (send'[c] = "writing" <=> send[c] = "writing") /\ (send'[c] = "event" <=> send[c] = "event")
  PROVE  InHands' = InHands /\ Announced' = Announced
  BY DEF InHands, Announced

LEMMA QueuedStays ==
  ASSUME Queued, InHands' = InHands, Announced' = Announced, UNCHANGED <<written, events, toSend, controller, sent>>
  PROVE  Queued'
  BY DEF Queued, NextNumber

LEMMA QueuedBySender ==
  ASSUME TypeOK, Session, ~panicked, Session', Queued, NEW c \in Conns, SendLoop(c)
  PROVE  Queued'
  <1> USE DEF loopVars, workVars, ctlVars, histories
  <1>0. /\ written \in Seq(Nat) /\ events \in Seq(Nat) /\ toSend \in Seq(Nat) /\ item[c] \in Nat
        /\ controller' = controller /\ sent' = sent /\ NextNumber' = NextNumber
    BY PacketNumbers DEF SendLoop, TakePacket, Write, PushEvent, NextNumber
  <1>1. CASE TakePacket(c)
    <2>1. toSend # <<>> /\ toSend' = Tail(toSend) /\ written' = written /\ events' = events /\ send'[c] = "writing" /\ item'[c] = Head(toSend)
      BY <1>1 DEF TakePacket, TypeOK
    <2>2. /\ ToSet(toSend) = {Head(toSend)} \cup ToSet(toSend')
          /\ Rising(toSend) => Rising(toSend') /\ Below({Head(toSend)}, ToSet(toSend'))
      BY <1>0, <2>1, RisingHead
    <2>3. InHands' = {Head(toSend)} /\ Announced' = {}
      <3>1. \A d \in Conns : d # c => send'[d] = "none"
        BY <2>1 DEF Session
      <3> QED
        BY <2>1, <3>1 DEF InHands, Announced
    <2> QED
      BY <1>0, <2>1, <2>2, <2>3 DEF Queued, Below
  <1>2. CASE Write(c)
    <2>1. send[c] = "writing" /\ InHands = {item[c]} /\ Announced = {} /\ events' = events /\ toSend' = toSend
      BY <1>2, HandsOfSession DEF Write
    <2>2. tcpClient # 0
      BY <2>1, ConnNumbers DEF Session
    <2>3. /\ item' = item /\ \A d \in Conns : d # c => send'[d] = "none"
          /\ \/ send'[c] \in {"select", "event"} /\ written' = Append(written, item[c])
             \/ send'[c] = "error" /\ written' = written
      <3>1. \A d \in Conns : d # c => send[d] = "none"
        BY <2>1 DEF Session
      <3> QED
        BY <1>2, <2>2, <3>1 DEF Write, TypeOK
    <2>4. InHands' = {} /\ Announced' \subseteq {item[c]}
      BY <2>3 DEF InHands, Announced
    <2>5. /\ ToSet(Append(written, item[c])) = ToSet(written) \cup {item[c]}
          /\ Rising(Append(written, item[c])) <=> Rising(written) /\ Below(ToSet(written), {item[c]})
      BY <1>0, RisingAppend
    <2>6. Rising(written') /\ ToSet(written') \subseteq ToSet(written) \cup InHands
      BY <2>1, <2>3, <2>5 DEF Queued, Below
    <2> QED
      BY <1>0, <2>1, <2>4, <2>6 DEF Queued, Below
  <1>3. CASE PushEvent(c)
    <2>1. /\ send[c] = "event" /\ InHands = {} /\ Announced = {item[c]}
          /\ events' = Append(events, item[c]) /\ written' = written /\ toSend' = toSend /\ item' = item
      BY <1>3, HandsOfSession DEF PushEvent
    <2>2. \A d \in Conns : send'[d] \in {"none", "select"}
      <3>1. \A d \in Conns : d # c => send[d] = "none"
        BY <2>1 DEF Session
      <3> QED
        BY <1>3, <3>1 DEF PushEvent, TypeOK
    <2>3. InHands' = {} /\ Announced' = {}
      BY <2>2 DEF InHands, Announced
    <2>4. /\ ToSet(events') = ToSet(events) \cup {item[c]}
          /\ Rising(events') <=> Rising(events) /\ Below(ToSet(events), {item[c]})
      BY <1>0, <2>1, RisingAppend
    <2> QED
      BY <1>0, <2>1, <2>3, <2>4 DEF Queued, Below
  <1> QED
    BY <1>1, <1>2, <1>3 DEF SendLoop

LEMMA QueuedByController ==
  ASSUME TypeOK, Queued, SendPacket \/ SendUnblocked
  PROVE  Queued'
  <1> USE DEF loopVars, workVars, ctlVars, histories
  <1>0. /\ toSend \in Seq(Nat) /\ sent \in Nat /\ NextNumber \in Nat
        /\ InHands' = InHands /\ Announced' = Announced /\ written' = written /\ events' = events
    BY PacketNumbers DEF SendPacket, SendUnblocked, InHands, Announced, NextNumber
  <1>1. \/ toSend' = Append(toSend, NextNumber) /\ NextNumber' = NextNumber + 1
        \/ toSend' = toSend /\ NextNumber' = NextNumber
    BY <1>0 DEF SendPacket, SendUnblocked, NextNumber
  <1>2. CASE toSend' = toSend /\ NextNumber' = NextNumber
    BY <1>0, <1>2 DEF Queued
  <1>3. CASE toSend' = Append(toSend, NextNumber) /\ NextNumber' = NextNumber + 1
    <2>1. /\ ToSet(toSend') = ToSet(toSend) \cup {NextNumber}
          /\ Rising(toSend') <=> Rising(toSend) /\ Below(ToSet(toSend), {NextNumber})
      BY <1>0, <1>3, RisingAppend
    <2>2. \A p \in ToSet(written) \cup ToSet(events) \cup InHands \cup Announced \cup ToSet(toSend') : p < NextNumber'
      <3>1. \A p \in ToSet(written) \cup ToSet(events) \cup InHands \cup Announced \cup ToSet(toSend) : p < NextNumber /\ p \in Nat
        <4>1. \A p \in ToSet(written) \cup ToSet(events) \cup InHands \cup Announced \cup ToSet(toSend) : p \in Nat
          BY PacketNumbers, ElementOfSeq DEF ToSet, InHands, Announced
        <4> QED
          BY <4>1 DEF Queued, Below
      <3> QED
        BY <1>0, <1>3, <2>1, <3>1
    <2> QED
      BY <1>0, <2>1, <2>2 DEF Queued, Below
  <1> QED
    BY <1>1, <1>2, <1>3

LEMMA PacketsKept == TypeOK /\ Ends /\ Sessions /\ Sessions' /\ PacketsOrdered /\ [Next]_vars => PacketsOrdered'
  <1> SUFFICES ASSUME TypeOK, Ends, Sessions, Sessions', PacketsOrdered, [Next]_vars, Orderly'
               PROVE  Queued'
    BY DEF PacketsOrdered
  <1> USE DEF loopVars, workVars, ctlVars, histories
  <1>1. ~panicked /\ Session /\ Session' /\ Queued
    BY OrderlyBefore DEF Sessions, PacketsOrdered
  <1>2. ASSUME UNCHANGED <<send, item, written, events, toSend, controller, sent>>
        PROVE  Queued'
    BY <1>1, <1>2, SameHands, QueuedStays
  <1>3. CASE UNCHANGED vars
    BY <1>2, <1>3 DEF vars
  <1>4. CASE Dial \/ DialFailed \/ Listen \/ ListenReported \/ Accept \/ AcceptReported \/ IgnoreReconnect \/ Report \/ GiveUp
    BY <1>2, <1>4 DEF Dial, DialFailed, Listen, ListenReported, Accept, AcceptReported, IgnoreReconnect, Report, GiveUp
  <1>5. CASE Close \/ ServerClose \/ \E c \in Conns : ReceiveLoop(c) \/ Break(c)
    BY <1>2, <1>5 DEF Close, ServerClose, Panic, ReceiveLoop, StartRead, ServerStartRead, BeginRead, EndRead, Break
  <1>6. CASE Dialled \/ AcceptSetUp
    <2>1. send' = [send EXCEPT ![tcpClient] = "select"] /\ UNCHANGED <<item, written, events, toSend, controller, sent>>
      BY <1>6 DEF Dialled, AcceptSetUp, Spawn
    <2>2. tcpClient # 0 => tcpClient \in Conns
      BY DEF TypeOK, Conns
    <2>3. tcpClient # 0 => send[tcpClient] = "none"
      <3>1. CASE Dialled
        BY <1>1, <2>2, <3>1 DEF Dialled, Session, NoneLive
      <3>2. CASE AcceptSetUp
        <4>1. role = "server"
          BY <3>2 DEF AcceptSetUp, Ends, TypeOK
        <4> QED
          BY <2>2, <3>2, <4>1 DEF AcceptSetUp, Sessions, Orderly, ServerSession, NoneLive
      <3> QED
        BY <1>6, <3>1, <3>2
    <2> QED
      BY <1>1, <2>1, <2>2, <2>3, SameHands, QueuedStays, ConnNumbers DEF TypeOK
  <1>7. CASE TakeError \/ Cancel
    <2>1. /\ \/ send' = send
             \/ \E c \in Conns : send[c] \in {"error", "select"} /\ send' = [send EXCEPT ![c] = "none"]
          /\ UNCHANGED <<item, written, events, toSend, controller, sent>>
      BY <1>7 DEF TakeError, Cancel
    <2> QED
      BY <1>1, <2>1, SameHands, QueuedStays DEF TypeOK
  <1> QED
    BY <1>1, <1>3, <1>4, <1>5, <1>6, <1>7, QueuedBySender, QueuedByController DEF Next, ServerWork

LEMMA PacketsInit == Init => PacketsOrdered
  BY EmptyRises DEF Init, PacketsOrdered, Queued, Below, InHands, Announced

\* Packets are written, and their events taken, in the order in which they were
\* queued, none twice, whichever connections they leave by, as long as reconnects
\* only follow reported disconnects.
THEOREM WriteOrder == Spec => []WrittenInOrder
  <1>1. Init => TypeOK /\ Hands /\ Ends /\ Sessions /\ PacketsOrdered
    BY TypeInit, SessionInit, PacketsInit
  <1>2. /\ TypeOK /\ Hands /\ Ends /\ Sessions /\ PacketsOrdered /\ [Next]_vars
           => TypeOK' /\ Hands' /\ Ends' /\ Sessions' /\ PacketsOrdered'
    BY TypeNext, EndsKept, SessionsKept, PacketsKept
  <1>3. PacketsOrdered => WrittenInOrder
    BY DEF PacketsOrdered, Queued, WrittenInOrder, Increasing, Rising
  <1> QED
    BY <1>1, <1>2, <1>3, PTL DEF Spec
=============================================================================
