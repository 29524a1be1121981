---------------------------- MODULE TcpTransport ----------------------------
(***************************************************************************)
(* The goroutines of one TCP transport (tcp_transport_client.go or         *)
(* tcp_transport_server.go) and the StateController that owns it:          *)
(*   - Work, which dials again, takes the first error of a loop and stops  *)
(*     the connection;                                                     *)
(*   - the server's startServer, which accepts connections;                *)
(*   - a receiveLoop and a sendLoop per connection that was set up.        *)
(* All the channels between them are unbuffered (a step of sender and      *)
(* receiver together) except toSendDataChan.  The loops do not own their   *)
(* connection: every Read and Write goes to what the field tcpClient holds *)
(* at that moment, and a Read keeps the connection it began on.            *)
(*                                                                         *)
(* Of the controller only what the transport feels is kept: it queues      *)
(* packets, takes reports and events, and schedules a reconnect on every   *)
(* entry into IDLE.  The bytes read are left out.                          *)
(***************************************************************************)
EXTENDS Integers, Sequences, FiniteSets

CONSTANTS
  SendCap,     \* capacity of toSendDataChan (1024 in the code)
  MaxConns,    \* bound: TCP connections established
  MaxPackets,  \* bound: packets the controller sends
  MaxTimeouts, \* bound: times the controller gives up a connection that is open
  Silent       \* packets sent with the event None

ASSUME TransportAssumption ==
  /\ SendCap \in Nat \ {0} /\ MaxConns \in Nat \ {0}
  /\ MaxPackets \in Nat /\ MaxTimeouts \in Nat /\ Silent \subseteq Nat

VARIABLES
  role,       \* "client" or "server"
  work,       \* where the goroutine Work is
  acceptor,   \* where the server's startServer is
  tcpClient,  \* the field tcpClient; 0 is nil
  conn,       \* the TCP connections
  recv, reads,\* where each receiveLoop is, and the connection its Read is on
  send, item, \* where each sendLoop is, and the packet it has taken
  toSend,     \* toSendDataChan
  controller, \* "select", or "sending": blocked in sendPacket
  sent,       \* number of the last packet the controller passed to sendPacket
  reconnects, \* AfterFunc callbacks that wait to push into reconnectChan
  timeouts,   \* connections the controller gave up so far (bounds the model)
  panicked,   \* a method was called on a nil tcpClient: the process is gone
  written,    \* packets written successfully, in order (history)
  events      \* packets whose event reached the controller, in order (history)

vars == <<role, work, acceptor, tcpClient, conn, recv, reads, send, item, toSend, controller,
          sent, reconnects, timeouts, panicked, written, events>>

workVars  == <<work, acceptor, tcpClient, conn>>
loopVars  == <<recv, reads, send, item>>
ctlVars   == <<controller, sent, reconnects, timeouts>>
histories == <<written, events>>

Conns == 1..MaxConns

TypeOK ==
  /\ role \in {"client", "server"}
  /\ work \in {"select", "dialled", "dial_failed", "cancel", "report", "close"}
  /\ acceptor \in {"listen", "listening", "refused", "stopped", "accept", "report", "setup"}
  /\ tcpClient \in 0..MaxConns
  /\ conn \in [Conns -> {"unused", "open", "broken", "closed"}]
  /\ recv \in [Conns -> {"none", "select", "reading", "error"}]
  /\ reads \in [Conns -> 0..MaxConns]
  /\ send \in [Conns -> {"none", "select", "writing", "event", "error"}]
  /\ item \in [Conns -> 0..MaxPackets]
  /\ toSend \in Seq(1..MaxPackets) /\ Len(toSend) <= SendCap
  /\ controller \in {"select", "sending"}
  /\ sent \in 0..MaxPackets
  /\ reconnects \in Nat
  /\ timeouts \in 0..MaxTimeouts
  /\ panicked \in BOOLEAN
  /\ written \in Seq(1..MaxPackets)
  /\ events \in Seq(1..MaxPackets)

Init ==
  /\ role \in {"client", "server"}
  /\ work = "select" /\ acceptor = "listen"
  /\ tcpClient = 0
  /\ conn = [c \in Conns |-> "unused"]
  /\ recv = [c \in Conns |-> "none"] /\ reads = [c \in Conns |-> 0]
  /\ send = [c \in Conns |-> "none"] /\ item = [c \in Conns |-> 0]
  /\ toSend = <<>> /\ controller = "select" /\ sent = 0
  /\ reconnects = IF role = "client" THEN 1 ELSE 0  \* the settings make the client dial
  /\ timeouts = 0 /\ panicked = FALSE
  /\ written = <<>> /\ events = <<>>

Established(c) == conn[c] = "unused" /\ \A d \in Conns : d < c => conn[d] # "unused"

\* A dereference of a nil tcpClient kills the process.
Panic == panicked' = TRUE /\ UNCHANGED <<work, acceptor, tcpClient, conn, recv, reads, send, item>>

\* The two loops of a connection that was set up.
Spawn(c) ==
  /\ recv' = [recv EXCEPT ![c] = "select"]
  /\ send' = [send EXCEPT ![c] = "select"]

(***************************************************************************)
(* Work of the client.                                                     *)
(***************************************************************************)
\* A mutant: the callbacks come from a ticker, and go on.
DialByTicker ==
  /\ role = "client" /\ work = "select" /\ reconnects > 0
  /\ \/ \E c \in Conns :
          /\ Established(c)
          /\ conn' = [conn EXCEPT ![c] = "open"] /\ tcpClient' = c /\ work' = "dialled"
     \/ tcpClient' = 0 /\ work' = "dial_failed" /\ UNCHANGED conn
  /\ UNCHANGED <<role, acceptor, loopVars, toSend, ctlVars, panicked, histories>>

\* startClient: the field is overwritten whatever it held.
Dial ==
  /\ role = "client" /\ work = "select" /\ reconnects > 0
  /\ reconnects' = reconnects - 1
  /\ \/ \E c \in Conns :
          /\ Established(c)
          /\ conn' = [conn EXCEPT ![c] = "open"] /\ tcpClient' = c /\ work' = "dialled"
     \/ tcpClient' = 0 /\ work' = "dial_failed" /\ UNCHANGED conn
  /\ UNCHANGED <<role, acceptor, loopVars, toSend, controller, sent, timeouts, panicked, histories>>

\* connStateChan <- true is taken, then the loops start.
Dialled ==
  /\ work = "dialled" /\ controller = "select"
  /\ work' = "select" /\ Spawn(tcpClient)
  /\ UNCHANGED <<role, acceptor, tcpClient, conn, reads, item, toSend, ctlVars, panicked, histories>>

\* connStateChan <- false is taken: IDLE is entered again, with a new callback.
DialFailed ==
  /\ work = "dial_failed" /\ controller = "select"
  /\ work' = "select" /\ reconnects' = reconnects + 1
  /\ UNCHANGED <<role, acceptor, tcpClient, conn, loopVars, toSend, controller, sent, timeouts, panicked, histories>>

(***************************************************************************)
(* The server's startServer, and its Work discarding reconnects.           *)
(***************************************************************************)
\* The port is opened, or startServer gives up: nothing starts it again.
Listen ==
  /\ role = "server" /\ acceptor = "listen"
  /\ acceptor' \in {"listening", "refused"}
  /\ UNCHANGED <<role, work, tcpClient, conn, loopVars, toSend, ctlVars, panicked, histories>>

\* The state that it reports takes the controller into IDLE if it is down.
ListenReported ==
  /\ controller = "select"
  /\ \/ acceptor = "listening" /\ acceptor' = "accept" /\ UNCHANGED reconnects
     \/ acceptor = "refused" /\ acceptor' = "stopped" /\ reconnects' = reconnects + 1
  /\ UNCHANGED <<role, work, tcpClient, conn, loopVars, toSend, controller, sent, timeouts, panicked, histories>>

\* A mutant: a connection is accepted whatever the server holds.
AcceptAnother ==
  /\ role = "server" /\ acceptor = "accept"
  /\ \E c \in Conns :
       /\ Established(c)
       /\ conn' = [conn EXCEPT ![c] = "open"] /\ tcpClient' = c
  /\ acceptor' = "report"
  /\ UNCHANGED <<role, work, loopVars, toSend, ctlVars, panicked, histories>>

\* (A second connection is left open and unused.)
Accept ==
  /\ role = "server" /\ acceptor = "accept" /\ tcpClient = 0
  /\ \E c \in Conns :
       /\ Established(c)
       /\ conn' = [conn EXCEPT ![c] = "open"] /\ tcpClient' = c
  /\ acceptor' = "report"
  /\ UNCHANGED <<role, work, loopVars, toSend, ctlVars, panicked, histories>>

AcceptReported ==
  /\ acceptor = "report" /\ controller = "select"
  /\ acceptor' = "setup"
  /\ UNCHANGED <<role, work, tcpClient, conn, loopVars, toSend, ctlVars, panicked, histories>>

\* RSetup is taken, then the loops start.
AcceptSetUp ==
  /\ acceptor = "setup" /\ controller = "select"
  /\ acceptor' = "accept" /\ Spawn(tcpClient)
  /\ UNCHANGED <<role, work, tcpClient, conn, reads, item, toSend, ctlVars, panicked, histories>>

IgnoreReconnect ==
  /\ role = "server" /\ work = "select" /\ reconnects > 0
  /\ reconnects' = reconnects - 1
  /\ UNCHANGED <<role, workVars, loopVars, toSend, controller, sent, timeouts, panicked, histories>>

(***************************************************************************)
(* stopClient: cancel ONE loop, report, close.                             *)
(***************************************************************************)
\* A mutant: the loops are not cancelled, only reported and closed.
TakeErrorUncancelled ==
  /\ work = "select" /\ work' = "report"
  /\ \E c \in Conns :
       \/ recv[c] = "error" /\ recv' = [recv EXCEPT ![c] = "none"] /\ UNCHANGED send
       \/ send[c] = "error" /\ send' = [send EXCEPT ![c] = "none"] /\ UNCHANGED recv
  /\ UNCHANGED <<role, acceptor, tcpClient, conn, reads, item, toSend, ctlVars, panicked, histories>>

\* Work takes an error; the loop that reported it returns.
TakeError ==
  /\ work = "select" /\ work' = "cancel"
  /\ \E c \in Conns :
       \/ recv[c] = "error" /\ recv' = [recv EXCEPT ![c] = "none"] /\ UNCHANGED send
       \/ send[c] = "error" /\ send' = [send EXCEPT ![c] = "none"] /\ UNCHANGED recv
  /\ UNCHANGED <<role, acceptor, tcpClient, conn, reads, item, toSend, ctlVars, panicked, histories>>

Cancel ==
  /\ work = "cancel" /\ work' = "report"
  /\ \E c \in Conns :
       \/ recv[c] = "select" /\ recv' = [recv EXCEPT ![c] = "none"] /\ UNCHANGED send
       \/ send[c] = "select" /\ send' = [send EXCEPT ![c] = "none"] /\ UNCHANGED recv
  /\ UNCHANGED <<role, acceptor, tcpClient, conn, reads, item, toSend, ctlVars, panicked, histories>>

\* connStateChan <- false is taken: the controller enters IDLE.
Report ==
  /\ work = "report" /\ controller = "select"
  /\ work' = "close" /\ reconnects' = reconnects + 1
  /\ UNCHANGED <<role, acceptor, tcpClient, conn, loopVars, toSend, controller, sent, timeouts, panicked, histories>>

\* What the field holds now is closed, not the connection the error came from.
\* The client's field keeps the closed connection.
Close ==
  /\ role = "client" /\ work = "close"
  /\ IF tcpClient = 0
     THEN Panic
     ELSE /\ work' = "select" /\ conn' = [conn EXCEPT ![tcpClient] = "closed"]
          /\ UNCHANGED <<acceptor, tcpClient, loopVars, panicked>>
  /\ UNCHANGED <<role, toSend, ctlVars, histories>>

ServerClose ==
  /\ role = "server" /\ work = "close" /\ work' = "select"
  /\ conn' = [c \in Conns |-> IF c = tcpClient THEN "closed" ELSE conn[c]]
  /\ tcpClient' = 0
  /\ UNCHANGED <<role, acceptor, loopVars, toSend, ctlVars, panicked, histories>>

\* What Work of the server does; its stopClient differs in the close only.
ServerWork == IgnoreReconnect \/ TakeError \/ Cancel \/ Report \/ ServerClose

(***************************************************************************)
(* The loops of connection c.                                              *)
(***************************************************************************)
\* No cancel is offered, so the select falls through to Read.
BeginRead(c) ==
  /\ recv' = [recv EXCEPT ![c] = "reading"] /\ reads' = [reads EXCEPT ![c] = tcpClient]
  /\ UNCHANGED <<panicked, workVars, send, item>>

StartRead(c) ==
  /\ role = "client" /\ recv[c] = "select" /\ work # "cancel"
  /\ IF tcpClient = 0 THEN Panic ELSE BeginRead(c)
  /\ UNCHANGED <<role, toSend, ctlVars, histories>>

\* The server's loop spins while the field is nil.
ServerStartRead(c) ==
  /\ role = "server" /\ recv[c] = "select" /\ work # "cancel" /\ tcpClient # 0
  /\ BeginRead(c)
  /\ UNCHANGED <<role, toSend, ctlVars, histories>>

\* A mutant: the end of the stream is not an error.
EndReadRetrying(c) ==
  /\ recv[c] = "reading"
  /\ recv' = [recv EXCEPT ![c] = "select"]
  /\ UNCHANGED <<role, workVars, reads, send, item, toSend, ctlVars, panicked, histories>>

\* Read returns bytes, which go to receivedDataChan, or an error.
EndRead(c) ==
  /\ recv[c] = "reading"
  /\ recv' = [recv EXCEPT ![c] = IF conn[reads[c]] = "open" THEN "select" ELSE "error"]
  /\ UNCHANGED <<role, workVars, reads, send, item, toSend, ctlVars, panicked, histories>>

TakePacket(c) ==
  /\ send[c] = "select" /\ toSend # <<>>
  /\ send' = [send EXCEPT ![c] = "writing"]
  /\ item' = [item EXCEPT ![c] = Head(toSend)]
  /\ toSend' = Tail(toSend)
  /\ UNCHANGED <<role, workVars, recv, reads, ctlVars, panicked, histories>>

\* Write to a broken connection succeeds as long as the kernel has not learnt it.
Write(c) ==
  /\ send[c] = "writing"
  /\ \/ tcpClient = 0 /\ Panic /\ UNCHANGED written
     \/ /\ tcpClient # 0 /\ conn[tcpClient] \in {"open", "broken"}
        /\ written' = Append(written, item[c])
        /\ send' = [send EXCEPT ![c] = IF item[c] \in Silent THEN "select" ELSE "event"]
        /\ UNCHANGED <<panicked, workVars, recv, reads, item>>
     \/ /\ tcpClient # 0 /\ conn[tcpClient] \in {"broken", "closed"}
        /\ send' = [send EXCEPT ![c] = "error"]
        /\ UNCHANGED <<panicked, workVars, recv, reads, item, written>>
  /\ UNCHANGED <<role, toSend, ctlVars, events>>

PushEvent(c) ==
  /\ send[c] = "event" /\ controller = "select"
  /\ send' = [send EXCEPT ![c] = "select"]
  /\ events' = Append(events, item[c])
  /\ UNCHANGED <<role, workVars, recv, reads, item, toSend, ctlVars, panicked, written>>

\* The loops of either role: but for the nil field they are written alike.
ReceiveLoop(c) == StartRead(c) \/ ServerStartRead(c) \/ EndRead(c)
SendLoop(c)    == TakePacket(c) \/ Write(c) \/ PushEvent(c)

(***************************************************************************)
(* The controller and the peer.                                            *)
(***************************************************************************)
\* sendPacket is called, in any FMTP state.
SendPacket ==
  /\ controller = "select" /\ sent < MaxPackets
  /\ sent' = sent + 1
  /\ IF Len(toSend) < SendCap THEN toSend' = Append(toSend, sent + 1) /\ UNCHANGED controller
                              ELSE controller' = "sending" /\ UNCHANGED toSend
  /\ UNCHANGED <<role, workVars, loopVars, reconnects, timeouts, panicked, histories>>

SendUnblocked ==
  /\ controller = "sending" /\ Len(toSend) < SendCap
  /\ controller' = "select" /\ toSend' = Append(toSend, sent)
  /\ UNCHANGED <<role, workVars, loopVars, sent, reconnects, timeouts, panicked, histories>>

\* A timeout or a packet that does not fit takes the controller to IDLE while
\* the connection stays as it is.
GiveUp ==
  /\ controller = "select" /\ timeouts < MaxTimeouts /\ tcpClient # 0
  /\ timeouts' = timeouts + 1 /\ reconnects' = reconnects + 1
  /\ UNCHANGED <<role, workVars, loopVars, toSend, controller, sent, panicked, histories>>

Break(c) ==
  /\ conn[c] = "open" /\ conn' = [conn EXCEPT ![c] = "broken"]
  /\ UNCHANGED <<role, work, acceptor, tcpClient, loopVars, toSend, ctlVars, panicked, histories>>

Next ==
  /\ ~panicked
  /\ \/ Dial \/ Dialled \/ DialFailed
     \/ Listen \/ ListenReported \/ Accept \/ AcceptReported \/ AcceptSetUp
     \/ ServerWork \/ Close
     \/ \E c \in Conns : ReceiveLoop(c) \/ SendLoop(c)
     \/ SendPacket \/ SendUnblocked \/ GiveUp \/ \E c \in Conns : Break(c)

Spec == Init /\ [][Next]_vars

\* Every goroutine that can take a step does so in the end.  Nothing is assumed
\* of dials, of the peer, or of the packets and timeouts of the controller.
FairSpec ==
  /\ Spec
  /\ WF_vars(~panicked /\ Dialled) /\ WF_vars(~panicked /\ DialFailed)
  /\ WF_vars(~panicked /\ ListenReported)
  /\ WF_vars(~panicked /\ AcceptReported) /\ WF_vars(~panicked /\ AcceptSetUp)
  /\ WF_vars(~panicked /\ TakeError) /\ WF_vars(~panicked /\ Cancel)
  /\ WF_vars(~panicked /\ Report) /\ WF_vars(~panicked /\ (Close \/ ServerClose))
  /\ WF_vars(~panicked /\ SendUnblocked)
  /\ \A c \in Conns :
       /\ WF_vars(~panicked /\ (StartRead(c) \/ ServerStartRead(c))) /\ WF_vars(~panicked /\ EndRead(c))
       /\ WF_vars(~panicked /\ TakePacket(c)) /\ WF_vars(~panicked /\ Write(c))
       /\ WF_vars(~panicked /\ PushEvent(c))

(***************************************************************************)
(* Properties.                                                             *)
(***************************************************************************)
LiveReceivers == {c \in Conns : recv[c] # "none"}
LiveSenders   == {c \in Conns : send[c] # "none"}

\* The controller has never given up a connection that it still had.
Orderly == role = "server" \/ timeouts = 0

Increasing(s) == \A i, j \in DOMAIN s : i < j => s[i] < s[j]

\* As long as reconnects only follow reported disconnects (always so for a
\* server), no loop survives into the next connection: there is one loop of
\* each kind at most, it serves the connection in the field tcpClient, and the
\* nil field is never dereferenced.
OneConnectionServed ==
  Orderly =>
    /\ Cardinality(LiveReceivers) <= 1 /\ Cardinality(LiveSenders) <= 1
    /\ \A c \in LiveReceivers \cup LiveSenders : tcpClient = c
    /\ ~panicked

\* ... and packets leave, and their events reach the controller, in the order
\* in which the controller queued them, none twice.
WrittenInOrder == Orderly => Increasing(written) /\ Increasing(events)

\* The callbacks do not multiply, whatever the order of errors, timeouts and dials:
\* one is there for the first dial (or the port that a server cannot open), and
\* then at most one for each connection that there was and for each timeout.
ReconnectsOwed == reconnects <= 1 + timeouts + Cardinality({c \in Conns : conn[c] # "unused"})

\* The waits that never end: stopClient offers a cancel that no loop will take;
\* the controller waits for room in a full queue that no sendLoop will drain.
StopStuck == work = "cancel" /\ \A c \in Conns : recv[c] \in {"none", "error"} /\ send[c] \in {"none", "error"}
QueueStuck == controller = "sending" /\ \A c \in Conns : send[c] \in {"none", "event", "error"}

\* A broken connection is reported and closed, or replaced, unless the
\* transport has run into one of exactly these two waits.
BreakHandled ==
  \A c \in Conns :
    (tcpClient = c /\ conn[c] = "broken")
      ~> (tcpClient # c \/ conn[c] = "closed" \/ StopStuck \/ QueueStuck \/ panicked)
=============================================================================
