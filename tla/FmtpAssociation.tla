-------------------------- MODULE FmtpAssociation --------------------------
(***************************************************************************)
(* Two fmtp_channel processes, the TCP client and the TCP server of one    *)
(* FMTP link.  Each endpoint has a StateController (the select loop of     *)
(* channel/fmtp_states/state_controller.go with its enter and exit         *)
(* functions) and a TCP transport whose sendLoop and receiveLoop run as    *)
(* goroutines of their own.                                                *)
(*                                                                         *)
(* What interleaves: the two controllers, the two sendLoops (a packet is   *)
(* written first and its "event after send" is delivered later, possibly   *)
(* after the answer of the peer), arrival of packets, expiry of timers,    *)
(* TCP breaks noticed by each side in its own time, and the redials that   *)
(* every entry into Idle schedules.                                        *)
(*                                                                         *)
(* The sendLoop takes whole packets and the receiver handles whole         *)
(* packets (framing is a matter of fmtp_package.go).  At most one TCP      *)
(* connection carries data: a redial while the server still holds the old  *)
(* connection gives the client a socket that nobody reads.                 *)
(***************************************************************************)
EXTENDS StateTransitionFuncs, Integers, Sequences

CONSTANTS
  SendCap,    \* capacity of toSendDataChan (1024 in the code)
  WireCap,    \* bound: packets on their way to one endpoint
  MaxTraffic, \* bound: messages of the chief and expirations of Ts, together
  Talkers,    \* bound: endpoints with such traffic
  MaxBreaks,  \* bound: TCP connections that break
  MaxRedials  \* bound: reconnect callbacks outstanding at once

ASSUME BoundsAssumption ==
  /\ SendCap \in Nat \ {0} /\ WireCap \in Nat \ {0}
  /\ MaxTraffic \in Nat /\ Talkers \subseteq Roles /\ MaxBreaks \in Nat /\ MaxRedials \in Nat \ {0}

VARIABLES
  trusts,     \* endpoints whose settings (read once, at the start) expect the
              \* identification that the peer sends
  state,      \* currentState of each controller
  toSend,     \* toSendDataChan, then what the controller waits to push into it
  pending,    \* event the sendLoop waits to push into its unbuffered event channel
  inbox,      \* packets on the wire or in receivedDataChan of each endpoint
  armed,      \* timers that run
  due,        \* timers that expired and whose goroutine waits for the controller
  tp,         \* phase of each TCP transport
  link,       \* "joined" iff both transports hold the same open connection
  redials,    \* AfterFunc callbacks of the client that have not dialled yet
  breaks,     \* breaks so far (bounds the model)
  traffic,    \* messages of the chief and expirations of Ts so far (bounds the model)
  produced,   \* number of the last message the chief handed to each endpoint
  delivered,  \* numbers of the messages handed to the user of each endpoint
  met         \* endpoints that have completed identification at least once (history)

vars == <<trusts, state, toSend, pending, inbox, armed, due, tp, link, redials, breaks,
          traffic, produced, delivered, met>>

Peer(e) == IF e = Client THEN Server ELSE Client

Timers == {"Ti", "Ts", "Tr"}
TimeoutEvent == [Ti |-> "TiTimeout", Ts |-> "TsTimeout", Tr |-> "TrTimeout"]

Kinds    == {"ident", "accept", "reject", "startup", "shutdown", "heartbeat", "data"}
TpPhases == {"closed", "opening", "open", "closing"}

\* The events a packet may carry: what sendPacket's callers pass.
AfterEvents == {None, "RSetup", "LStartup", "LData"}

Packet == [kind : Kinds, n : Nat, after : AfterEvents]

TypeOK ==
  /\ trusts \subseteq Roles
  /\ state \in [Roles -> States]
  /\ toSend \in [Roles -> Seq(Packet)]
  /\ pending \in [Roles -> AfterEvents]
  /\ inbox \in [Roles -> Seq(Packet)]
  /\ armed \in [Roles -> SUBSET Timers]
  /\ due \in [Roles -> SUBSET Timers]
  /\ tp \in [Roles -> TpPhases]
  /\ link \in {"joined", "apart"}
  /\ redials \in 0..MaxRedials
  /\ breaks \in 0..MaxBreaks
  /\ traffic \in 0..MaxTraffic
  /\ produced \in [Roles -> Nat]
  /\ delivered \in [Roles -> Seq(Nat)]
  /\ met \subseteq Roles

(***************************************************************************)
(* sendPacket blocks while toSendDataChan is full.  The packets beyond its *)
(* capacity are those the handler still waits to push, and until then the  *)
(* controller's select loop stands still.                                  *)
(***************************************************************************)
Blocked(e) == Len(toSend[e]) > SendCap

Transition(e, ev, t) ==
  LET exit == OnExit(e, state[e], ev)  enter == OnEnter(t) IN
  /\ state'  = [state EXCEPT ![e] = t]
  /\ toSend' = [toSend EXCEPT ![e] = @ \o exit.send \o enter.send]
  /\ armed'  = [armed EXCEPT ![e] = ((@ \ exit.stop) \cup exit.restart) \cup enter.restart]
  /\ met' = IF t = Ready THEN met \cup {e} ELSE met

\* IdleStateEnter schedules a redial, also on Idle -> Idle; only the client's
\* transport acts on it.
WithRedial(e, t, r) == IF e = Client /\ t = Idle /\ r < MaxRedials THEN r + 1 ELSE r

\* forceNewEvent with r redials outstanding; Empt means that nothing happens.
ForceNewEventWith(e, ev, r) ==
  \/ /\ NextStates(e, state[e], ev) = {}
     /\ redials' = r
     /\ UNCHANGED <<state, toSend, armed, met>>
  \/ \E t \in NextStates(e, state[e], ev) :
       Transition(e, ev, t) /\ redials' = WithRedial(e, t, r)

ForceNewEvent(e, ev) == ForceNewEventWith(e, ev, redials)

Init ==
  /\ trusts \in SUBSET Roles
  /\ state = [e \in Roles |-> Idle]
  /\ toSend = [e \in Roles |-> <<>>]
  /\ pending = [e \in Roles |-> None]
  /\ inbox = [e \in Roles |-> <<>>]
  /\ armed = [e \in Roles |-> {}]
  /\ due = [e \in Roles |-> {}]
  /\ tp = [e \in Roles |-> "closed"]
  /\ link = "apart"
  /\ redials = 1               \* the settings make the client dial at once
  /\ breaks = 0
  /\ traffic = 0
  /\ produced = [e \in Roles |-> 0]
  /\ delivered = [e \in Roles |-> <<>>]
  /\ met = {}

(***************************************************************************)
(* TCP transport.                                                          *)
(***************************************************************************)
\* startClient: the dial succeeds and the controller takes connState = true.
\* (A failed dial reports RDisconnect to an Idle controller, which schedules
\* the next one: nothing changes.)  The server accepts the connection only
\* when it holds none; it leaves an unwanted one open and unread.
Dial ==
  /\ redials > 0 /\ tp[Client] \in {"closed", "open"} /\ ~Blocked(Client)
  /\ IF tp[Server] = "closed"
       THEN tp' = [tp EXCEPT ![Client] = "open", ![Server] = "opening"] /\ link' = "joined"
       ELSE tp' = [tp EXCEPT ![Client] = "open"] /\ link' = "apart"
  /\ ForceNewEventWith(Client, "LSetup", redials - 1)
  /\ UNCHANGED <<trusts, pending, inbox, due, breaks, traffic, produced, delivered>>

\* startServer: RSetup for the accepted connection, then its two loops start.
\* (connState = true becomes LSetup, which the server's table ignores.)
Accept ==
  /\ tp[Server] = "opening" /\ ~Blocked(Server)
  /\ tp' = [tp EXCEPT ![Server] = "open"]
  /\ ForceNewEvent(Server, "RSetup")
  /\ UNCHANGED <<trusts, pending, inbox, due, link, breaks, traffic, produced, delivered>>

\* The connection breaks: what receiveLoop has read so far stays readable.
Break ==
  /\ link = "joined" /\ tp = [e \in Roles |-> "open"] /\ breaks < MaxBreaks
  /\ link' = "apart" /\ breaks' = breaks + 1
  /\ tp' = [e \in Roles |-> "closing"]
  /\ \E read \in [Roles -> 0..WireCap] :
       /\ \A e \in Roles : read[e] <= Len(inbox[e])
       /\ inbox' = [e \in Roles |-> SubSeq(inbox[e], 1, read[e])]
  /\ UNCHANGED <<trusts, state, toSend, pending, armed, due, redials, traffic, produced, delivered, met>>

\* A connection whose other end is not in use any more breaks.
BreakApart(e) ==
  /\ link = "apart" /\ tp[e] = "open" /\ breaks < MaxBreaks
  /\ tp' = [tp EXCEPT ![e] = "closing"] /\ breaks' = breaks + 1
  /\ UNCHANGED <<trusts, state, toSend, pending, inbox, armed, due, link, redials, traffic, produced, delivered, met>>

\* stopClient: the sendLoop takes the cancel signal (so it is not waiting to
\* push an event), then connState = false reaches the controller.
Down(e) ==
  /\ tp[e] = "closing" /\ pending[e] = None /\ ~Blocked(e)
  /\ tp' = [tp EXCEPT ![e] = "closed"]
  /\ ForceNewEvent(e, "RDisconnect")
  /\ UNCHANGED <<trusts, pending, inbox, due, link, breaks, traffic, produced, delivered>>

\* sendLoop: one packet is written, then its event is pushed.  A packet
\* written to a dead or unread connection is lost.
Write(e) ==
  /\ tp[e] \in {"open", "closing"} /\ pending[e] = None /\ toSend[e] # <<>>
  /\ pending' = [pending EXCEPT ![e] = Head(toSend[e]).after]
  /\ toSend'  = [toSend EXCEPT ![e] = Tail(@)]
  /\ \/ /\ link = "joined" /\ Len(inbox[Peer(e)]) < WireCap
        /\ inbox' = [inbox EXCEPT ![Peer(e)] = Append(@, Head(toSend[e]))]
     \/ /\ link = "apart"
        /\ UNCHANGED inbox
  /\ UNCHANGED <<trusts, state, armed, due, tp, link, redials, breaks, traffic, produced, delivered, met>>

(***************************************************************************)
(* The controller's select loop.                                           *)
(***************************************************************************)
AfterSend(e) ==
  /\ pending[e] # None /\ ~Blocked(e)
  /\ pending' = [pending EXCEPT ![e] = None]
  /\ ForceNewEvent(e, pending[e])
  /\ UNCHANGED <<trusts, inbox, due, tp, link, breaks, traffic, produced, delivered>>

\* A mutant: the text of an identification message is not compared.
RemoteEventUnchecked(e, p) ==
  CASE p.kind = "ident"     -> "RIdValid"
    [] p.kind = "accept"    -> "RAccept"
    [] p.kind = "reject"    -> "RReject"
    [] p.kind = "startup"   -> "RStartup"
    [] p.kind = "shutdown"  -> "RShutdown"
    [] p.kind = "heartbeat" -> "RHeartbeat"
    [] p.kind = "data"      -> "RData"

\* processFmtpMessage: the event of a packet.
RemoteEvent(e, p) ==
  CASE p.kind = "ident"     -> IF e \in trusts THEN "RIdValid" ELSE "RIdInvalid"
    [] p.kind = "accept"    -> "RAccept"
    [] p.kind = "reject"    -> "RReject"
    [] p.kind = "startup"   -> "RStartup"
    [] p.kind = "shutdown"  -> "RShutdown"
    [] p.kind = "heartbeat" -> "RHeartbeat"
    [] p.kind = "data"      -> "RData"

\* Operational data goes to the user whatever the state.
Receive(e) ==
  /\ inbox[e] # <<>> /\ tp[e] # "opening" /\ ~Blocked(e)
  /\ inbox' = [inbox EXCEPT ![e] = Tail(@)]
  /\ delivered' = IF Head(inbox[e]).kind = "data"
                    THEN [delivered EXCEPT ![e] = Append(@, Head(inbox[e]).n)]
                    ELSE delivered
  /\ ForceNewEvent(e, RemoteEvent(e, Head(inbox[e])))
  /\ UNCHANGED <<trusts, pending, due, tp, link, breaks, traffic, produced>>

Timeout(e, t) ==
  /\ t \in due[e] /\ ~Blocked(e)
  /\ due' = [due EXCEPT ![e] = @ \ {t}]
  /\ ForceNewEvent(e, TimeoutEvent[t])
  /\ UNCHANGED <<trusts, pending, inbox, tp, link, breaks, traffic, produced, delivered>>

\* A mutant: a message of the chief overtakes what is queued already.
ChiefDataOvertaking(e) ==
  /\ e \in Talkers /\ traffic < MaxTraffic /\ ~Blocked(e)
  /\ traffic' = traffic + 1
  /\ produced' = [produced EXCEPT ![e] = @ + 1]
  /\ toSend' = [toSend EXCEPT ![e] =
                  <<[kind |-> "data", n |-> produced[e] + 1, after |-> "LData"]>> \o @]
  /\ UNCHANGED <<trusts, state, pending, inbox, armed, due, tp, link, redials, breaks, delivered, met>>

\* Data of the chief is queued in every state.
ChiefData(e) ==
  /\ e \in Talkers /\ traffic < MaxTraffic /\ ~Blocked(e)
  /\ traffic' = traffic + 1
  /\ produced' = [produced EXCEPT ![e] = @ + 1]
  /\ toSend' = [toSend EXCEPT ![e] =
                  Append(@, [kind |-> "data", n |-> produced[e] + 1, after |-> "LData"])]
  /\ UNCHANGED <<trusts, state, pending, inbox, armed, due, tp, link, redials, breaks, delivered, met>>

\* A timer's goroutine sees its deadline pass and waits for the controller.
Expire(e, t) ==
  /\ t \in armed[e] /\ t \notin due[e]
  /\ IF t = "Ts" THEN e \in Talkers /\ traffic < MaxTraffic /\ traffic' = traffic + 1
                 ELSE UNCHANGED traffic
  /\ armed' = [armed EXCEPT ![e] = @ \ {t}]
  /\ due'   = [due EXCEPT ![e] = @ \cup {t}]
  /\ UNCHANGED <<trusts, state, toSend, pending, inbox, tp, link, redials, breaks, produced, delivered, met>>

Next ==
  \/ Dial \/ Accept \/ Break
  \/ \E e \in Roles :
       \/ BreakApart(e) \/ Down(e) \/ Write(e)
       \/ AfterSend(e) \/ Receive(e) \/ ChiefData(e)
       \/ \E t \in Timers : Timeout(e, t) \/ Expire(e, t)

Spec == Init /\ [][Next]_vars

(***************************************************************************)
(* Fairness.  The goroutines run, a select whose case stays ready takes it *)
(* in the end (Go picks among ready cases at random), an armed Ti expires, *)
(* and Tr expires once nothing can arrive that would restart it.  Nothing  *)
(* is assumed of Ts, of breaks or of the chief.                            *)
(***************************************************************************)
SilentTr(e) == link = "apart" /\ inbox[e] = <<>> /\ Expire(e, "Tr")

Fairness ==
  /\ WF_vars(Dial)
  /\ WF_vars(Accept)
  /\ \A e \in Roles :
       /\ WF_vars(Down(e))
       /\ WF_vars(Write(e))
       /\ WF_vars(AfterSend(e))
       /\ WF_vars(Receive(e))
       /\ WF_vars(Expire(e, "Ti"))
       /\ WF_vars(SilentTr(e))
       /\ \A t \in Timers : WF_vars(Timeout(e, t))

FairSpec == Spec /\ Fairness

(***************************************************************************)
(* Properties.                                                             *)
(***************************************************************************)
Associated == {Ready, AssPending, DataReady}

\* An endpoint counts as identified only if both ends are configured to expect
\* each other; the server only after the client has accepted it; and it
\* exchanges data only with a peer that itself completed identification.
\* Stale packets and events of an earlier connection must not change that.
MutualRecognition ==
  \A e \in Roles :
    /\ state[e] \in Associated => trusts = Roles
    /\ state[Server] \in Associated => Client \in met
    /\ state[e] = DataReady => Peer(e) \in met

\* No wait for the peer's identification is open-ended, and an endpoint in
\* DATA_READY always has the timers that detect a silent peer and keep its own
\* silence short: running, or expired with the timeout still to be handled.
WaitsAreTimed ==
  \A e \in Roles :
    /\ state[e] \in {SysIdPending, IdPending} => "Ti" \in armed[e] \cup due[e]
    /\ state[e] = DataReady => {"Ts", "Tr"} \subseteq armed[e] \cup due[e]

\* Operational messages reach the remote user in the order in which the chief
\* handed them over and never twice, across breaks, redials and leftovers.
DataInOrder ==
  \A e \in Roles : \A i, j \in DOMAIN delivered[e] :
    i < j => delivered[e][i] < delivered[e][j]

\* The identification phase ends for each endpoint, whatever the peer does.
IdWaitEnds ==
  \A e \in Roles : (state[e] \in {SysIdPending, IdPending})
                     ~> (state[e] \notin {SysIdPending, IdPending})

\* An endpoint whose TCP connection is of no use any more leaves DATA_READY.
HalfOpenDetected ==
  \A e \in Roles : (state[e] = DataReady /\ link = "apart") ~> (state[e] # DataReady)

\* ASS_PENDING is a wait that ends: AssosiationPendingStateExit repeats the
\* STARTUP when Tr expires.
AssPendingEnds ==
  \A e \in Roles : (state[e] = AssPending) ~> (state[e] # AssPending)

(***************************************************************************)
(* The association as its users see it.                                    *)
(***************************************************************************)
PhaseOf(s) ==
  CASE s = Idle -> "down"
    [] s \in {ConPending, SysIdPending, IdPending} -> "identifying"
    [] s \in {Ready, AssPending} -> "identified"
    [] s = DataReady -> "operational"

Phases == INSTANCE AssociationPhases WITH phase <- [e \in Roles |-> PhaseOf(state[e])]
PhasesSpec == Phases!Spec
=============================================================================
