---------------------------- MODULE OldiExchange ----------------------------
(***************************************************************************)
(* The way of OLDI messages through the chief, in both directions:         *)
(*                                                                         *)
(*   ChannelWork --toPacket--> ChiefWorker --toFdps--> OldiWork --> queue  *)
(*   ChannelWork <-fromPacket- ChiefWorker <-fromFdps- OldiWork <-- gRPC   *)
(*                                                                         *)
(* Three goroutines (ChiefChannelServer.Work, chief_worker.Start and       *)
(* OldiGrpcController.Work) each serve both directions in one select, and  *)
(* hand messages on through bounded Go channels: a goroutine that finds    *)
(* the channel full holds its message and serves nothing else.  The gRPC   *)
(* handlers of the providers run beside them: SendMsg pushes, RecvMsq and  *)
(* the clean-up take from the queue msgToFdps under its lock.              *)
(*                                                                         *)
(* Messages are numbered in each direction in the order in which they      *)
(* enter it.  A hand holds a message, or 0.                                *)
(***************************************************************************)
EXTENDS Integers, Sequences, FiniteSets

CONSTANTS
  Providers,    \* hosts of the flight data providers in the settings
  Cap,          \* capacity of each Go channel (1024 in the code)
  MaxMsgToSend, \* maxMsgToSend: messages of one answer (1000 in the code)
  MaxUp,        \* bound: messages from the channels
  Calls,        \* bound: SendMsg calls, each with one or two messages
  MaxLocated    \* bound: messages of the providers that have a channel

ASSUME ExchangeAssumption ==
  /\ IsFiniteSet(Providers) /\ IsFiniteSet(Calls)
  /\ Cap \in Nat \ {0} /\ MaxMsgToSend \in Nat \ {0} /\ MaxUp \in Nat /\ MaxLocated \in Nat

VARIABLES
  ups,          \* messages of the channels so far
  channelHand,  \* ChannelWork's message for toPacket
  toPacket,     \* ToFdpsPacketChan
  workerUp,     \* ChiefWorker's message for toFdps
  toFdps,       \* OldiGrpcController.ToFdpsChan
  queue,        \* msgToFdps
  left,         \* messages that left the queue, in order (history)
  rest,         \* messages that each SendMsg call has still to push
  downs,        \* messages of the providers so far
  grpc,         \* fmtpGrpcServerImpl.FromFdpsChan
  oldiHand,     \* OldiWork's message for fromFdps
  fromFdps,     \* OldiGrpcController.FromFdpsChan
  workerDown,   \* ChiefWorker's message for fromPacket
  fromPacket,   \* FromFdpsPacketChan
  ready,        \* the channel's last heartbeat said data_ready
  handled,      \* messages that ChannelWork took, in order (history)
  sent,         \* those of them that it sent to the channel (history)
  activity,     \* clntActivity: never, within or not within providerValidDur
  state         \* the ProviderState last published

up    == <<ups, channelHand, toPacket, workerUp, toFdps, queue, left>>
down  == <<rest, downs, grpc, oldiHand, fromFdps, workerDown, fromPacket, handled, sent>>
watch == <<activity, state>>
vars  == <<up, down, ready, watch>>

TypeOK ==
  /\ ups \in 0..MaxUp /\ downs \in 0..MaxLocated
  /\ channelHand \in 0..MaxUp /\ workerUp \in 0..MaxUp
  /\ oldiHand \in 0..MaxLocated /\ workerDown \in 0..MaxLocated
  /\ \A s \in {toPacket, toFdps} : Len(s) <= Cap /\ s \in Seq(1..MaxUp)
  /\ \A s \in {grpc, fromFdps, fromPacket} : Len(s) <= Cap /\ s \in Seq(1..MaxLocated)
  /\ queue \in Seq(1..MaxUp) /\ left \in Seq(1..MaxUp) /\ handled \in Seq(1..MaxLocated)
  /\ sent \subseteq 1..MaxLocated
  /\ rest \in [Calls -> -1..2]
  /\ ready \in BOOLEAN
  /\ activity \in [Providers -> {"never", "recent", "old"}]
  /\ state \in [Providers -> {"none", "ok", "error"}]

Init ==
  /\ ups = 0 /\ channelHand = 0 /\ toPacket = <<>> /\ workerUp = 0 /\ toFdps = <<>>
  /\ queue = <<>> /\ left = <<>>
  /\ rest = [c \in Calls |-> -1]  \* not called yet
  /\ downs = 0 /\ grpc = <<>> /\ oldiHand = 0 /\ fromFdps = <<>> /\ workerDown = 0
  /\ fromPacket = <<>> /\ handled = <<>> /\ sent = {}
  /\ ready = FALSE
  /\ activity = [p \in Providers |-> "never"]
  /\ state = [p \in Providers |-> "none"]

(***************************************************************************)
(* The selects: a goroutine with a full hand is not in its select.         *)
(***************************************************************************)
InSelect == channelHand = 0
WorkerInSelect == workerUp = 0 /\ workerDown = 0
OldiInSelect == oldiHand = 0

Room(s) == Len(s) < Cap

(***************************************************************************)
(* From the channels to the providers.                                     *)
(***************************************************************************)
\* A DataMsg of a channel of type OLDI, from the WebSocket.
ChannelMessage ==
  /\ InSelect /\ ups < MaxUp
  /\ ups' = ups + 1 /\ channelHand' = ups'
  /\ UNCHANGED <<toPacket, workerUp, toFdps, queue, left, down, ready, watch>>

\* A mutant: the channel takes more than its capacity.
PushPacketUnbounded ==
  /\ channelHand # 0
  /\ toPacket' = Append(toPacket, channelHand) /\ channelHand' = 0
  /\ UNCHANGED <<ups, workerUp, toFdps, queue, left, down, ready, watch>>

PushPacket ==
  /\ channelHand # 0 /\ Room(toPacket)
  /\ toPacket' = Append(toPacket, channelHand) /\ channelHand' = 0
  /\ UNCHANGED <<ups, workerUp, toFdps, queue, left, down, ready, watch>>

WorkerTakesUp ==
  /\ WorkerInSelect /\ toPacket # <<>>
  /\ workerUp' = Head(toPacket) /\ toPacket' = Tail(toPacket)
  /\ UNCHANGED <<ups, channelHand, toFdps, queue, left, down, ready, watch>>

\* A mutant: a message that does not fit is dropped.
WorkerPushesUpOrDrops ==
  /\ workerUp # 0
  /\ toFdps' = (IF Room(toFdps) THEN Append(toFdps, workerUp) ELSE toFdps) /\ workerUp' = 0
  /\ UNCHANGED <<ups, channelHand, toPacket, queue, left, down, ready, watch>>

WorkerPushesUp ==
  /\ workerUp # 0 /\ Room(toFdps)
  /\ toFdps' = Append(toFdps, workerUp) /\ workerUp' = 0
  /\ UNCHANGED <<ups, channelHand, toPacket, queue, left, down, ready, watch>>

AppendMsg ==
  /\ OldiInSelect /\ toFdps # <<>>
  /\ queue' = Append(queue, Head(toFdps)) /\ toFdps' = Tail(toFdps)
  /\ UNCHANGED <<ups, channelHand, toPacket, workerUp, left, down, ready, watch>>

\* A mutant: the answer is cut after maxMsgToSend, the queue one further.
RecvMsqSkipping(p) ==
  /\ activity' = [activity EXCEPT ![p] = "recent"]
  /\ LET n == IF Len(queue) > MaxMsgToSend THEN MaxMsgToSend ELSE Len(queue) IN
     /\ left' = left \o SubSeq(queue, 1, n)
     /\ queue' = SubSeq(queue, n + (IF Len(queue) > MaxMsgToSend THEN 2 ELSE 1), Len(queue))
  /\ UNCHANGED <<ups, channelHand, toPacket, workerUp, toFdps, down, ready, state>>

\* A provider asks for messages: they leave the queue with the answer.
RecvMsq(p) ==
  /\ activity' = [activity EXCEPT ![p] = "recent"]
  /\ LET n == IF Len(queue) > MaxMsgToSend THEN MaxMsgToSend ELSE Len(queue) IN
     /\ left' = left \o SubSeq(queue, 1, n)
     /\ queue' = SubSeq(queue, n + 1, Len(queue))
  /\ UNCHANGED <<ups, channelHand, toPacket, workerUp, toFdps, down, ready, state>>

\* Every msgValidDur the expired messages at the head of the queue are removed.
\* That is all of them, however new: ChannelWork, which makes the messages, does
\* not set their time Rrtime, and a time that is not set reads as 1970.
CleanOldMsg ==
  /\ OldiInSelect
  /\ left' = left \o queue /\ queue' = <<>>
  /\ UNCHANGED <<ups, channelHand, toPacket, workerUp, toFdps, down, ready, watch>>

(***************************************************************************)
(* From the providers to the channels.                                     *)
(***************************************************************************)
\* A call of SendMsg with a list of messages.
SendMsg(c, p) ==
  /\ rest[c] = -1 /\ \E n \in 1..2 : rest' = [rest EXCEPT ![c] = n]
  /\ activity' = [activity EXCEPT ![p] = "recent"]
  /\ UNCHANGED <<up, downs, grpc, oldiHand, fromFdps, workerDown, fromPacket, handled, sent, ready, state>>

\* Its next message has no channel (an error for the answer), or is pushed.
SendNext(c) ==
  /\ rest[c] > 0 /\ rest' = [rest EXCEPT ![c] = @ - 1]
  /\ \/ UNCHANGED <<downs, grpc>>
     \/ /\ Room(grpc) /\ downs < MaxLocated
        /\ downs' = downs + 1 /\ grpc' = Append(grpc, downs')
  /\ UNCHANGED <<up, oldiHand, fromFdps, workerDown, fromPacket, handled, sent, ready, watch>>

OldiTakes ==
  /\ OldiInSelect /\ grpc # <<>>
  /\ oldiHand' = Head(grpc) /\ grpc' = Tail(grpc)
  /\ UNCHANGED <<up, rest, downs, fromFdps, workerDown, fromPacket, handled, sent, ready, watch>>

OldiPushes ==
  /\ oldiHand # 0 /\ Room(fromFdps)
  /\ fromFdps' = Append(fromFdps, oldiHand) /\ oldiHand' = 0
  /\ UNCHANGED <<up, rest, downs, grpc, workerDown, fromPacket, handled, sent, ready, watch>>

WorkerTakesDown ==
  /\ WorkerInSelect /\ fromFdps # <<>>
  /\ workerDown' = Head(fromFdps) /\ fromFdps' = Tail(fromFdps)
  /\ UNCHANGED <<up, rest, downs, grpc, oldiHand, fromPacket, handled, sent, ready, watch>>

\* A mutant: a message that does not fit is dropped.
WorkerPushesDownOrDrops ==
  /\ workerDown # 0
  /\ fromPacket' = (IF Room(fromPacket) THEN Append(fromPacket, workerDown) ELSE fromPacket)
  /\ workerDown' = 0
  /\ UNCHANGED <<up, rest, downs, grpc, oldiHand, fromFdps, handled, sent, ready, watch>>

WorkerPushesDown ==
  /\ workerDown # 0 /\ Room(fromPacket)
  /\ fromPacket' = Append(fromPacket, workerDown) /\ workerDown' = 0
  /\ UNCHANGED <<up, rest, downs, grpc, oldiHand, fromFdps, handled, sent, ready, watch>>

\* It is sent if the channel is ready (and then has a socket: the heartbeat
\* that says so brings one), and forgotten otherwise.
ProcessOldiPacket ==
  /\ InSelect /\ fromPacket # <<>>
  /\ fromPacket' = Tail(fromPacket) /\ handled' = Append(handled, Head(fromPacket))
  /\ sent' = IF ready THEN sent \cup {Head(fromPacket)} ELSE sent
  /\ UNCHANGED <<up, rest, downs, grpc, oldiHand, fromFdps, workerDown, ready, watch>>

(***************************************************************************)
(* The states of the channel and of the providers.                         *)
(***************************************************************************)
\* A heartbeat of the channel, or a state made anew.
NewChannelState ==
  /\ InSelect /\ ready' \in BOOLEAN
  /\ UNCHANGED <<up, down, watch>>

\* providerValidDur passes without a call of this provider.
Forgotten(p) ==
  /\ activity[p] = "recent" /\ activity' = [activity EXCEPT ![p] = "old"]
  /\ UNCHANGED <<up, down, ready, state>>

\* A mutant: who has called once is active for ever.
ActiveProvidersEver == {p \in Providers : activity[p] # "never"}

ActiveProviders == {p \in Providers : activity[p] = "recent"}

CheckState ==
  /\ OldiInSelect
  /\ state' = [p \in Providers |-> IF p \in ActiveProviders THEN "ok" ELSE "error"]
  /\ UNCHANGED <<up, down, ready, activity>>

Next ==
  \/ ChannelMessage \/ PushPacket \/ WorkerTakesUp \/ WorkerPushesUp \/ AppendMsg \/ CleanOldMsg
  \/ OldiTakes \/ OldiPushes \/ WorkerTakesDown \/ WorkerPushesDown \/ ProcessOldiPacket
  \/ NewChannelState \/ CheckState
  \/ \E p \in Providers : RecvMsq(p) \/ Forgotten(p) \/ \E c \in Calls : SendMsg(c, p)
  \/ \E c \in Calls : SendNext(c)

Spec == Init /\ [][Next]_vars

\* The goroutines and the tickers go on; nothing is assumed of the channels
\* and the providers, nor that a provider's time passes.
FairSpec ==
  /\ Spec
  /\ WF_vars(PushPacket) /\ WF_vars(WorkerTakesUp) /\ WF_vars(WorkerPushesUp) /\ WF_vars(AppendMsg)
  /\ WF_vars(OldiTakes) /\ WF_vars(OldiPushes) /\ WF_vars(WorkerTakesDown)
  /\ WF_vars(WorkerPushesDown) /\ WF_vars(ProcessOldiPacket)
  /\ WF_vars(CheckState)

(***************************************************************************)
(* Properties.                                                             *)
(***************************************************************************)
InHand(m) == IF m = 0 THEN <<>> ELSE <<m>>
Numbers(n) == [i \in 1..n |-> i]

\* No message is lost, doubled or overtaken on the way from the channels to
\* the providers: those that left the queue, the queue, and what the channels
\* and hands hold are together all the messages, in order.
UpAccounted ==
  left \o queue \o toFdps \o InHand(workerUp) \o toPacket \o InHand(channelHand) = Numbers(ups)

\* The same from the providers to the channels.
DownAccounted ==
  handled \o fromPacket \o InHand(workerDown) \o fromFdps \o InHand(oldiHand) \o grpc = Numbers(downs)

\* Each of the two ways is a queue of limited length (MessagePath): of the way
\* up this is all between the channel's WebSocket and the queue of the providers,
\* of the way down all between SendMsg and ProcessOldiPacket.
WayUp   == toFdps \o InHand(workerUp) \o toPacket \o InHand(channelHand)
WayDown == fromPacket \o InHand(workerDown) \o fromFdps \o InHand(oldiHand) \o grpc

Up   == INSTANCE MessagePath WITH Limit <- 2 * Cap + 2, entered <- ups, way <- WayUp, out <- left \o queue
Down == INSTANCE MessagePath WITH Limit <- 3 * Cap + 2, entered <- downs, way <- WayDown, out <- handled

\* Nothing the goroutines do to a message between its entry and its exit can be
\* told from outside, and no way ever takes more than its channels and hands.
PathsSpec == Up!Spec /\ Down!Spec

\* Two goroutines wait for each other: each has a message for a channel that
\* is full and that only the other one empties.
ChannelJam == channelHand # 0 /\ ~Room(toPacket) /\ workerDown # 0 /\ ~Room(fromPacket)
OldiJam    == workerUp # 0 /\ ~Room(toFdps) /\ oldiHand # 0 /\ ~Room(fromFdps)
Jam        == ChannelJam \/ OldiJam

\* A message of a channel reaches the providers' queue; the circular waits are
\* the only thing that can keep it from there.
UpReachesQueue ==
  \A n \in 1..MaxUp :
    ups >= n ~> (Jam \/ \E i \in 1..Len(left \o queue) : (left \o queue)[i] = n)

\* A message of a provider is sent to a channel that stays ready, with the
\* same exception.
DownReachesChannel ==
  \A n \in 1..MaxLocated : (downs >= n /\ Len(handled) < n) ~> (Jam \/ ~ready \/ n \in sent)

\* A provider that no longer calls is reported as an error.
SilentProviderReported ==
  \A p \in Providers :
    activity[p] = "old" ~> (Jam \/ activity[p] # "old" \/ state[p] = "error")
=============================================================================
