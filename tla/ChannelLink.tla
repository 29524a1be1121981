----------------------------- MODULE ChannelLink -----------------------------
(***************************************************************************)
(* One fmtp_channel process and the chief at the other end of its web      *)
(* socket.  The process has three goroutines with a select each:           *)
(*   - main (channel/fmtp_channel.go);                                     *)
(*   - the chief client (chief_channel/chief_channel_client.go);           *)
(*   - the StateController, once the settings have come.                   *)
(* A handler is the list of pushes it makes, one after another; a full     *)
(* channel blocks it, and its goroutine takes nothing else until then.     *)
(*                                                                         *)
(* The web sockets are external: a connection that breaks loses what is on *)
(* its way, the client's library tries again and reports every failure.    *)
(* The chief's table wsClients holds the socket it last learnt.            *)
(***************************************************************************)
EXTENDS Integers, Sequences

CONSTANTS
  SendCap,     \* capacity of SendChan (1024 in the code)
  Cap,         \* capacity of the other channels (1024; LogChan and LogMessageChan 100)
  MaxFaults    \* bound: connections that break, restarts of the chief included

ASSUME LinkAssumption ==
  SendCap \in Nat \ {0} /\ Cap \in Nat \ {0} /\ MaxFaults \in Nat

VARIABLES
  conn, conns,     \* the open connection, 0 if none; connections made so far
  report,          \* what the library waits to push into StateChan
  clientTodo,      \* the pushes that the chief client has still to make
  requested,       \* sendSettingsRequest
  disconnTime,     \* "zero", or less or more than a minute ago
  mainTodo, ended, \* likewise of main; main has returned FailToConnect
  works, ctlTodo,  \* calls of StateController.Work; its pushes
  chans,           \* the buffered channels of the process
  toChief,         \* messages on their way to the chief, with their connection
  toChannel,       \* messages on their way to the channel
  sock,            \* wsClients[id]: a connection, 0 if there is no entry
  breaks, restarts,\* counters that bound the model
  traffic          \* bound: there is user traffic, and then the connection stays

net     == <<conn, conns, report, toChief, toChannel, sock, breaks, restarts, traffic>>
client  == <<clientTodo, requested, disconnTime>>
vars    == <<net, client, mainTodo, ended, works, ctlTodo, chans>>

\* OutChan stands for LogMessageChan and FmtpDataReceiveChan, which main serves alike.
Channels == {"SendChan", "ReceiveChan", "LogChan", "OutChan", "FmtpDataSendChan"}

CapOf(c) == IF c = "SendChan" THEN SendCap ELSE Cap

\* Messages: "request" and "heartbeat" to the chief, "other" those of the journal
\* and of the peer; "settings", "bad_settings" and "data" from the chief.
Push(chan, m) == [chan |-> chan, m |-> m]
Log(chan) == <<Push(chan, "other")>>

Init ==
  /\ conn = 0 /\ conns = 0 /\ report = "none" /\ toChief = <<>> /\ toChannel = <<>> /\ sock = 0
  /\ breaks = 0 /\ restarts = 0 /\ traffic \in BOOLEAN
  /\ clientTodo = <<>> /\ requested = FALSE /\ disconnTime = "zero"
  /\ mainTodo = <<>> /\ ended = FALSE /\ works = 0 /\ ctlTodo = <<>>
  /\ chans = [c \in Channels |-> <<>>]

(***************************************************************************)
(* The web socket library.                                                 *)
(***************************************************************************)
Connect ==
  /\ conn = 0 /\ report = "none" /\ conns <= breaks + restarts
  /\ conn' = conns + 1 /\ conns' = conns + 1 /\ report' = "connected"
  /\ UNCHANGED <<toChief, toChannel, sock, breaks, restarts, traffic, client, mainTodo, ended, works, ctlTodo, chans>>

ConnectFails ==
  /\ conn = 0 /\ report = "none" /\ ~traffic /\ report' = "disconnected"
  /\ UNCHANGED <<conn, conns, toChief, toChannel, sock, breaks, restarts, traffic, client, mainTodo, ended, works, ctlTodo, chans>>

Break ==
  /\ conn # 0 /\ report = "none" /\ breaks + restarts < MaxFaults /\ ~traffic
  /\ breaks' = breaks + 1 /\ conn' = 0 /\ report' = "disconnected" /\ toChannel' = <<>>
  /\ \E n \in 0..Len(toChief) : toChief' = SubSeq(toChief, 1, n)
  /\ UNCHANGED <<conns, sock, restarts, traffic, client, mainTodo, ended, works, ctlTodo, chans>>

ChiefRestart ==
  /\ conn # 0 /\ report = "none" /\ breaks + restarts < MaxFaults /\ ~traffic
  /\ restarts' = restarts + 1 /\ conn' = 0 /\ report' = "disconnected"
  /\ toChannel' = <<>> /\ toChief' = <<>> /\ sock' = 0
  /\ UNCHANGED <<conns, breaks, traffic, client, mainTodo, ended, works, ctlTodo, chans>>

(***************************************************************************)
(* The chief client.                                                       *)
(***************************************************************************)
Startup == IF requested THEN <<>>
           ELSE Log("LogChan") \o Log("LogChan") \o <<Push("SendChan", "request")>>

Reported == report' = "none" /\ UNCHANGED <<conn, conns, toChief, toChannel, sock, breaks, restarts, traffic>>

\* A mutant: the settings are asked for on every connection.
ConnectedAsking ==
  /\ clientTodo = <<>> /\ report = "connected" /\ Reported
  /\ disconnTime' = "zero" /\ UNCHANGED requested
  /\ clientTodo' = Startup \o Log("LogChan")
  /\ UNCHANGED <<mainTodo, ended, works, ctlTodo, chans>>

Connected ==
  /\ clientTodo = <<>> /\ report = "connected" /\ Reported
  /\ disconnTime' = "zero" /\ requested' = TRUE
  /\ clientTodo' = Startup \o Log("LogChan")
  /\ UNCHANGED <<mainTodo, ended, works, ctlTodo, chans>>

\* A mutant: every failure begins the minute anew.
DisconnectedAnew ==
  /\ clientTodo = <<>> /\ report = "disconnected" /\ Reported
  /\ disconnTime' = "fresh" /\ clientTodo' = Log("LogChan")
  /\ UNCHANGED <<requested, mainTodo, ended, works, ctlTodo, chans>>

\* The minute is looked at only here.
Disconnected ==
  /\ clientTodo = <<>> /\ report = "disconnected" /\ Reported
  /\ disconnTime' = IF disconnTime = "zero" THEN "fresh" ELSE disconnTime
  /\ clientTodo' = (IF disconnTime = "old" THEN <<Push("CloseChan", "other")>> ELSE <<>>) \o Log("LogChan")
  /\ UNCHANGED <<requested, mainTodo, ended, works, ctlTodo, chans>>

MinutePasses ==
  /\ disconnTime = "fresh" /\ disconnTime' = "old"
  /\ UNCHANGED <<net, clientTodo, requested, mainTodo, ended, works, ctlTodo, chans>>

\* The library takes a message at once, and drops it if there is no connection.
\* (What is no request or heartbeat changes nothing here at the chief.)
SentOn(m) ==
  \/ (conn = 0 \/ m = "other") /\ UNCHANGED toChief
  \/ conn # 0 /\ m # "other" /\ Len(toChief) < Cap /\ toChief' = Append(toChief, [m |-> m, from |-> conn])

ClientSend ==
  /\ clientTodo = <<>> /\ chans["SendChan"] # <<>>
  /\ SentOn(Head(chans["SendChan"]))
  /\ chans' = [chans EXCEPT !["SendChan"] = Tail(@)]
  /\ UNCHANGED <<conn, conns, report, toChannel, sock, breaks, restarts, traffic, client, mainTodo, ended, works, ctlTodo>>

ClientReceive ==
  /\ clientTodo = <<>> /\ toChannel # <<>>
  /\ clientTodo' = <<Push("ReceiveChan", Head(toChannel))>> /\ toChannel' = Tail(toChannel)
  /\ UNCHANGED <<conn, conns, report, toChief, sock, breaks, restarts, traffic, requested, disconnTime, mainTodo, ended,
                 works, ctlTodo, chans>>

(***************************************************************************)
(* main.                                                                   *)
(***************************************************************************)
\* Settings that do not pass CheckSettings only make an entry of the journal.
MainPushes(m) ==
  CASE m = "settings"     -> Log("SendChan") \o <<Push("Work", m)>>
    [] m = "bad_settings" -> Log("SendChan")
    [] m = "data"         -> <<Push("FmtpDataSendChan", m)>>
    [] OTHER              -> <<Push("SendChan", m)>>

\* What main reads with a buffer.
Cases == Channels \ {"SendChan", "FmtpDataSendChan"}

MainTake(c) ==
  /\ mainTodo = <<>> /\ chans[c] # <<>>
  /\ mainTodo' = MainPushes(Head(chans[c]))
  /\ chans' = [chans EXCEPT ![c] = Tail(@)]
  /\ UNCHANGED <<net, client, ended, works, ctlTodo>>

(***************************************************************************)
(* The StateController: what it pushes for a message of the chief, for one *)
(* of the peer, and on a tick.                                             *)
(***************************************************************************)
CtlSend ==
  /\ works > 0 /\ ctlTodo = <<>> /\ chans["FmtpDataSendChan"] # <<>>
  /\ chans' = [chans EXCEPT !["FmtpDataSendChan"] = Tail(@)]
  /\ ctlTodo' = Log("OutChan")
  /\ UNCHANGED <<net, client, mainTodo, ended, works>>

\* A message, an event of a timer or of the transport: journal, and perhaps data.
CtlReceive ==
  /\ works > 0 /\ ctlTodo = <<>> /\ traffic /\ ctlTodo' = Log("OutChan")
  /\ UNCHANGED <<net, client, mainTodo, ended, works, chans>>

\* (Bound: one heartbeat in SendChan.)
CtlTick ==
  /\ works > 0 /\ ctlTodo = <<>> /\ ctlTodo' = <<Push("FmtpStateChan", "heartbeat")>>
  /\ \A i \in DOMAIN chans["SendChan"] : chans["SendChan"][i] # "heartbeat"
  /\ UNCHANGED <<net, client, mainTodo, ended, works, chans>>

(***************************************************************************)
(* The pushes.  Each moves the head of one goroutine's list.               *)
(***************************************************************************)
Buffered(todo) ==
  /\ todo # <<>> /\ Head(todo).chan \in Channels /\ Len(chans[Head(todo).chan]) < CapOf(Head(todo).chan)
  /\ chans' = [chans EXCEPT ![Head(todo).chan] = Append(@, Head(todo).m)]

ClientPush ==
  /\ Buffered(clientTodo) /\ clientTodo' = Tail(clientTodo)
  /\ UNCHANGED <<net, requested, disconnTime, mainTodo, ended, works, ctlTodo>>

MainPush ==
  /\ Buffered(mainTodo) /\ mainTodo' = Tail(mainTodo)
  /\ UNCHANGED <<net, client, ended, works, ctlTodo>>

CtlPush ==
  /\ Buffered(ctlTodo) /\ ctlTodo' = Tail(ctlTodo)
  /\ UNCHANGED <<net, client, mainTodo, ended, works>>

\* FmtpStateChan has no buffer: main takes the state, and turns it into a heartbeat.
StatePush ==
  /\ ctlTodo # <<>> /\ Head(ctlTodo).chan = "FmtpStateChan" /\ mainTodo = <<>>
  /\ mainTodo' = <<Push("SendChan", Head(ctlTodo).m)>> /\ ctlTodo' = Tail(ctlTodo)
  /\ UNCHANGED <<net, client, ended, works, chans>>

\* CloseChan neither: main returns.
ClosePush ==
  /\ clientTodo # <<>> /\ Head(clientTodo).chan = "CloseChan" /\ mainTodo = <<>>
  /\ ended' = TRUE
  /\ UNCHANGED <<net, client, mainTodo, works, ctlTodo, chans>>

\* A mutant: Work is called by main itself, and never returns.
StartWorkInline ==
  /\ mainTodo # <<>> /\ Head(mainTodo).chan = "Work"
  /\ works' = works + 1 /\ mainTodo' = <<Push("Return", "other")>>
  /\ UNCHANGED <<net, client, ended, ctlTodo, chans>>

\* go fmtpStateCntrl.Work
StartWork ==
  /\ mainTodo # <<>> /\ Head(mainTodo).chan = "Work"
  /\ works' = works + 1 /\ mainTodo' = Tail(mainTodo)
  /\ UNCHANGED <<net, client, ended, ctlTodo, chans>>

(***************************************************************************)
(* The chief.                                                              *)
(***************************************************************************)
\* A write to a connection that is gone is lost.
SendTo(k, m) ==
  \/ k = conn /\ Len(toChannel) < Cap /\ toChannel' = Append(toChannel, m)
  \/ k # conn /\ UNCHANGED toChannel

\* A mutant: a heartbeat registers no socket.
HeartbeatIgnored(k) == sock' = sock

\* Only an entry that is missing is made.
Heartbeat(k) == sock' = IF sock = 0 THEN k ELSE sock

ChiefTake ==
  /\ toChief # <<>> /\ toChief' = Tail(toChief)
  /\ LET m == Head(toChief).m  k == Head(toChief).from IN
     \/ m = "request" /\ sock' = k /\ \E answer \in {"settings", "bad_settings"} : SendTo(k, answer)
     \/ m = "heartbeat" /\ Heartbeat(k) /\ UNCHANGED toChannel
  /\ UNCHANGED <<conn, conns, report, breaks, restarts, traffic, client, mainTodo, ended, works, ctlTodo, chans>>

ChiefSend ==
  /\ sock # 0 /\ traffic /\ SendTo(sock, "data")
  /\ UNCHANGED <<conn, conns, report, toChief, sock, breaks, restarts, traffic, client, mainTodo, ended, works, ctlTodo, chans>>

\* The waits that nobody ends: main pushes at the full SendChan while the client,
\* its only reader, pushes at a full channel that main reads or waits to tell it
\* the end; the client pushes at the full SendChan itself; main pushes at the
\* full channel of a controller that does not run yet, or that pushes at main.
Blocked(todo, chan) == todo # <<>> /\ Head(todo).chan = chan /\ (chan \in Channels => Len(chans[chan]) = CapOf(chan))
ClientJam ==
  \/ Blocked(clientTodo, "SendChan")
  \/ Blocked(mainTodo, "SendChan") /\ \E c \in {"LogChan", "ReceiveChan", "CloseChan"} : Blocked(clientTodo, c)
CtlJam ==
  /\ Blocked(mainTodo, "FmtpDataSendChan")
  /\ works = 0 \/ \E c \in {"OutChan", "FmtpStateChan"} : Blocked(ctlTodo, c)
Jam == ClientJam \/ CtlJam

Next ==
  /\ ~ended /\ ~Jam
  /\ \/ Connect \/ ConnectFails \/ Break \/ ChiefRestart
     \/ Connected \/ Disconnected \/ MinutePasses \/ ClientSend \/ ClientReceive
     \/ \E c \in Cases : MainTake(c)
     \/ CtlSend \/ CtlReceive \/ CtlTick
     \/ ClientPush \/ MainPush \/ CtlPush \/ StatePush \/ ClosePush \/ StartWork
     \/ ChiefTake \/ ChiefSend

Spec == Init /\ [][Next]_vars

(***************************************************************************)
(* Fairness.  Goroutines go on, the library reports and retries, the chief *)
(* reads.  A case of a select that is ready again and again is taken: of   *)
(* the cases of one select this is said of those that an endless stream at *)
(* another case could keep waiting.                                        *)
(***************************************************************************)
FairSpec ==
  /\ Spec
  /\ WF_vars(ConnectFails) /\ WF_vars(MinutePasses) /\ WF_vars(ChiefTake)
  /\ WF_vars(ClientPush) /\ WF_vars(MainPush \/ StartWork) /\ WF_vars(CtlPush) /\ WF_vars(CtlTick)
  /\ WF_vars(StatePush \/ \E c \in Cases : MainTake(c))
  /\ SF_vars(MainTake("LogChan")) /\ SF_vars(ClosePush)
  /\ SF_vars(Connected \/ Disconnected) /\ SF_vars(ClientSend) /\ SF_vars(CtlSend)

(***************************************************************************)
(* Properties.                                                             *)
(***************************************************************************)
\* However often the connection comes back, Work of the one StateController is
\* started once at most (its fields serve one goroutine).
OneController == works <= 1

\* main comes back to its select unless it has run into one of these waits.
MainMoves == mainTodo # <<>> ~> (mainTodo = <<>> \/ Jam \/ ended)

\* A channel that lives through a restart of the chief is registered again with
\* its new connection; only the entry of a connection that broke under a running
\* chief stays for ever.
Registered ==
  (works > 0 /\ conn # 0) ~> (sock = conn \/ conn = 0 \/ (breaks > 0 /\ sock # 0) \/ Jam \/ ended)

\* A channel that finds no chief ends, changelog.txt:13.
SilentEnds == (conn = 0 /\ ~traffic) ~> (conn # 0 \/ Jam \/ ended)
=============================================================================
