----------------------- MODULE FmtpAssociation_proofs -----------------------
(***************************************************************************)
(* Theorems about FmtpAssociation, for every value of its bounds.          *)
(***************************************************************************)
EXTENDS FmtpAssociation, SequenceTheorems, TLAPS

(***************************************************************************)
(* The table of fmtp_state_machine.go.                                     *)
(***************************************************************************)
\* No event is listed under two targets of one state, so that the random
\* order in which GetNextState ranges over the Go map does not matter.
THEOREM TableDeterministic ==
  \A role \in Roles, s \in States, ev \in Events :
    \A t1, t2 \in NextStates(role, s, ev) : t1 = t2
  <1> SUFFICES ASSUME NEW role \in Roles, NEW s \in States, NEW ev \in Events,
                      NEW t1 \in States, NEW t2 \in States,
                      Edge(role, s, ev, t1), Edge(role, s, ev, t2)
               PROVE  t1 = t2
    BY DEF NextStates
  <1>1. CASE s \in {Ready, AssPending, DataReady}
    BY <1>1 DEF Edge, ClientEdge, ServerEdge, CommonEdge, Disconnects, Roles, Client, Server,
         Idle, ConPending, SysIdPending, IdPending, Ready, AssPending, DataReady
  <1>2. CASE s \in {Idle, ConPending, SysIdPending, IdPending}
    BY <1>2 DEF Edge, ClientEdge, ServerEdge, CommonEdge, Disconnects, Roles, Client, Server,
         Idle, ConPending, SysIdPending, IdPending, Ready, AssPending, DataReady
  <1> QED
    BY <1>1, <1>2 DEF States

\* Only the server waits for an identification before sending its own, and
\* only the client passes through CONNECTION_PENDING.
LEMMA RoleOfStates ==
  ASSUME NEW role \in Roles, NEW s \in States, NEW ev, NEW t \in NextStates(role, s, ev)
  PROVE  /\ t \in States
         /\ t = SysIdPending => role = Server
         /\ t = ConPending => role = Client
  BY DEF NextStates, Edge, ClientEdge, ServerEdge, CommonEdge, Roles, Client, Server,
         Idle, ConPending, SysIdPending, IdPending, Ready, AssPending, DataReady, States

\* The steps into the states that presuppose something of the peer.
LEMMA KeySteps ==
  ASSUME NEW role \in Roles, NEW s \in States, NEW ev, NEW t \in NextStates(role, s, ev)
  PROVE  /\ t = IdPending /\ role = Server => s = SysIdPending /\ ev = "RIdValid"
         /\ t \in Associated /\ s \notin Associated =>
              /\ t = Ready /\ s = IdPending
              /\ role = Client => ev = "RIdValid"
              /\ role = Server => ev = "RAccept"
         /\ t = DataReady /\ s # DataReady => s = AssPending /\ ev = "RStartup"
  BY DEF NextStates, Edge, ClientEdge, ServerEdge, CommonEdge, Roles, Client, Server, Associated,
         Idle, ConPending, SysIdPending, IdPending, Ready, AssPending, DataReady, States, Disconnects

LEMMA AcceptStep ==
  ASSUME NEW role \in Roles, NEW s \in States, NEW ev, NEW t \in NextStates(role, s, ev),
         s = IdPending, ev = "RIdValid"
  PROVE  role = Client /\ t = Ready
  BY DEF NextStates, Edge, ClientEdge, ServerEdge, CommonEdge, Roles, Client, Server,
         Idle, ConPending, SysIdPending, IdPending, Ready, AssPending, DataReady, States, Disconnects

(***************************************************************************)
(* The inductive invariant.  A packet, wherever it is, stands for what its *)
(* sender had established when it queued the packet: only a server that    *)
(* expects the client answers with its identification, only a client that  *)
(* completed identification sends ACCEPT, only an endpoint that completed  *)
(* identification sends STARTUP.  Queues may hold packets of several       *)
(* connections, so nothing is said of the current state of the sender.     *)
(***************************************************************************)
Good(e) ==
  {p \in Packet :
     /\ p.kind = "ident" /\ e = Server => Server \in trusts
     /\ p.kind = "accept" => e = Client /\ trusts = Roles /\ Client \in met
     /\ p.kind = "startup" => e \in met}

QueuesGood ==
  \A e \in Roles : toSend[e] \in Seq(Good(e)) /\ inbox[e] \in Seq(Good(Peer(e)))

StatesGood ==
  /\ state[Client] # SysIdPending /\ state[Server] # ConPending
  /\ state[Server] \in {IdPending} \cup Associated => Server \in trusts
  /\ \A e \in Roles : state[e] \in Associated => e \in met

IInv == TypeOK /\ QueuesGood /\ StatesGood /\ MutualRecognition

(* What an event presupposes of the state in which it is handled.          *)
EventGood(e, ev) ==
  /\ ev = "RIdValid" => e \in trusts /\ (e = Client => Server \in trusts)
  /\ ev = "RAccept"  => e = Server /\ trusts = Roles /\ Client \in met
  /\ ev = "RStartup" => Peer(e) \in met

LEMMA SeqSteps ==
  ASSUME NEW S, NEW s \in Seq(S)
  PROVE  /\ <<>> \in Seq(S)
         /\ \A x \in S : Append(s, x) \in Seq(S) /\ <<x>> \in Seq(S)
         /\ \A t \in Seq(S) : s \o t \in Seq(S)
         /\ s # <<>> => Head(s) \in S /\ Tail(s) \in Seq(S)
         /\ \A n \in 0..Len(s) : SubSeq(s, 1, n) \in Seq(S)
  <1>1. \A t \in Seq(S) : s \o t \in Seq(S)
    BY ConcatProperties
  <1>2. s # <<>> => Head(s) \in S /\ Tail(s) \in Seq(S)
    BY HeadTailProperties
  <1>3. ASSUME NEW n \in 0..Len(s) PROVE SubSeq(s, 1, n) \in Seq(S)
    <2>1. \A i \in 1..n : s[i] \in S
      BY ElementOfSeq, LenProperties
    <2> QED
      BY <2>1, SubSeqProperties
  <1> QED
    BY <1>1, <1>2, <1>3

LEMMA Singleton ==
  ASSUME NEW S, NEW x \in S
  PROVE  <<x>> \in Seq(S)
  OBVIOUS

LEMMA PeerIsRole == \A e \in Roles : Peer(e) \in Roles /\ Peer(e) # e /\ Peer(Peer(e)) = e
  BY DEF Peer, Roles, Client, Server

LEMMA ControlPacket ==
  \A k \in Kinds, a \in AfterEvents : Control(k, a) \in Packet
  BY DEF Control, Packet

LEMMA ExitTimers ==
  ASSUME NEW e, NEW s, NEW ev
  PROVE  OnExit(e, s, ev).restart \subseteq Timers
  BY DEF OnExit, SysIdPendingExit, IdPendingExit, ReadyExit, AssPendingExit, DataReadyExit,
         NoEffect, Effect, Timers

LEMMA EnterTimers ==
  ASSUME NEW t
  PROVE  OnEnter(t).restart \subseteq Timers
  BY DEF OnEnter, NoEffect, Effect, Timers

\* What an exit function queues: nothing, or one packet of a known kind.
LEMMA ExitSends ==
  ASSUME NEW e \in Roles, NEW s \in States, NEW ev
  PROVE  \/ OnExit(e, s, ev).send = <<>>
         \/ /\ e = Server /\ s = SysIdPending /\ ev = "RIdValid"
            /\ OnExit(e, s, ev).send = <<Control("ident", None)>>
         \/ /\ s = IdPending /\ ev = "RIdValid"
            /\ OnExit(e, s, ev).send = <<Control("accept", None)>>
         \/ /\ s \in Associated
            /\ OnExit(e, s, ev).send = <<Control("startup", "LStartup")>>
         \/ \E k \in {"reject", "shutdown", "heartbeat"} :
              OnExit(e, s, ev).send = <<Control(k, None)>>
  <1>1. CASE s = SysIdPending
    BY <1>1 DEF OnExit, SysIdPendingExit, Effect, AssPending, IdPending, SysIdPending,
                Ready, DataReady
  <1>2. CASE s = IdPending
    BY <1>2 DEF OnExit, IdPendingExit, Effect, AssPending, IdPending, SysIdPending,
                Ready, DataReady
  <1>3. CASE s = AssPending
    BY <1>3 DEF OnExit, AssPendingExit, Effect, AssPending, IdPending, SysIdPending,
                Ready, DataReady, Associated
  <1>4. CASE s = DataReady
    BY <1>4 DEF OnExit, DataReadyExit, Effect, NoEffect, AssPending, IdPending, SysIdPending,
                Ready, DataReady
  <1>5. CASE s \in {Idle, ConPending, Ready}
    BY <1>5 DEF OnExit, ReadyExit, Effect, NoEffect, AssPending, IdPending, SysIdPending,
                Ready, DataReady, Idle, ConPending
  <1> QED
    BY <1>1, <1>2, <1>3, <1>4, <1>5 DEF States

LEMMA EnterSends ==
  ASSUME NEW t \in States
  PROVE  \/ OnEnter(t).send = <<>>
         \/ t = ConPending /\ OnEnter(t).send = <<Control("ident", "RSetup")>>
         \/ t = Ready /\ OnEnter(t).send = <<Control("startup", "LStartup")>>
  BY DEF OnEnter, NoEffect, Effect, States, Idle, ConPending, SysIdPending, IdPending, Ready

(***************************************************************************)
(* One transition of a controller.                                         *)
(***************************************************************************)
LEMMA TransitionGood ==
  ASSUME IInv, NEW e \in Roles, NEW ev \in Events, EventGood(e, ev),
         NEW t \in NextStates(e, state[e], ev), Transition(e, ev, t), trusts' = trusts
  PROVE  /\ state' \in [Roles -> States]
         /\ armed' \in [Roles -> SUBSET Timers]
         /\ met' \subseteq Roles /\ met \subseteq met'
         /\ toSend' \in [Roles -> Seq(Packet)]
         /\ \A f \in Roles : toSend'[f] \in Seq(Good(f)')
         /\ StatesGood'
         /\ MutualRecognition'
  <1> DEFINE s == state[e]
             out == OnExit(e, s, ev).send
             in  == OnEnter(t).send
  <1>1. s \in States /\ state \in [Roles -> States] /\ e \in Roles
    BY DEF IInv, TypeOK
  <1>2. t \in States /\ (t = SysIdPending => e = Server) /\ (t = ConPending => e = Client)
    BY <1>1, RoleOfStates
  <1>3. /\ t = IdPending /\ e = Server => s = SysIdPending /\ ev = "RIdValid"
        /\ t \in Associated /\ s \notin Associated =>
             /\ t = Ready /\ s = IdPending
             /\ e = Client => ev = "RIdValid"
             /\ e = Server => ev = "RAccept"
        /\ t = DataReady /\ s # DataReady => s = AssPending /\ ev = "RStartup"
    BY <1>1, KeySteps
  <1>4. state' = [state EXCEPT ![e] = t] /\ met' = (IF t = Ready THEN met \cup {e} ELSE met)
    BY DEF Transition
  <1>5. met \subseteq Roles /\ met' \subseteq Roles /\ met \subseteq met'
    BY <1>4 DEF IInv, TypeOK
  <1>6. armed' \in [Roles -> SUBSET Timers]
    BY ExitTimers, EnterTimers DEF Transition, IInv, TypeOK
  <1>7. state' \in [Roles -> States] /\ state'[e] = t
          /\ \A f \in Roles \ {e} : state'[f] = state[f]
    BY <1>1, <1>2, <1>4
  <1>8. StatesGood'
    BY <1>2, <1>3, <1>4, <1>5, <1>7 DEF IInv, StatesGood, MutualRecognition, EventGood, Roles,
         Associated, Client, Server, Ready, AssPending, DataReady, IdPending, SysIdPending, ConPending
  <1>9. MutualRecognition'
    <2>1. state'[Server] \in Associated => Client \in met'
      BY <1>3, <1>5, <1>7 DEF IInv, MutualRecognition, EventGood, Roles, Client, Server
    <2>2. \A f \in Roles : state'[f] \in Associated => trusts = Roles
      <3>1. s \notin Associated /\ t \in Associated => trusts = Roles
        <4>1. CASE e = Client
          BY <1>3, <4>1 DEF EventGood, Roles, IInv, TypeOK, Client, Server
        <4>2. CASE e = Server
          BY <1>3, <4>2 DEF EventGood
        <4> QED
          BY <4>1, <4>2 DEF Roles
      <3> QED
        BY <3>1, <1>7 DEF IInv, MutualRecognition
    <2>3. \A f \in Roles : state'[f] = DataReady => Peer(f) \in met'
      BY <1>3, <1>5, <1>7 DEF IInv, MutualRecognition, EventGood
    <2> QED
      BY <2>1, <2>2, <2>3 DEF MutualRecognition
  <1>10. Good(e) \subseteq Good(e)' /\ \A f \in Roles : Good(f) \subseteq Good(f)'
    BY <1>5 DEF Good
  <1>11. out \in Seq(Good(e)')
    <2>1. CASE out = <<>>
      BY <2>1
    <2>2. CASE e = Server /\ s = SysIdPending /\ ev = "RIdValid" /\ out = <<Control("ident", None)>>
      <3>1. Control("ident", None) \in Good(e)'
        BY <2>2, ControlPacket DEF Good, EventGood, Kinds, AfterEvents, Control, Client, Server
      <3> QED
        BY <2>2, <3>1, Singleton
    <2>3. CASE s = IdPending /\ ev = "RIdValid" /\ out = <<Control("accept", None)>>
      <3>1. e = Client /\ t = Ready
        BY <2>3, <1>1, AcceptStep
      <3>2. trusts = Roles
        BY <2>3, <3>1 DEF EventGood, Roles, IInv, TypeOK, Client, Server
      <3>3. Control("accept", None) \in Good(e)'
        BY <3>1, <3>2, <1>4, ControlPacket DEF Good, Kinds, AfterEvents, Control, Client
      <3> QED
        BY <2>3, <3>3, Singleton
    <2>4. CASE s \in Associated /\ out = <<Control("startup", "LStartup")>>
      <3>1. Control("startup", "LStartup") \in Good(e)'
        BY <2>4, <1>5, ControlPacket
           DEF Good, Kinds, AfterEvents, Control, IInv, StatesGood
      <3> QED
        BY <2>4, <3>1, Singleton
    <2>5. ASSUME NEW k \in {"reject", "shutdown", "heartbeat"}, out = <<Control(k, None)>>
          PROVE  out \in Seq(Good(e)')
      <3>1. Control(k, None) \in Good(e)'
        BY ControlPacket DEF Good, Kinds, AfterEvents, Control
      <3> QED
        BY <2>5, <3>1, Singleton
    <2> QED
      BY <1>1, <2>1, <2>2, <2>3, <2>4, <2>5, ExitSends
  <1>12. in \in Seq(Good(e)')
    <2>1. CASE in = <<>>
      BY <2>1
    <2>2. CASE t = ConPending /\ in = <<Control("ident", "RSetup")>>
      <3>1. Control("ident", "RSetup") \in Good(e)'
        BY <2>2, <1>2, ControlPacket
           DEF Good, Kinds, AfterEvents, Control, Client, Server
      <3> QED
        BY <2>2, <3>1, Singleton
    <2>3. CASE t = Ready /\ in = <<Control("startup", "LStartup")>>
      <3>1. Control("startup", "LStartup") \in Good(e)'
        BY <2>3, <1>4, ControlPacket DEF Good, Kinds, AfterEvents, Control
      <3> QED
        BY <2>3, <3>1, Singleton
    <2> QED
      BY <1>2, <2>1, <2>2, <2>3, EnterSends
  <1>13. toSend'[e] \in Seq(Good(e)') /\ \A f \in Roles \ {e} : toSend'[f] = toSend[f]
    <2>1. toSend' = [toSend EXCEPT ![e] = @ \o out \o in]
      BY DEF Transition
    <2>2. toSend[e] \in Seq(Good(e)')
      BY <1>10, SeqMonotonic DEF IInv, QueuesGood
    <2>3. (toSend[e] \o out) \o in \in Seq(Good(e)')
      BY <1>11, <1>12, <2>2, SeqSteps
    <2> QED
      BY <2>1, <2>3 DEF IInv, TypeOK
  <1>14. \A f \in Roles : toSend'[f] \in Seq(Good(f)')
    <2>1. \A f \in Roles : toSend[f] \in Seq(Good(f)')
      BY <1>10, SeqMonotonic DEF IInv, QueuesGood
    <2> QED
      BY <1>13, <2>1
  <1>15. toSend' \in [Roles -> Seq(Packet)]
    <2>1. \A f \in Roles : Good(f)' \subseteq Packet
      BY DEF Good
    <2>2. \A f \in Roles : toSend'[f] \in Seq(Packet)
      BY <1>14, <2>1, SeqMonotonic
    <2>3. toSend' = [toSend EXCEPT ![e] = @ \o out \o in]
      BY DEF Transition
    <2> QED
      BY <2>2, <2>3 DEF IInv, TypeOK
  <1> QED
    BY <1>5, <1>6, <1>7, <1>8, <1>9, <1>14, <1>15

LEMMA ForceGood ==
  ASSUME IInv, NEW e \in Roles, NEW ev \in Events, EventGood(e, ev),
         NEW r \in 0..MaxRedials, ForceNewEventWith(e, ev, r), trusts' = trusts
  PROVE  /\ state' \in [Roles -> States]
         /\ armed' \in [Roles -> SUBSET Timers]
         /\ redials' \in 0..MaxRedials
         /\ met' \subseteq Roles /\ met \subseteq met'
         /\ toSend' \in [Roles -> Seq(Packet)]
         /\ \A f \in Roles : toSend'[f] \in Seq(Good(f)')
         /\ StatesGood'
         /\ MutualRecognition'
  <1>1. CASE redials' = r /\ UNCHANGED <<state, toSend, armed, met>>
    <2>1. \A f \in Roles : Good(f)' = Good(f)
      BY <1>1 DEF Good
    <2> QED
      BY <1>1, <2>1 DEF IInv, TypeOK, QueuesGood, StatesGood, MutualRecognition
  <1>2. ASSUME NEW t \in NextStates(e, state[e], ev), Transition(e, ev, t),
               redials' = WithRedial(e, t, r)
        PROVE  /\ state' \in [Roles -> States]
               /\ armed' \in [Roles -> SUBSET Timers]
               /\ redials' \in 0..MaxRedials
               /\ met' \subseteq Roles /\ met \subseteq met'
               /\ toSend' \in [Roles -> Seq(Packet)]
               /\ \A f \in Roles : toSend'[f] \in Seq(Good(f)')
               /\ StatesGood'
               /\ MutualRecognition'
    <2>1. redials' \in 0..MaxRedials
      BY <1>2, BoundsAssumption DEF WithRedial
    <2> QED
      BY <1>2, <2>1, TransitionGood
  <1> QED
    BY <1>1, <1>2 DEF ForceNewEventWith

\* Packets already queued stay good: identification is never taken back.
LEMMA StillGood ==
  ASSUME IInv, trusts' = trusts, met \subseteq met'
  PROVE  \A e \in Roles : toSend[e] \in Seq(Good(e)') /\ inbox[e] \in Seq(Good(Peer(e))')
  <1>1. \A e \in Roles : Good(e) \subseteq Good(e)'
    BY DEF Good
  <1> QED
    BY <1>1, SeqMonotonic, PeerIsRole DEF IInv, QueuesGood

(***************************************************************************)
(* The invariant holds initially and is kept by every action.              *)
(***************************************************************************)
LEMMA InitGood == Init => IInv
  <1> SUFFICES ASSUME Init PROVE IInv
    OBVIOUS
  <1>1. TypeOK
    BY BoundsAssumption DEF Init, TypeOK, States, TpPhases, AfterEvents
  <1>2. QueuesGood
    BY PeerIsRole DEF Init, QueuesGood
  <1>3. StatesGood /\ MutualRecognition
    BY DEF Init, StatesGood, MutualRecognition, Roles, Associated, Client, Server, Idle,
           ConPending, SysIdPending, IdPending, Ready, AssPending, DataReady
  <1> QED
    BY <1>1, <1>2, <1>3 DEF IInv

LEMMA NextGood == IInv /\ [Next]_vars => IInv'
  <1> SUFFICES ASSUME IInv, [Next]_vars PROVE IInv'
    OBVIOUS
  <1> USE PeerIsRole
  <1>1. CASE Dial
    <2>1. "LSetup" \in Events /\ EventGood(Client, "LSetup") /\ Client \in Roles
      BY DEF Events, EventGood, Roles
    <2>2. redials - 1 \in 0..MaxRedials
      BY <1>1, BoundsAssumption DEF Dial, IInv, TypeOK
    <2>3. trusts' = trusts /\ inbox' = inbox /\ ForceNewEventWith(Client, "LSetup", redials - 1)
      BY <1>1 DEF Dial
    <2>4. TypeOK'
      BY <1>1, <2>1, <2>2, <2>3, ForceGood DEF Dial, IInv, TypeOK, TpPhases
    <2>5. QueuesGood'
      BY <2>1, <2>2, <2>3, ForceGood, StillGood DEF QueuesGood
    <2> QED
      BY <2>1, <2>2, <2>3, <2>4, <2>5, ForceGood DEF IInv
  <1>2. CASE Accept
    <2>1. "RSetup" \in Events /\ EventGood(Server, "RSetup") /\ Server \in Roles
      BY DEF Events, EventGood, Roles
    <2>2. redials \in 0..MaxRedials
      BY DEF IInv, TypeOK
    <2>3. trusts' = trusts /\ inbox' = inbox /\ ForceNewEventWith(Server, "RSetup", redials)
      BY <1>2 DEF Accept, ForceNewEvent
    <2>4. TypeOK'
      BY <1>2, <2>1, <2>2, <2>3, ForceGood DEF Accept, IInv, TypeOK, TpPhases
    <2>5. QueuesGood'
      BY <2>1, <2>2, <2>3, ForceGood, StillGood DEF QueuesGood
    <2> QED
      BY <2>1, <2>2, <2>3, <2>4, <2>5, ForceGood DEF IInv
  <1>3. CASE Break
    <2>1. PICK read \in [Roles -> 0..WireCap] :
            /\ \A e \in Roles : read[e] <= Len(inbox[e])
            /\ inbox' = [e \in Roles |-> SubSeq(inbox[e], 1, read[e])]
      BY <1>3 DEF Break
    <2>2. \A e \in Roles : Good(e)' = Good(e)
      BY <1>3 DEF Break, Good
    <2>3. ASSUME NEW e \in Roles
          PROVE  inbox'[e] \in Seq(Good(Peer(e))) /\ inbox'[e] \in Seq(Packet)
      <3>1. inbox[e] \in Seq(Good(Peer(e))) /\ inbox[e] \in Seq(Packet)
        BY DEF IInv, TypeOK, QueuesGood
      <3>2. read[e] \in 0..Len(inbox[e])
        BY <2>1, <3>1, BoundsAssumption
      <3> QED
        BY <2>1, <3>1, <3>2, SeqSteps
    <2>4. TypeOK'
      BY <1>3, <2>1, <2>3, BoundsAssumption DEF Break, IInv, TypeOK, TpPhases
    <2>5. QueuesGood'
      BY <1>3, <2>2, <2>3 DEF Break, IInv, QueuesGood
    <2>6. StatesGood' /\ MutualRecognition'
      BY <1>3 DEF Break, IInv, StatesGood, MutualRecognition
    <2> QED
      BY <2>4, <2>5, <2>6 DEF IInv
  <1>4. ASSUME NEW e \in Roles, BreakApart(e) PROVE IInv'
    <2>1. \A f \in Roles : Good(f)' = Good(f)
      BY <1>4 DEF BreakApart, Good
    <2>2. TypeOK'
      BY <1>4, BoundsAssumption DEF BreakApart, IInv, TypeOK, TpPhases
    <2> QED
      BY <1>4, <2>1, <2>2 DEF BreakApart, IInv, QueuesGood, StatesGood, MutualRecognition
  <1>5. ASSUME NEW e \in Roles, Down(e) PROVE IInv'
    <2>1. "RDisconnect" \in Events /\ EventGood(e, "RDisconnect")
      BY DEF Events, EventGood
    <2>2. redials \in 0..MaxRedials
      BY DEF IInv, TypeOK
    <2>3. trusts' = trusts /\ inbox' = inbox /\ ForceNewEventWith(e, "RDisconnect", redials)
      BY <1>5 DEF Down, ForceNewEvent
    <2>4. TypeOK'
      BY <1>5, <2>1, <2>2, <2>3, ForceGood DEF Down, IInv, TypeOK, TpPhases
    <2>5. QueuesGood'
      BY <2>1, <2>2, <2>3, ForceGood, StillGood DEF QueuesGood
    <2> QED
      BY <2>1, <2>2, <2>3, <2>4, <2>5, ForceGood DEF IInv
  <1>6. ASSUME NEW e \in Roles, Write(e) PROVE IInv'
    <2>1. /\ toSend[e] \in Seq(Good(e)) /\ toSend[e] \in Seq(Packet) /\ toSend[e] # <<>>
          /\ inbox[Peer(e)] \in Seq(Good(e)) /\ inbox[Peer(e)] \in Seq(Packet)
      BY <1>6 DEF Write, IInv, TypeOK, QueuesGood
    <2>2. Head(toSend[e]) \in Good(e) /\ Head(toSend[e]) \in Packet
      BY <2>1, SeqSteps
    <2>3. Tail(toSend[e]) \in Seq(Good(e)) /\ Tail(toSend[e]) \in Seq(Packet)
      BY <2>1, SeqSteps
    <2>4. /\ Append(inbox[Peer(e)], Head(toSend[e])) \in Seq(Good(e))
          /\ Append(inbox[Peer(e)], Head(toSend[e])) \in Seq(Packet)
      BY <2>1, <2>2, SeqSteps
    <2>5. \A f \in Roles : Good(f)' = Good(f)
      BY <1>6 DEF Write, Good
    <2>6. pending' \in [Roles -> AfterEvents]
      BY <1>6, <2>2 DEF Write, IInv, TypeOK, Packet
    <2>7. TypeOK'
      <3>1. toSend' \in [Roles -> Seq(Packet)]
        BY <1>6, <2>3 DEF Write, IInv, TypeOK
      <3>2. inbox' \in [Roles -> Seq(Packet)]
        BY <1>6, <2>4 DEF Write, IInv, TypeOK
      <3> QED
        BY <1>6, <2>6, <3>1, <3>2 DEF Write, IInv, TypeOK
    <2>8. QueuesGood'
      BY <1>6, <2>3, <2>4, <2>5 DEF Write, IInv, TypeOK, QueuesGood
    <2>9. StatesGood' /\ MutualRecognition'
      BY <1>6 DEF Write, IInv, StatesGood, MutualRecognition
    <2> QED
      BY <2>7, <2>8, <2>9 DEF IInv
  <1>7. ASSUME NEW e \in Roles, AfterSend(e) PROVE IInv'
    <2>1. pending[e] \in Events /\ EventGood(e, pending[e])
      BY <1>7 DEF AfterSend, IInv, TypeOK, AfterEvents, Events, EventGood
    <2>2. redials \in 0..MaxRedials
      BY DEF IInv, TypeOK
    <2>3. trusts' = trusts /\ inbox' = inbox /\ ForceNewEventWith(e, pending[e], redials)
      BY <1>7 DEF AfterSend, ForceNewEvent
    <2>4. TypeOK'
      BY <1>7, <2>1, <2>2, <2>3, ForceGood DEF AfterSend, IInv, TypeOK, AfterEvents
    <2>5. QueuesGood'
      BY <2>1, <2>2, <2>3, ForceGood, StillGood DEF QueuesGood
    <2> QED
      BY <2>1, <2>2, <2>3, <2>4, <2>5, ForceGood DEF IInv
  <1>8. ASSUME NEW e \in Roles, Receive(e) PROVE IInv'
    <2> DEFINE p == Head(inbox[e])
    <2>1. inbox[e] \in Seq(Good(Peer(e))) /\ inbox[e] \in Seq(Packet) /\ inbox[e] # <<>>
      BY <1>8 DEF Receive, IInv, TypeOK, QueuesGood
    <2>2. p \in Good(Peer(e)) /\ p \in Packet
      BY <2>1, SeqSteps
    <2>3. Tail(inbox[e]) \in Seq(Packet)
      BY <2>1, SeqSteps
    <2>4. RemoteEvent(e, p) \in Events /\ EventGood(e, RemoteEvent(e, p))
      <3>1. RemoteEvent(e, p) \in Events
        BY <2>2 DEF Packet, Kinds, RemoteEvent, Events
      <3>2. ASSUME RemoteEvent(e, p) = "RIdValid"
            PROVE  e \in trusts /\ (e = Client => Server \in trusts)
        <4>1. p.kind = "ident" /\ e \in trusts
          BY <2>2, <3>2 DEF Packet, Kinds, RemoteEvent
        <4> QED
          BY <2>2, <4>1 DEF Good, Peer
      <3>3. ASSUME RemoteEvent(e, p) = "RAccept"
            PROVE  e = Server /\ trusts = Roles /\ Client \in met
        <4>1. p.kind = "accept"
          BY <2>2, <3>3 DEF Packet, Kinds, RemoteEvent
        <4>2. Peer(e) = Client
          BY <2>2, <4>1 DEF Good
        <4> QED
          BY <2>2, <4>1, <4>2 DEF Good, Peer, Roles
      <3>4. ASSUME RemoteEvent(e, p) = "RStartup" PROVE Peer(e) \in met
        <4>1. p.kind = "startup"
          BY <2>2, <3>4 DEF Packet, Kinds, RemoteEvent
        <4> QED
          BY <2>2, <4>1 DEF Good
      <3> QED
        BY <3>1, <3>2, <3>3, <3>4 DEF EventGood
    <2>5. redials \in 0..MaxRedials
      BY DEF IInv, TypeOK
    <2>6. /\ trusts' = trusts /\ inbox' = [inbox EXCEPT ![e] = Tail(@)]
          /\ ForceNewEventWith(e, RemoteEvent(e, p), redials)
      BY <1>8 DEF Receive, ForceNewEvent
    <2>7. delivered' \in [Roles -> Seq(Nat)]
      BY <1>8, <2>2, SeqSteps DEF Receive, IInv, TypeOK, Packet
    <2>8. TypeOK'
      BY <1>8, <2>3, <2>4, <2>5, <2>6, <2>7, ForceGood DEF Receive, IInv, TypeOK
    <2>9. met \subseteq met' /\ \A f \in Roles : toSend'[f] \in Seq(Good(f)')
      BY <2>4, <2>5, <2>6, ForceGood
    <2>10. \A f \in Roles : inbox'[f] \in Seq(Good(Peer(f))')
      <3>1. \A f \in Roles : inbox[f] \in Seq(Good(Peer(f))')
        BY <2>6, <2>9, StillGood
      <3>2. Tail(inbox[e]) \in Seq(Good(Peer(e))')
        BY <2>1, <3>1, SeqSteps
      <3> QED
        BY <2>6, <3>1, <3>2 DEF IInv, TypeOK
    <2> QED
      BY <2>4, <2>5, <2>6, <2>8, <2>9, <2>10, ForceGood DEF IInv, QueuesGood
  <1>9. ASSUME NEW e \in Roles, ChiefData(e) PROVE IInv'
    <2> DEFINE p == [kind |-> "data", n |-> produced[e] + 1, after |-> "LData"]
    <2>1. p \in Packet /\ p \in Good(e)
      BY DEF Good, Packet, Kinds, AfterEvents, IInv, TypeOK
    <2>2. Append(toSend[e], p) \in Seq(Good(e)) /\ Append(toSend[e], p) \in Seq(Packet)
      BY <2>1, SeqSteps DEF IInv, TypeOK, QueuesGood
    <2>3. \A f \in Roles : Good(f)' = Good(f)
      BY <1>9 DEF ChiefData, Good
    <2>4. toSend' = [toSend EXCEPT ![e] = Append(@, p)]
      BY <1>9 DEF ChiefData
    <2>5. TypeOK'
      BY <1>9, <2>2, <2>4, BoundsAssumption DEF ChiefData, IInv, TypeOK
    <2>6. QueuesGood'
      BY <1>9, <2>2, <2>3, <2>4 DEF ChiefData, IInv, TypeOK, QueuesGood
    <2>7. StatesGood' /\ MutualRecognition'
      BY <1>9 DEF ChiefData, IInv, StatesGood, MutualRecognition
    <2> QED
      BY <2>5, <2>6, <2>7 DEF IInv
  <1>10. ASSUME NEW e \in Roles, NEW t \in Timers, Timeout(e, t) PROVE IInv'
    <2>1. TimeoutEvent[t] \in Events /\ EventGood(e, TimeoutEvent[t])
      BY DEF Timers, TimeoutEvent, Events, EventGood
    <2>2. redials \in 0..MaxRedials
      BY DEF IInv, TypeOK
    <2>3. trusts' = trusts /\ inbox' = inbox /\ ForceNewEventWith(e, TimeoutEvent[t], redials)
      BY <1>10 DEF Timeout, ForceNewEvent
    <2>4. TypeOK'
      BY <1>10, <2>1, <2>2, <2>3, ForceGood DEF Timeout, IInv, TypeOK
    <2>5. QueuesGood'
      BY <2>1, <2>2, <2>3, ForceGood, StillGood DEF QueuesGood
    <2> QED
      BY <2>1, <2>2, <2>3, <2>4, <2>5, ForceGood DEF IInv
  <1>11. ASSUME NEW e \in Roles, NEW t \in Timers, Expire(e, t) PROVE IInv'
    <2>1. \A f \in Roles : Good(f)' = Good(f)
      BY <1>11 DEF Expire, Good
    <2>2. TypeOK'
      BY <1>11, BoundsAssumption DEF Expire, IInv, TypeOK
    <2> QED
      BY <1>11, <2>1, <2>2 DEF Expire, IInv, QueuesGood, StatesGood, MutualRecognition
  <1>12. CASE UNCHANGED vars
    <2>1. \A f \in Roles : Good(f)' = Good(f)
      BY <1>12 DEF vars, Good
    <2> QED
      BY <1>12, <2>1 DEF vars, IInv, TypeOK, QueuesGood, StatesGood, MutualRecognition
  <1> QED
    BY <1>1, <1>2, <1>3, <1>4, <1>5, <1>6, <1>7, <1>8, <1>9, <1>10, <1>11, <1>12 DEF Next

THEOREM Invariance == Spec => []IInv
  BY InitGood, NextGood, PTL DEF Spec

\* The state of both endpoints is well typed.
THEOREM TypeCorrect == Spec => []TypeOK
  BY Invariance, PTL DEF IInv

\* MutualRecognition for any capacities, any traffic and any number of breaks
\* and redials.
THEOREM Recognition == Spec => []MutualRecognition
  BY Invariance, PTL DEF IInv

(***************************************************************************)
(* Waiting states and their timers.                                        *)
(***************************************************************************)
\* The timeout a waiting state depends on is never ignored in that state.
LEMMA TimeoutsHandled ==
  /\ Idle \in NextStates(Server, SysIdPending, "TiTimeout")
  /\ \A role \in Roles : Idle \in NextStates(role, IdPending, "TiTimeout")
  /\ \A role \in Roles : Idle \in NextStates(role, DataReady, "TrTimeout")
  /\ \A role \in Roles : DataReady \in NextStates(role, DataReady, "TsTimeout")
  BY DEF NextStates, Edge, ClientEdge, ServerEdge, CommonEdge, Roles, States, Disconnects

\* The events that keep or bring an endpoint in DATA_READY.
LEMMA DataReadyEvents ==
  ASSUME NEW role \in Roles, NEW s \in States, NEW ev, DataReady \in NextStates(role, s, ev)
  PROVE  \/ s = AssPending /\ ev = "RStartup"
         \/ s = DataReady /\ ev \in {"LData", "RData", "RHeartbeat", "TsTimeout"}
  BY DEF NextStates, Edge, ClientEdge, ServerEdge, CommonEdge, Roles, Client, Server,
         Idle, ConPending, SysIdPending, IdPending, Ready, AssPending, DataReady, States, Disconnects

LEMMA TransitionTimed ==
  ASSUME IInv, WaitsAreTimed, NEW e \in Roles, NEW ev, NEW t \in NextStates(e, state[e], ev),
         Transition(e, ev, t)
  PROVE  /\ state'[e] = t /\ \A f \in Roles \ {e} : state'[f] = state[f] /\ armed'[f] = armed[f]
         /\ t \in {SysIdPending, IdPending} => "Ti" \in armed'[e]
         /\ t = DataReady =>
              \A x \in {"Ts", "Tr"} : x \in armed'[e] \/ (x \in due[e] /\ ev # TimeoutEvent[x])
  <1> DEFINE s == state[e]
             exit == OnExit(e, s, ev)
             enter == OnEnter(t)
  <1>1. s \in States /\ t \in States
    BY DEF IInv, TypeOK, NextStates
  <1>2. state'[e] = t /\ \A f \in Roles \ {e} : state'[f] = state[f] /\ armed'[f] = armed[f]
    BY DEF Transition, IInv, TypeOK
  <1>3. armed'[e] = ((armed[e] \ exit.stop) \cup exit.restart) \cup enter.restart
    BY DEF Transition, IInv, TypeOK
  <1>4. t \in {SysIdPending, IdPending} => "Ti" \in enter.restart
    BY DEF OnEnter, Effect, SysIdPending, IdPending, ConPending, Ready
  <1>5. ASSUME t = DataReady, NEW x \in {"Ts", "Tr"}
        PROVE  x \in armed'[e] \/ (x \in due[e] /\ ev # TimeoutEvent[x])
    <2>1. CASE s = AssPending /\ ev = "RStartup"
      <3>1. exit = Effect(<<Control("startup", "LStartup")>>, {"Tr", "Ts"}, {})
        BY <2>1 DEF OnExit, AssPendingExit, SysIdPending, IdPending, Ready, AssPending, DataReady
      <3> QED
        BY <1>3, <3>1 DEF Effect
    <2>2. CASE s = DataReady /\ ev \in {"LData", "RData", "RHeartbeat", "TsTimeout"}
      <3>1. exit = DataReadyExit(ev)
        BY <2>2 DEF OnExit, SysIdPending, IdPending, Ready, AssPending, DataReady
      <3>2. exit.stop = {} /\ (ev = "TsTimeout" => exit.restart = {"Ts"})
        BY <2>2, <3>1 DEF DataReadyExit, Effect
      <3>3. x \in armed[e] \cup due[e]
        BY <2>2 DEF WaitsAreTimed
      <3> QED
        BY <1>3, <2>2, <3>2, <3>3 DEF TimeoutEvent
    <2> QED
      BY <1>1, <1>5, <2>1, <2>2, DataReadyEvents
  <1> QED
    BY <1>2, <1>3, <1>4, <1>5

\* An event keeps the timers of waiting states, also when it is the timeout
\* that has just been taken from due.
LEMMA ForceTimed ==
  ASSUME IInv, WaitsAreTimed, NEW e \in Roles, NEW ev, NEW r, ForceNewEventWith(e, ev, r),
         \/ due' = due
         \/ \E x \in Timers : ev = TimeoutEvent[x] /\ due' = [due EXCEPT ![e] = @ \ {x}]
  PROVE  WaitsAreTimed'
  <1>1. \A f \in Roles \ {e} : due'[f] = due[f]
    BY DEF IInv, TypeOK
  <1>2. \A x \in Timers : x \in due[e] /\ ev # TimeoutEvent[x] => x \in due'[e]
    BY DEF IInv, TypeOK
  <1>3. CASE NextStates(e, state[e], ev) = {} /\ UNCHANGED <<state, armed>>
    <2>1. state[e] \in {SysIdPending, IdPending} => ev # "TiTimeout"
      BY <1>3, TimeoutsHandled DEF IInv, StatesGood, Roles
    <2>2. state[e] = DataReady => ev \notin {"TsTimeout", "TrTimeout"}
      BY <1>3, TimeoutsHandled
    <2>3. state[e] \in {SysIdPending, IdPending} => "Ti" \in armed[e] \cup due'[e]
      BY <1>2, <2>1 DEF WaitsAreTimed, Timers, TimeoutEvent
    <2>4. state[e] = DataReady => {"Ts", "Tr"} \subseteq armed[e] \cup due'[e]
      BY <1>2, <2>2 DEF WaitsAreTimed, Timers, TimeoutEvent
    <2> QED
      BY <1>1, <1>3, <2>3, <2>4 DEF WaitsAreTimed
  <1>4. ASSUME NEW t \in NextStates(e, state[e], ev), Transition(e, ev, t)
        PROVE  WaitsAreTimed'
    <2>1. /\ state'[e] = t
          /\ \A f \in Roles \ {e} : state'[f] = state[f] /\ armed'[f] = armed[f]
          /\ t \in {SysIdPending, IdPending} => "Ti" \in armed'[e]
          /\ t = DataReady =>
               \A x \in {"Ts", "Tr"} : x \in armed'[e] \/ (x \in due[e] /\ ev # TimeoutEvent[x])
      BY <1>4, TransitionTimed
    <2>2. t = DataReady => {"Ts", "Tr"} \subseteq armed'[e] \cup due'[e]
      BY <1>2, <2>1 DEF Timers
    <2> QED
      BY <1>1, <2>1, <2>2 DEF WaitsAreTimed
  <1> QED
    BY <1>3, <1>4 DEF ForceNewEventWith

LEMMA NextTimed == IInv /\ WaitsAreTimed /\ [Next]_vars => WaitsAreTimed'
  <1> SUFFICES ASSUME IInv, WaitsAreTimed, [Next]_vars PROVE WaitsAreTimed'
    OBVIOUS
  <1>1. CASE Dial \/ Accept
    BY <1>1, ForceTimed DEF Dial, Accept, ForceNewEvent, Roles
  <1>2. ASSUME NEW e \in Roles, Down(e) \/ AfterSend(e) \/ Receive(e) PROVE WaitsAreTimed'
    BY <1>2, ForceTimed DEF Down, AfterSend, Receive, ForceNewEvent
  <1>3. ASSUME NEW e \in Roles, NEW t \in Timers, Timeout(e, t) PROVE WaitsAreTimed'
    BY <1>3, ForceTimed DEF Timeout, ForceNewEvent
  <1>4. CASE Break
    BY <1>4 DEF Break, WaitsAreTimed
  <1>5. ASSUME NEW e \in Roles, BreakApart(e) \/ Write(e) \/ ChiefData(e) PROVE WaitsAreTimed'
    BY <1>5 DEF BreakApart, Write, ChiefData, WaitsAreTimed
  <1>6. ASSUME NEW e \in Roles, NEW t \in Timers, Expire(e, t) PROVE WaitsAreTimed'
    <2>1. \A f \in Roles : armed'[f] \cup due'[f] = armed[f] \cup due[f]
      BY <1>6 DEF Expire, IInv, TypeOK
    <2> QED
      BY <1>6, <2>1 DEF Expire, WaitsAreTimed
  <1>7. CASE UNCHANGED vars
    BY <1>7 DEF vars, WaitsAreTimed
  <1> QED
    BY <1>1, <1>2, <1>3, <1>4, <1>5, <1>6, <1>7 DEF Next

\* WaitsAreTimed for every value of the bounds.
THEOREM Timed == Spec => []WaitsAreTimed
  <1>1. Init => WaitsAreTimed
    BY DEF Init, WaitsAreTimed, Roles, Idle, SysIdPending, IdPending, DataReady
  <1>2. IInv /\ WaitsAreTimed /\ [Next]_vars => WaitsAreTimed'
    BY NextTimed
  <1> QED
    BY <1>1, <1>2, Invariance, PTL DEF Spec

(***************************************************************************)
(* Operational messages arrive in order.  What the user of e has got, the  *)
(* packets on the wire to e and those that its peer still has to write are *)
(* one row: along it the numbers of the messages grow, up to the last one  *)
(* that the chief handed to the peer.  (The row may have gaps: a break     *)
(* loses what is on the wire.)                                             *)
(***************************************************************************)
LEMMA HeadThenTail ==
  ASSUME NEW S, NEW s \in Seq(S), s # <<>>
  PROVE  <<Head(s)>> \o Tail(s) = s
  <1>1. Head(s) \in S /\ Tail(s) \in Seq(S) /\ Len(Tail(s)) = Len(s) - 1
          /\ \A i \in 1..Len(Tail(s)) : Tail(s)[i] = s[i + 1]
    BY HeadTailProperties
  <1>2. Len(s) \in Nat \ {0}
    BY EmptySeq
  <1>3. <<Head(s)>> \in Seq(S) /\ Len(<<Head(s)>>) = 1 /\ <<Head(s)>>[1] = s[1]
    BY <1>1
  <1>4. /\ <<Head(s)>> \o Tail(s) \in Seq(S)
        /\ Len(<<Head(s)>> \o Tail(s)) = 1 + Len(Tail(s))
        /\ \A i \in 1..1 + Len(Tail(s)) :
             (<<Head(s)>> \o Tail(s))[i] = IF i <= 1 THEN <<Head(s)>>[i] ELSE Tail(s)[i - 1]
    BY <1>1, <1>3, ConcatProperties
  <1>5. \A i \in 1..Len(s) : (<<Head(s)>> \o Tail(s))[i] = s[i]
    BY <1>1, <1>2, <1>3, <1>4
  <1> QED
    BY <1>1, <1>2, <1>4, <1>5, SeqEqual

\* The head of one sequence moves to the end of the one before it.
LEMMA MoveOn ==
  ASSUME NEW S, NEW s \in Seq(S), NEW t \in Seq(S), t # <<>>
  PROVE  s \o t = Append(s, Head(t)) \o Tail(t)
  <1>1. Head(t) \in S /\ Tail(t) \in Seq(S) /\ <<Head(t)>> \in Seq(S)
    BY HeadTailProperties
  <1>2. Append(s, Head(t)) = s \o <<Head(t)>>
    BY <1>1, AppendIsConcat
  <1>3. (s \o <<Head(t)>>) \o Tail(t) = s \o t
    BY <1>1, HeadThenTail, ConcatAssociative
  <1> QED
    BY <1>2, <1>3

LEMMA AppendLast ==
  ASSUME NEW S, NEW a \in Seq(S), NEW s \in Seq(S), NEW m \in S
  PROVE  a \o Append(s, m) = Append(a \o s, m)
  <1>1. <<m>> \in Seq(S) /\ a \o s \in Seq(S)
    BY ConcatProperties
  <1>2. Append(s, m) = s \o <<m>> /\ Append(a \o s, m) = (a \o s) \o <<m>>
    BY <1>1, AppendIsConcat
  <1>3. (a \o s) \o <<m>> = a \o (s \o <<m>>)
    BY <1>1, ConcatAssociative
  <1> QED
    BY <1>2, <1>3, Zenon

IsData(p) == p.kind = "data"

RowGood(got, row, last) ==
  /\ \A i, j \in 1..Len(got) : i < j => got[i] < got[j]
  /\ \A i \in 1..Len(got) : got[i] <= last
  /\ \A i, j \in 1..Len(row) : i < j /\ IsData(row[i]) /\ IsData(row[j]) => row[i].n < row[j].n
  /\ \A j \in 1..Len(row) : IsData(row[j]) =>
       row[j].n <= last /\ \A i \in 1..Len(got) : got[i] < row[j].n

Row(e) == inbox[e] \o toSend[Peer(e)]

DataRows == \A e \in Roles : RowGood(delivered[e], Row(e), produced[Peer(e)])

\* Packets without data.
Controls == {p \in Packet : p.kind # "data"}

LEMMA PacketNumber == \A p \in Packet : p.n \in Nat
  BY DEF Packet

\* Some packets in the middle of a row are lost.
Shortened(row, cut) ==
  \E k, d \in Nat :
    /\ Len(row) = Len(cut) + d
    /\ \A i \in 1..Len(cut) : cut[i] = IF i <= k THEN row[i] ELSE row[i + d]

LEMMA RowCut ==
  ASSUME NEW got \in Seq(Nat), NEW row \in Seq(Packet), NEW last \in Nat, RowGood(got, row, last),
         NEW cut \in Seq(Packet), Shortened(row, cut)
  PROVE  RowGood(got, cut, last)
  <1>0. PICK k \in Nat, d \in Nat :
          /\ Len(row) = Len(cut) + d
          /\ \A i \in 1..Len(cut) : cut[i] = IF i <= k THEN row[i] ELSE row[i + d]
    BY DEF Shortened
  <1>1. Len(row) \in Nat /\ Len(cut) \in Nat
    OBVIOUS
  <1> DEFINE f(i) == IF i <= k THEN i ELSE i + d
  <1>2. \A i \in 1..Len(cut) : f(i) \in 1..Len(row) /\ cut[i] = row[f(i)]
    BY <1>0, <1>1
  <1>3. \A i, j \in 1..Len(cut) : i < j => f(i) < f(j)
    BY <1>1
  <1> HIDE DEF f
  <1>4. \A i, j \in 1..Len(cut) : i < j /\ IsData(cut[i]) /\ IsData(cut[j]) => cut[i].n < cut[j].n
    BY <1>2, <1>3 DEF RowGood
  <1>5. \A j \in 1..Len(cut) : IsData(cut[j]) =>
          cut[j].n <= last /\ \A i \in 1..Len(got) : got[i] < cut[j].n
    BY <1>2 DEF RowGood
  <1> QED
    BY <1>4, <1>5 DEF RowGood

\* The wire keeps only its first n packets.
LEMMA RowBroken ==
  ASSUME NEW b \in Seq(Packet), NEW q \in Seq(Packet), NEW n \in 0..Len(b)
  PROVE  /\ b \o q \in Seq(Packet) /\ SubSeq(b, 1, n) \in Seq(Packet)
         /\ SubSeq(b, 1, n) \o q \in Seq(Packet)
         /\ Shortened(b \o q, SubSeq(b, 1, n) \o q)
  <1> DEFINE c == SubSeq(b, 1, n)
  <1>1. Len(b) \in Nat /\ Len(q) \in Nat /\ n \in Nat /\ n <= Len(b)
    BY LenProperties
  <1>2. c \in Seq(Packet) /\ Len(c) = n /\ \A i \in 1..n : c[i] = b[i]
    <2>1. \A i \in 1..n : b[i] \in Packet
      BY <1>1, ElementOfSeq
    <2> QED
      BY <1>1, <2>1, SubSeqProperties
  <1> HIDE DEF c
  <1> DEFINE row == b \o q
             cut == c \o q
             d == Len(b) - n
  <1>3. /\ row \in Seq(Packet) /\ Len(row) = Len(b) + Len(q)
        /\ \A i \in 1..Len(b) + Len(q) : row[i] = IF i <= Len(b) THEN b[i] ELSE q[i - Len(b)]
    BY ConcatProperties
  <1>4. /\ cut \in Seq(Packet) /\ Len(cut) = n + Len(q)
        /\ \A i \in 1..n + Len(q) : cut[i] = IF i <= n THEN c[i] ELSE q[i - n]
    BY <1>2, ConcatProperties
  <1> HIDE DEF row, cut
  <1>5. d \in Nat /\ Len(row) = Len(cut) + d
    BY <1>1, <1>3, <1>4
  <1>6. ASSUME NEW i \in 1..Len(cut)
        PROVE  cut[i] = IF i <= n THEN row[i] ELSE row[i + d]
    <2>1. CASE i <= n
      <3>1. i \in 1..n /\ i \in 1..Len(b) + Len(q) /\ i \in 1..n + Len(q) /\ i <= Len(b)
        BY <1>1, <1>4, <2>1
      <3>2. cut[i] = c[i]
        BY <1>4, <2>1, <3>1
      <3>3. c[i] = b[i]
        BY <1>2, <3>1
      <3>4. row[i] = b[i]
        BY <1>3, <3>1
      <3> QED
        BY <2>1, <3>2, <3>3, <3>4
    <2>2. CASE i > n
      <3>1. cut[i] = q[i - n]
        BY <1>1, <1>4, <2>2
      <3>2. i + d \in 1..Len(b) + Len(q) /\ i + d > Len(b) /\ i + d - Len(b) = i - n
        BY <1>1, <1>4, <2>2
      <3>3. row[i + d] = q[i - n]
        <4> DEFINE m == i + d
        <4>1. m \in 1..Len(b) + Len(q) /\ ~(m <= Len(b)) /\ m - Len(b) = i - n
          BY <1>1, <3>2
        <4> HIDE DEF m
        <4>2. row[m] = q[m - Len(b)]
          BY <1>3, <4>1
        <4> QED
          BY <4>1, <4>2 DEF m
      <3> QED
        BY <1>1, <2>2, <3>1, <3>3
    <2> QED
      BY <1>1, <2>1, <2>2
  <1>7. Shortened(row, cut)
    BY <1>1, <1>5, <1>6 DEF Shortened
  <1> QED
    BY <1>2, <1>3, <1>4, <1>7 DEF row, cut, c

\* The first packet of the peer's queue is written in vain.
LEMMA RowUnread ==
  ASSUME NEW b \in Seq(Packet), NEW q \in Seq(Packet), q # <<>>
  PROVE  /\ b \o q \in Seq(Packet) /\ b \o Tail(q) \in Seq(Packet)
         /\ Shortened(b \o q, b \o Tail(q))
  <1> DEFINE c == Tail(q)
  <1>1. Len(b) \in Nat /\ Len(q) \in Nat \ {0}
    BY LenProperties, EmptySeq
  <1>2. c \in Seq(Packet) /\ Len(c) = Len(q) - 1 /\ \A i \in 1..Len(c) : c[i] = q[i + 1]
    BY HeadTailProperties
  <1> HIDE DEF c
  <1> DEFINE row == b \o q
             cut == b \o c
  <1>3. /\ row \in Seq(Packet) /\ Len(row) = Len(b) + Len(q)
        /\ \A i \in 1..Len(b) + Len(q) : row[i] = IF i <= Len(b) THEN b[i] ELSE q[i - Len(b)]
    BY ConcatProperties
  <1>4. /\ cut \in Seq(Packet) /\ Len(cut) = Len(b) + Len(c)
        /\ \A i \in 1..Len(b) + Len(c) : cut[i] = IF i <= Len(b) THEN b[i] ELSE c[i - Len(b)]
    BY <1>2, ConcatProperties
  <1> HIDE DEF row, cut
  <1>5. Len(row) = Len(cut) + 1
    BY <1>1, <1>2, <1>3, <1>4
  <1>6. ASSUME NEW i \in 1..Len(cut)
        PROVE  cut[i] = IF i <= Len(b) THEN row[i] ELSE row[i + 1]
    <2>1. CASE i <= Len(b)
      <3>1. i \in 1..Len(b) + Len(c) /\ i \in 1..Len(b) + Len(q)
        BY <1>1, <1>2, <1>4, <2>1
      <3>2. cut[i] = b[i]
        BY <1>4, <2>1, <3>1
      <3>3. row[i] = b[i]
        BY <1>3, <2>1, <3>1
      <3> QED
        BY <2>1, <3>2, <3>3
    <2>2. CASE i > Len(b)
      <3>1. cut[i] = c[i - Len(b)]
        BY <1>1, <1>4, <2>2
      <3>2. c[i - Len(b)] = q[(i - Len(b)) + 1]
        <4> DEFINE m == i - Len(b)
        <4>1. m \in 1..Len(c)
          BY <1>1, <1>2, <1>4, <2>2
        <4> HIDE DEF m
        <4>2. c[m] = q[m + 1]
          BY <1>2, <4>1
        <4> QED
          BY <4>2 DEF m
      <3>3. i + 1 \in 1..Len(b) + Len(q) /\ row[i + 1] = q[(i + 1) - Len(b)]
        BY <1>1, <1>2, <1>3, <1>4, <2>2
      <3>4. (i + 1) - Len(b) = (i - Len(b)) + 1
        BY <1>1
      <3> QED
        BY <1>1, <2>2, <3>1, <3>2, <3>3, <3>4
    <2> QED
      BY <1>1, <2>1, <2>2
  <1>7. Shortened(row, cut)
    BY <1>1, <1>5, <1>6 DEF Shortened
  <1> QED
    BY <1>3, <1>4, <1>7 DEF row, cut, c

\* The first packet of a row leaves it.
LEMMA RowTail ==
  ASSUME NEW row \in Seq(Packet), row # <<>>
  PROVE  Tail(row) \in Seq(Packet) /\ Shortened(row, Tail(row))
  <1> DEFINE cut == Tail(row)
  <1>1. /\ Len(row) \in Nat \ {0} /\ cut \in Seq(Packet) /\ Len(cut) = Len(row) - 1
        /\ \A i \in 1..Len(cut) : cut[i] = row[i + 1]
    BY HeadTailProperties, EmptySeq
  <1> HIDE DEF cut
  <1>2. Len(row) = Len(cut) + 1 /\ \A i \in 1..Len(cut) : cut[i] = IF i <= 0 THEN row[i] ELSE row[i + 1]
    BY <1>1
  <1>3. Shortened(row, cut)
    BY <1>2 DEF Shortened
  <1> QED
    BY <1>1, <1>3 DEF cut

\* Packets without data are queued.
LEMMA RowExtended ==
  ASSUME NEW got \in Seq(Nat), NEW row \in Seq(Packet), NEW last \in Nat, RowGood(got, row, last),
         NEW out \in Seq(Controls)
  PROVE  RowGood(got, row \o out, last)
  <1>1. out \in Seq(Packet) /\ \A i \in 1..Len(out) : ~IsData(out[i])
    BY SeqMonotonic, ElementOfSeq DEF Controls, IsData
  <1>2. /\ Len(row) \in Nat /\ Len(out) \in Nat
        /\ Len(row \o out) = Len(row) + Len(out)
        /\ \A i \in 1..Len(row) + Len(out) :
             (row \o out)[i] = IF i <= Len(row) THEN row[i] ELSE out[i - Len(row)]
    BY <1>1, ConcatProperties
  <1> DEFINE new == row \o out
  <1>3. \A i \in 1..Len(new) : IsData(new[i]) => i \in 1..Len(row) /\ new[i] = row[i]
    BY <1>1, <1>2
  <1> HIDE DEF new
  <1>4. RowGood(got, new, last)
    BY <1>3 DEF RowGood
  <1> QED
    BY <1>4 DEF new

\* The chief hands over the next message.
LEMMA RowProduced ==
  ASSUME NEW got \in Seq(Nat), NEW row \in Seq(Packet), NEW last \in Nat, RowGood(got, row, last),
         NEW p \in Packet, p.n = last + 1
  PROVE  RowGood(got, Append(row, p), last + 1)
  <1>1. /\ Len(row) \in Nat /\ Len(Append(row, p)) = Len(row) + 1
        /\ \A i \in 1..Len(row) : Append(row, p)[i] = row[i]
        /\ Append(row, p)[Len(row) + 1] = p
    BY AppendProperties
  <1> DEFINE new == Append(row, p)
  <1>2. \A i \in 1..Len(row) : row[i].n \in Nat
    BY ElementOfSeq, PacketNumber
  <1>3. \A i \in 1..Len(got) : got[i] \in Nat
    BY ElementOfSeq
  <1>s. /\ Len(new) = Len(row) + 1 /\ new[Len(row) + 1] = p
        /\ \A i \in 1..Len(new) : (i \in 1..Len(row) /\ new[i] = row[i]) \/ i = Len(row) + 1
    BY <1>1
  <1> HIDE DEF new
  <1>4. \A i, j \in 1..Len(new) : i < j /\ IsData(new[i]) /\ IsData(new[j]) => new[i].n < new[j].n
    <2> SUFFICES ASSUME NEW i \in 1..Len(new), NEW j \in 1..Len(new),
                        i < j, IsData(new[i]), IsData(new[j])
                 PROVE  new[i].n < new[j].n
      OBVIOUS
    <2>1. i \in 1..Len(row) /\ new[i] = row[i]
      BY <1>1, <1>s
    <2>2. CASE j \in 1..Len(row) /\ new[j] = row[j]
      BY <2>1, <2>2 DEF RowGood
    <2>3. CASE j = Len(row) + 1
      <3>1. row[i].n \in Nat /\ row[i].n <= last
        BY <1>2, <2>1 DEF RowGood
      <3> QED
        BY <1>s, <2>1, <2>3, <3>1
    <2> QED
      BY <1>s, <2>2, <2>3
  <1>5. ASSUME NEW j \in 1..Len(new), IsData(new[j])
        PROVE  new[j].n <= last + 1 /\ \A i \in 1..Len(got) : got[i] < new[j].n
    <2>1. CASE j \in 1..Len(row) /\ new[j] = row[j]
      <3>1. row[j].n \in Nat /\ row[j].n <= last /\ \A i \in 1..Len(got) : got[i] < row[j].n
        BY <1>2, <1>5, <2>1 DEF RowGood
      <3> QED
        BY <2>1, <3>1
    <2>2. CASE j = Len(row) + 1
      <3>1. new[j].n = last + 1
        BY <1>s, <2>2
      <3>2. \A i \in 1..Len(got) : got[i] \in Nat /\ got[i] <= last
        BY <1>3 DEF RowGood
      <3> QED
        BY <3>1, <3>2
    <2> QED
      BY <1>s, <2>1, <2>2
  <1>6. \A i \in 1..Len(got) : got[i] <= last + 1
    BY <1>3 DEF RowGood
  <1> QED
    BY <1>4, <1>5, <1>6 DEF RowGood, new

\* The user gets the message at the head of the row.
LEMMA RowReceived ==
  ASSUME NEW got \in Seq(Nat), NEW row \in Seq(Packet), NEW last \in Nat, RowGood(got, row, last),
         row # <<>>, IsData(Head(row))
  PROVE  RowGood(Append(got, Head(row).n), Tail(row), last)
  <1> DEFINE n == Head(row).n
             new == Append(got, n)
             rest == Tail(row)
  <1>1. /\ Head(row) = row[1] /\ Head(row) \in Packet /\ n \in Nat /\ Len(row) \in Nat \ {0}
        /\ Len(rest) = Len(row) - 1 /\ \A i \in 1..Len(rest) : rest[i] = row[i + 1]
    BY HeadTailProperties, EmptySeq, PacketNumber
  <1>2. /\ Len(got) \in Nat /\ Len(new) = Len(got) + 1 /\ new[Len(got) + 1] = n
        /\ \A i \in 1..Len(got) : new[i] = got[i]
    BY <1>1, AppendProperties
  <1>3. n <= last /\ \A i \in 1..Len(got) : got[i] < n
    BY <1>1 DEF RowGood
  <1>4. \A j \in 1..Len(rest) : IsData(rest[j]) =>
          n < rest[j].n /\ rest[j].n <= last /\ \A i \in 1..Len(got) : got[i] < rest[j].n
    BY <1>1 DEF RowGood
  <1>5. \A i, j \in 1..Len(rest) : i < j /\ IsData(rest[i]) /\ IsData(rest[j]) => rest[i].n < rest[j].n
    BY <1>1 DEF RowGood
  <1>s. \A i \in 1..Len(new) : (i \in 1..Len(got) /\ new[i] = got[i]) \/ (i = Len(got) + 1 /\ new[i] = n)
    BY <1>2
  <1> HIDE DEF n, new, rest
  <1>6. ASSUME NEW i \in 1..Len(new), NEW j \in 1..Len(new), i < j
        PROVE  new[i] < new[j]
    <2>1. i \in 1..Len(got) /\ new[i] = got[i]
      BY <1>2, <1>6, <1>s
    <2>2. CASE j \in 1..Len(got) /\ new[j] = got[j]
      BY <1>6, <2>1, <2>2 DEF RowGood
    <2>3. CASE new[j] = n
      BY <1>3, <2>1, <2>3
    <2> QED
      BY <1>s, <2>2, <2>3
  <1>7. \A i \in 1..Len(new) : new[i] <= last
    BY <1>2, <1>3, <1>s DEF RowGood
  <1>8. \A j \in 1..Len(rest) : IsData(rest[j]) =>
          rest[j].n <= last /\ \A i \in 1..Len(new) : new[i] < rest[j].n
    BY <1>4, <1>s
  <1>9. RowGood(new, rest, last)
    BY <1>5, <1>6, <1>7, <1>8 DEF RowGood
  <1> QED
    BY <1>9 DEF n, new, rest

LEMMA PacketsAssociate ==
  \A a, b, c \in Seq(Packet) : (a \o b) \o c = a \o (b \o c)
  BY ConcatAssociative

\* A handler of the controller queues packets without data, and nothing else
\* happens to the queues.
LEMMA ForceQueues ==
  ASSUME IInv, NEW e \in Roles, NEW ev \in Events, NEW r, ForceNewEventWith(e, ev, r)
  PROVE  \A f \in Roles : \E out \in Seq(Controls) : toSend'[f] = toSend[f] \o out
  <1>0. \A f \in Roles : toSend[f] \in Seq(Packet)
    BY DEF IInv, TypeOK
  <1>1. \A f \in Roles : toSend[f] = toSend[f] \o <<>> /\ <<>> \in Seq(Controls)
    BY <1>0, ConcatEmptySeq
  <1>2. CASE UNCHANGED toSend
    BY <1>1, <1>2
  <1>3. ASSUME NEW t \in NextStates(e, state[e], ev), Transition(e, ev, t)
        PROVE  \A f \in Roles : \E out \in Seq(Controls) : toSend'[f] = toSend[f] \o out
    <2> DEFINE exit == OnExit(e, state[e], ev).send
               enter == OnEnter(t).send
    <2>1. toSend' = [toSend EXCEPT ![e] = (@ \o exit) \o enter]
      BY <1>3 DEF Transition
    <2>2. state[e] \in States /\ t \in States
      BY DEF IInv, TypeOK, NextStates
    <2>3. \A k \in Kinds \ {"data"}, a \in AfterEvents : <<Control(k, a)>> \in Seq(Controls)
      <3>1. ASSUME NEW k \in Kinds \ {"data"}, NEW a \in AfterEvents
            PROVE  Control(k, a) \in Controls
        <4>1. Control(k, a) \in Packet
          BY ControlPacket
        <4>2. Control(k, a).kind # "data"
          BY DEF Control
        <4> QED
          BY <4>1, <4>2 DEF Controls
      <3> QED
        BY <3>1, Singleton
    <2>4. {"ident", "accept", "startup", "reject", "shutdown", "heartbeat"} \subseteq Kinds \ {"data"}
            /\ {None, "RSetup", "LStartup"} \subseteq AfterEvents
      BY DEF Kinds, AfterEvents
    <2>k. <<>> \in Seq(Controls)
      BY EmptySeq
    <2>5. exit \in Seq(Controls)
      BY <2>k, <2>2, <2>3, <2>4, ExitSends, ZenonT(40)
    <2>6. enter \in Seq(Controls)
      BY <2>k, <2>2, <2>3, <2>4, EnterSends
    <2> HIDE DEF exit, enter
    <2>7. exit \o enter \in Seq(Controls)
      BY <2>5, <2>6, ConcatProperties
    <2>8. (toSend[e] \o exit) \o enter = toSend[e] \o (exit \o enter)
      <3>1. Controls \subseteq Packet
        BY DEF Controls
      <3>2. exit \in Seq(Packet) /\ enter \in Seq(Packet)
        BY <2>5, <2>6, <3>1, SeqMonotonic
      <3> QED
        BY <1>0, <3>2, PacketsAssociate, Zenon
    <2>9. toSend'[e] = toSend[e] \o (exit \o enter) /\ \A f \in Roles \ {e} : toSend'[f] = toSend[f]
      BY <2>1, <2>8 DEF IInv, TypeOK
    <2> QED
      BY <1>1, <2>7, <2>9
  <1> QED
    BY <1>2, <1>3 DEF ForceNewEventWith

\* Rows that are good before a handler queues its packets are good after it.
LEMMA ForceRows ==
  ASSUME IInv, NEW e \in Roles, NEW ev \in Events, NEW r, ForceNewEventWith(e, ev, r),
         inbox' \in [Roles -> Seq(Packet)], delivered' \in [Roles -> Seq(Nat)], produced' = produced,
         \A f \in Roles : RowGood(delivered'[f], inbox'[f] \o toSend[Peer(f)], produced[Peer(f)])
  PROVE  DataRows'
  <1> SUFFICES ASSUME NEW f \in Roles
               PROVE  RowGood(delivered'[f], inbox'[f] \o toSend'[Peer(f)], produced[Peer(f)])
    BY DEF DataRows, Row
  <1>1. PICK out \in Seq(Controls) : toSend'[Peer(f)] = toSend[Peer(f)] \o out
    BY ForceQueues, PeerIsRole
  <1>o. out \in Seq(Packet)
    <2>1. Controls \subseteq Packet
      BY DEF Controls
    <2> QED
      BY <2>1, SeqMonotonic
  <1>2. /\ inbox'[f] \in Seq(Packet) /\ toSend[Peer(f)] \in Seq(Packet) /\ out \in Seq(Packet)
        /\ delivered'[f] \in Seq(Nat) /\ produced[Peer(f)] \in Nat
    BY <1>o, PeerIsRole DEF IInv, TypeOK
  <1>3. (inbox'[f] \o toSend[Peer(f)]) \o out = inbox'[f] \o (toSend[Peer(f)] \o out)
    BY <1>2, PacketsAssociate, Zenon
  <1>4. inbox'[f] \o toSend[Peer(f)] \in Seq(Packet)
    BY <1>2, ConcatProperties
  <1>5. RowGood(delivered'[f], (inbox'[f] \o toSend[Peer(f)]) \o out, produced[Peer(f)])
    BY <1>2, <1>4, RowExtended
  <1> QED
    BY <1>1, <1>3, <1>5, Zenon

\* The first packet of a row leaves it.
LEMMA HeadLeaves ==
  ASSUME NEW s \in Seq(Packet), s # <<>>, NEW t \in Seq(Packet)
  PROVE  /\ s \o t \in Seq(Packet) /\ s \o t # <<>>
         /\ Head(s \o t) = Head(s) /\ Tail(s \o t) = Tail(s) \o t
  <1>1. /\ Len(s) \in Nat \ {0} /\ Len(t) \in Nat /\ Head(s) = s[1]
        /\ Tail(s) \in Seq(Packet) /\ Len(Tail(s)) = Len(s) - 1
        /\ \A i \in 1..Len(Tail(s)) : Tail(s)[i] = s[i + 1]
    BY HeadTailProperties, EmptySeq
  <1>2. /\ s \o t \in Seq(Packet) /\ Len(s \o t) = Len(s) + Len(t)
        /\ \A i \in 1..Len(s) + Len(t) : (s \o t)[i] = IF i <= Len(s) THEN s[i] ELSE t[i - Len(s)]
    BY ConcatProperties
  <1> DEFINE u == s \o t
  <1>3. u # <<>>
    BY <1>1, <1>2
  <1>4. Head(u) = u[1] /\ u[1] = s[1]
    BY <1>1, <1>2
  <1>5. /\ Tail(u) \in Seq(Packet) /\ Len(Tail(u)) = Len(u) - 1
        /\ \A i \in 1..Len(Tail(u)) : Tail(u)[i] = u[i + 1]
    BY <1>2, <1>3, HeadTailProperties
  <1> DEFINE v == Tail(s) \o t
  <1>6. /\ v \in Seq(Packet) /\ Len(v) = Len(Tail(s)) + Len(t)
        /\ \A i \in 1..Len(Tail(s)) + Len(t) :
             v[i] = IF i <= Len(Tail(s)) THEN Tail(s)[i] ELSE t[i - Len(Tail(s))]
    BY <1>1, ConcatProperties
  <1> DEFINE w == Tail(u)
             x == Tail(s)
  <1> HIDE DEF u, v, w, x
  <1>7. Len(w) = Len(v) /\ \A i \in 1..Len(w) : w[i] = v[i]
    BY <1>1, <1>2, <1>5, <1>6 DEF u, w
  <1>8. w = v
    BY <1>5, <1>6, <1>7, SeqEqual DEF w
  <1> QED
    BY <1>1, <1>2, <1>3, <1>4, <1>8 DEF u, v, w

LEMMA NextRows == IInv /\ DataRows /\ [Next]_vars => DataRows'
  <1> SUFFICES ASSUME IInv, DataRows, [Next]_vars PROVE DataRows'
    OBVIOUS
  <1>t. \A f \in Roles : /\ inbox[f] \in Seq(Packet) /\ toSend[f] \in Seq(Packet)
                         /\ delivered[f] \in Seq(Nat) /\ produced[f] \in Nat
                         /\ Peer(f) \in Roles /\ Row(f) \in Seq(Packet)
    <2>1. \A f \in Roles : /\ inbox[f] \in Seq(Packet) /\ toSend[f] \in Seq(Packet)
                           /\ delivered[f] \in Seq(Nat) /\ produced[f] \in Nat /\ Peer(f) \in Roles
      BY PeerIsRole DEF IInv, TypeOK
    <2> QED
      BY <2>1, ConcatProperties DEF Row
  <1>r. \A f \in Roles : RowGood(delivered[f], inbox[f] \o toSend[Peer(f)], produced[Peer(f)])
    BY DEF DataRows, Row
  <1>1. ASSUME NEW e \in Roles, NEW ev \in Events, NEW r, ForceNewEventWith(e, ev, r),
               UNCHANGED <<inbox, delivered, produced>>
        PROVE  DataRows'
    BY <1>1, <1>r, ForceRows DEF IInv, TypeOK
  <1>2. CASE Dial \/ Accept
    <2>1. {"LSetup", "RSetup"} \subseteq Events
      BY DEF Events
    <2> QED
      BY <1>1, <1>2, <2>1 DEF Dial, Accept, ForceNewEvent, Roles
  <1>3. ASSUME NEW e \in Roles, Down(e) PROVE DataRows'
    <2>1. "RDisconnect" \in Events
      BY DEF Events
    <2> QED
      BY <1>1, <1>3, <2>1 DEF Down, ForceNewEvent
  <1>4. ASSUME NEW e \in Roles, AfterSend(e) PROVE DataRows'
    <2>1. pending[e] \in Events
      BY <1>4 DEF AfterSend, IInv, TypeOK, AfterEvents, Events
    <2> QED
      BY <1>1, <1>4, <2>1 DEF AfterSend, ForceNewEvent
  <1>5. ASSUME NEW e \in Roles, NEW t \in Timers, Timeout(e, t) PROVE DataRows'
    <2>1. TimeoutEvent[t] \in Events
      BY DEF Timers, TimeoutEvent, Events
    <2> QED
      BY <1>1, <1>5, <2>1 DEF Timeout, ForceNewEvent
  <1>6. CASE Break
    <2>1. PICK read \in [Roles -> 0..WireCap] :
            /\ \A e \in Roles : read[e] <= Len(inbox[e])
            /\ inbox' = [e \in Roles |-> SubSeq(inbox[e], 1, read[e])]
      BY <1>6 DEF Break
    <2>2. ASSUME NEW f \in Roles
          PROVE  RowGood(delivered[f], inbox'[f] \o toSend[Peer(f)], produced[Peer(f)])
      <3> DEFINE b == inbox[f]
                 n == read[f]
                 q == toSend[Peer(f)]
                 got == delivered[f]
                 last == produced[Peer(f)]
      <3>1. /\ n \in 0..Len(b) /\ b \in Seq(Packet) /\ q \in Seq(Packet)
            /\ got \in Seq(Nat) /\ last \in Nat
        BY <1>t, <2>1, BoundsAssumption
      <3>2. RowGood(got, b \o q, last)
        BY <1>r
      <3>3. inbox'[f] = SubSeq(b, 1, n)
        BY <2>1
      <3> HIDE DEF b, n, q, got, last
      <3>4. RowGood(got, SubSeq(b, 1, n) \o q, last)
        BY <3>1, <3>2, RowBroken, RowCut
      <3> QED
        BY <3>3, <3>4 DEF q, got, last
    <2> QED
      BY <1>6, <2>2 DEF Break, DataRows, Row
  <1>7. ASSUME NEW e \in Roles, Write(e) PROVE DataRows'
    <2> DEFINE f == Peer(e)
               b == inbox[f]
               q == toSend[e]
    <2>0. f \in Roles /\ Peer(f) = e /\ b \in Seq(Packet) /\ q \in Seq(Packet) /\ q # <<>>
      BY <1>7, PeerIsRole DEF Write, IInv, TypeOK
    <2>1. toSend' = [toSend EXCEPT ![e] = Tail(q)] /\ UNCHANGED <<delivered, produced>>
      BY <1>7 DEF Write
    <2> HIDE DEF f
    <2>2. CASE inbox' = [inbox EXCEPT ![f] = Append(b, Head(q))]
      <3>1. Head(q) \in Packet /\ Tail(q) \in Seq(Packet)
        BY <2>0, HeadTailProperties
      <3>2. b \o q = Append(b, Head(q)) \o Tail(q)
        BY <2>0, MoveOn
      <3>3. inbox'[f] \o toSend'[e] = inbox[f] \o toSend[e]
        BY <2>0, <2>1, <2>2, <3>2 DEF IInv, TypeOK
      <3>4. \A g \in Roles \ {f} : Row(g)' = Row(g)
        BY <2>0, <2>1, <2>2, PeerIsRole DEF Row, IInv, TypeOK
      <3>5. Row(f)' = Row(f)
        BY <2>0, <3>3 DEF Row
      <3> QED
        BY <2>1, <3>4, <3>5 DEF DataRows
    <2>3. CASE UNCHANGED inbox
      <3>1. \A g \in Roles \ {f} : Row(g)' = Row(g)
        BY <2>0, <2>1, <2>3, PeerIsRole DEF Row, IInv, TypeOK
      <3>2. Row(f)' = b \o Tail(q) /\ Row(f) = b \o q
        BY <2>0, <2>1, <2>3 DEF Row, IInv, TypeOK
      <3> DEFINE got == delivered[f]
                 last == produced[Peer(f)]
      <3>3. got \in Seq(Nat) /\ last \in Nat /\ RowGood(got, b \o q, last)
        BY <1>t, <2>0, <3>2 DEF DataRows
      <3> HIDE DEF b, q, got, last
      <3>4. RowGood(got, b \o Tail(q), last)
        BY <2>0, <3>3, RowUnread, RowCut
      <3>10. RowGood(delivered'[f], Row(f)', produced'[Peer(f)])
        BY <2>1, <3>2, <3>4 DEF got, last
      <3> QED
        BY <2>1, <3>1, <3>10 DEF DataRows
    <2> QED
      BY <1>7, <2>2, <2>3 DEF Write, f
  <1>8. ASSUME NEW e \in Roles, Receive(e) PROVE DataRows'
    <2> DEFINE b == inbox[e]
               q == toSend[Peer(e)]
               row == b \o q
               last == produced[Peer(e)]
               got == delivered[e]
    <2>1. /\ b \in Seq(Packet) /\ b # <<>> /\ q \in Seq(Packet) /\ last \in Nat /\ got \in Seq(Nat)
          /\ inbox' = [inbox EXCEPT ![e] = Tail(b)] /\ produced' = produced
      BY <1>8, <1>t DEF Receive
    <2>2. Head(b) \in Packet /\ Tail(b) \in Seq(Packet)
      BY <2>1, HeadTailProperties
    <2>3. RemoteEvent(e, Head(b)) \in Events /\ ForceNewEventWith(e, RemoteEvent(e, Head(b)), redials)
      BY <1>8, <2>2 DEF Receive, ForceNewEvent, Packet, Kinds, RemoteEvent, Events
    <2>4. row \in Seq(Packet) /\ row # <<>> /\ Head(row) = Head(b) /\ Tail(row) = Tail(b) \o q
      BY <2>1, HeadLeaves
    <2>5. RowGood(got, row, last)
      BY <1>r
    <2>6. delivered'[e] \in Seq(Nat) /\ RowGood(delivered'[e], Tail(b) \o q, last)
      <3> HIDE DEF b, q, row, last, got
      <3>1. CASE IsData(Head(b))
        <4>1. delivered'[e] = Append(got, Head(row).n)
          BY <1>8, <2>4, <3>1 DEF Receive, IsData, b, got, IInv, TypeOK
        <4>2. Head(row).n \in Nat
          BY <2>2, <2>4, PacketNumber
        <4>3. RowGood(Append(got, Head(row).n), Tail(row), last)
          BY <2>1, <2>4, <2>5, <3>1, RowReceived
        <4>4. Append(got, Head(row).n) \in Seq(Nat)
          BY <2>1, <4>2, AppendProperties
        <4> QED
          BY <2>4, <4>1, <4>3, <4>4, Zenon
      <3>2. CASE ~IsData(Head(b))
        <4>1. delivered'[e] = got
          BY <1>8, <3>2 DEF Receive, IsData, b, got
        <4>2. RowGood(got, Tail(row), last)
          BY <2>1, <2>4, <2>5, RowTail, RowCut
        <4> QED
          BY <2>1, <2>4, <4>1, <4>2
      <3> QED
        BY <3>1, <3>2
    <2>7. /\ delivered' \in [Roles -> Seq(Nat)] /\ inbox' \in [Roles -> Seq(Packet)]
          /\ \A f \in Roles \ {e} : delivered'[f] = delivered[f] /\ inbox'[f] = inbox[f]
          /\ inbox'[e] = Tail(b)
      BY <1>8, <2>1, <2>2, <2>6 DEF Receive, IInv, TypeOK
    <2>8. \A f \in Roles : RowGood(delivered'[f], inbox'[f] \o toSend[Peer(f)], produced[Peer(f)])
      BY <1>r, <2>6, <2>7
    <2> QED
      BY <2>1, <2>3, <2>7, <2>8, ForceRows
  <1>9. ASSUME NEW e \in Roles, ChiefData(e) PROVE DataRows'
    <2> DEFINE f == Peer(e)
               b == inbox[f]
               q == toSend[e]
               p == [kind |-> "data", n |-> produced[e] + 1, after |-> "LData"]
    <2>1. /\ f \in Roles /\ Peer(f) = e /\ b \in Seq(Packet) /\ q \in Seq(Packet)
          /\ produced[e] \in Nat /\ delivered[f] \in Seq(Nat)
      BY <1>t, PeerIsRole
    <2>2. p \in Packet /\ p.n = produced[e] + 1
      BY <2>1 DEF Packet, Kinds, AfterEvents
    <2>3. /\ toSend' = [toSend EXCEPT ![e] = Append(q, p)] /\ UNCHANGED <<inbox, delivered>>
          /\ produced' = [produced EXCEPT ![e] = produced[e] + 1]
      BY <1>9 DEF ChiefData
    <2> HIDE DEF f, p
    <2>4. RowGood(delivered[f], b \o q, produced[e])
      BY <1>r, <2>1
    <2> HIDE DEF b, q
    <2>5. b \o Append(q, p) = Append(b \o q, p) /\ b \o q \in Seq(Packet)
      BY <2>1, <2>2, AppendLast, ConcatProperties
    <2>6. RowGood(delivered[f], Append(b \o q, p), produced[e] + 1)
      BY <2>1, <2>2, <2>4, <2>5, RowProduced
    <2>7. Row(f)' = b \o Append(q, p) /\ produced'[Peer(f)] = produced[e] + 1
      BY <2>1, <2>3 DEF Row, IInv, TypeOK, b, q
    <2>8. \A g \in Roles \ {f} : Row(g)' = Row(g) /\ produced'[Peer(g)] = produced[Peer(g)]
      BY <2>1, <2>3, PeerIsRole DEF Row, IInv, TypeOK
    <2> QED
      BY <2>3, <2>5, <2>6, <2>7, <2>8 DEF DataRows
  <1>10. ASSUME NEW e \in Roles, BreakApart(e) PROVE DataRows'
    BY <1>10 DEF BreakApart, DataRows, Row
  <1>11. ASSUME NEW e \in Roles, NEW t \in Timers, Expire(e, t) PROVE DataRows'
    BY <1>11 DEF Expire, DataRows, Row
  <1>12. CASE UNCHANGED vars
    BY <1>12 DEF vars, DataRows, Row
  <1> QED
    BY <1>2, <1>3, <1>4, <1>5, <1>6, <1>7, <1>8, <1>9, <1>10, <1>11, <1>12 DEF Next

\* DataInOrder for any capacities, any traffic and any number of breaks and
\* redials.
THEOREM DataOrder == Spec => []DataInOrder
  <1>1. Init => DataRows
    <2> SUFFICES ASSUME Init PROVE DataRows
      OBVIOUS
    <2>1. \A e \in Roles : delivered[e] = <<>> /\ Row(e) = <<>>
      BY PeerIsRole DEF Init, Row
    <2> QED
      BY <2>1 DEF DataRows, RowGood
  <1>2. IInv /\ DataRows /\ [Next]_vars => DataRows'
    BY NextRows
  <1>3. IInv /\ DataRows => DataInOrder
    BY LenProperties DEF DataRows, RowGood, DataInOrder, IInv, TypeOK
  <1> QED
    BY <1>1, <1>2, <1>3, Invariance, PTL DEF Spec

(***************************************************************************)
(* FmtpAssociation implements AssociationPhases.                           *)
(***************************************************************************)
\* The phases of two states joined by an edge of the table.
LEMMA PhaseSteps ==
  ASSUME NEW role \in Roles, NEW s \in States, NEW ev, NEW t \in NextStates(role, s, ev)
  PROVE  \/ PhaseOf(t) = PhaseOf(s) /\ t # Ready
         \/ PhaseOf(t) = PhaseOf(s) /\ s \in Associated
         \/ PhaseOf(s) = "down" /\ PhaseOf(t) = "identifying" /\ t # Ready
         \/ /\ PhaseOf(s) = "identifying" /\ PhaseOf(t) = "identified"
            /\ t = Ready /\ s = IdPending
         \/ PhaseOf(s) = "identified" /\ PhaseOf(t) = "operational" /\ t = DataReady
         \/ PhaseOf(s) \in {"identifying", "identified", "operational"} /\ t = Idle /\ PhaseOf(t) = "down"
         \/ PhaseOf(s) = "operational" /\ PhaseOf(t) = "identified" /\ s = DataReady
  BY DEF NextStates, Edge, ClientEdge, ServerEdge, CommonEdge, Roles, Client, Server,
         Idle, ConPending, SysIdPending, IdPending, Ready, AssPending, DataReady, States,
         Disconnects, PhaseOf, Associated

\* The instance names the same roles.
LEMMA SameRoles == Phases!Roles = Roles /\ Phases!Client = Client /\ Phases!Server = Server
  BY DEF Phases!Roles, Phases!Client, Phases!Server, Roles, Client, Server

\* A transition of a controller is a step of one phase or none.
LEMMA ForceRefines ==
  ASSUME IInv, IInv', NEW e \in Roles, NEW ev, NEW r, ForceNewEventWith(e, ev, r),
         trusts' = trusts
  PROVE  [Phases!Next]_(Phases!vars)
  <1>1. CASE UNCHANGED <<state, met>>
    BY <1>1 DEF Phases!vars
  <1>2. ASSUME NEW t \in NextStates(e, state[e], ev), Transition(e, ev, t)
        PROVE  [Phases!Next]_(Phases!vars)
    <2> DEFINE s == state[e]
    <2>1. s \in States /\ t \in States /\ state \in [Roles -> States]
      BY DEF IInv, TypeOK, NextStates
    <2>2. state' = [state EXCEPT ![e] = t] /\ met' = (IF t = Ready THEN met \cup {e} ELSE met)
      BY <1>2 DEF Transition
    <2>3. Phases!Move(e, PhaseOf(s), PhaseOf(t))
      BY <2>1, <2>2 DEF Phases!Move
    <2>4. t \in Associated => trusts = Roles /\ (e = Server => Client \in met')
      BY <2>1, <2>2 DEF IInv, MutualRecognition, Roles
    <2>5. t = DataReady => Peer(e) \in met'
      BY <2>1, <2>2 DEF IInv, MutualRecognition
    <2>6. s \in Associated => e \in met
      BY DEF IInv, StatesGood
    <2>7. CASE PhaseOf(t) = PhaseOf(s) /\ met' = met
      <3>1. \A f \in Roles : PhaseOf(state'[f]) = PhaseOf(state[f])
        BY <2>1, <2>2, <2>7
      <3> QED
        BY <2>7, <3>1 DEF Phases!vars, Phases!Next
    <2>8. CASE PhaseOf(s) = "down" /\ PhaseOf(t) = "identifying" /\ t # Ready
      <3>1. Phases!Start(e)
        BY <2>2, <2>3, <2>8 DEF Phases!Start
      <3> QED
        BY <3>1, SameRoles DEF Phases!Next
    <2>9. CASE /\ PhaseOf(s) = "identifying" /\ PhaseOf(t) = "identified"
               /\ t = Ready /\ s = IdPending
      <3>1. trusts = Roles /\ (e = Server => Client \in met)
        BY <2>2, <2>4, <2>9 DEF Associated, Client, Server
      <3>2. Phases!Identify(e)
        BY <2>2, <2>3, <2>9, <3>1, SameRoles DEF Phases!Identify
      <3> QED
        BY <3>2, SameRoles DEF Phases!Next
    <2>10. CASE PhaseOf(s) = "identified" /\ PhaseOf(t) = "operational" /\ t = DataReady
      <3>1. met' = met /\ Phases!Other(e) \in met
        BY <2>2, <2>5, <2>10, SameRoles DEF Phases!Other, Peer, DataReady, Ready
      <3>2. Phases!Operate(e)
        BY <2>3, <2>10, <3>1 DEF Phases!Operate
      <3> QED
        BY <3>2, SameRoles DEF Phases!Next
    <2>11. CASE /\ PhaseOf(s) \in {"identifying", "identified", "operational"}
                /\ t = Idle /\ PhaseOf(t) = "down"
      <3>1. met' = met
        BY <2>2, <2>11 DEF Idle, Ready
      <3>2. Phases!Release(e)
        BY <2>3, <2>11, <3>1 DEF Phases!Release
      <3> QED
        BY <3>2, SameRoles DEF Phases!Next
    <2>12. CASE PhaseOf(s) = "operational" /\ PhaseOf(t) = "identified" /\ s = DataReady
      <3>1. met' = met
        BY <2>2, <2>6, <2>12 DEF Associated
      <3>2. Phases!Suspend(e)
        BY <2>3, <2>12, <3>1 DEF Phases!Suspend
      <3> QED
        BY <3>2, SameRoles DEF Phases!Next
    <2>13. t # Ready \/ s \in Associated => met' = met
      BY <2>2, <2>6
    <2> QED
      BY <2>1, <2>7, <2>8, <2>9, <2>10, <2>11, <2>12, <2>13, PhaseSteps
  <1> QED
    BY <1>1, <1>2 DEF ForceNewEventWith

LEMMA NextRefines == IInv /\ IInv' /\ [Next]_vars => [Phases!Next]_(Phases!vars)
  <1> SUFFICES ASSUME IInv, IInv', [Next]_vars PROVE [Phases!Next]_(Phases!vars)
    OBVIOUS
  <1>1. CASE Dial \/ Accept
    BY <1>1, ForceRefines DEF Dial, Accept, ForceNewEvent, Roles
  <1>2. ASSUME NEW e \in Roles, Down(e) \/ AfterSend(e) \/ Receive(e)
        PROVE  [Phases!Next]_(Phases!vars)
    BY <1>2, ForceRefines DEF Down, AfterSend, Receive, ForceNewEvent
  <1>3. ASSUME NEW e \in Roles, NEW t \in Timers, Timeout(e, t)
        PROVE  [Phases!Next]_(Phases!vars)
    BY <1>3, ForceRefines DEF Timeout, ForceNewEvent
  <1>4. ASSUME UNCHANGED <<state, trusts, met>> PROVE [Phases!Next]_(Phases!vars)
    BY <1>4 DEF Phases!vars
  <1>5. CASE Break \/ \E e \in Roles : BreakApart(e) \/ Write(e) \/ ChiefData(e)
    BY <1>4, <1>5 DEF Break, BreakApart, Write, ChiefData
  <1>6. ASSUME NEW e \in Roles, NEW t \in Timers, Expire(e, t)
        PROVE  [Phases!Next]_(Phases!vars)
    BY <1>4, <1>6 DEF Expire
  <1>7. CASE UNCHANGED vars
    BY <1>4, <1>7 DEF vars
  <1> QED
    BY <1>1, <1>2, <1>3, <1>5, <1>6, <1>7 DEF Next

\* The two channels implement the association of AssociationPhases.
THEOREM Refinement == Spec => PhasesSpec
  <1>1. Init => Phases!Init
    <2> SUFFICES ASSUME Init PROVE Phases!Init
      OBVIOUS
    <2>1. \A e \in Roles : PhaseOf(state[e]) = "down"
      <3>1. PhaseOf(Idle) = "down"
        BY DEF PhaseOf, Idle, ConPending, SysIdPending, IdPending, Ready, AssPending, DataReady
      <3> QED
        BY <3>1 DEF Init
    <2>2. trusts \in SUBSET Roles /\ met = {}
      BY DEF Init
    <2> QED
      BY <2>1, <2>2, SameRoles DEF Phases!Init
  <1>2. IInv /\ IInv' /\ [Next]_vars => [Phases!Next]_(Phases!vars)
    BY NextRefines
  <1> QED
    BY <1>1, <1>2, Invariance, PTL DEF Spec, PhasesSpec, Phases!Spec
=============================================================================
