------------------------- MODULE FmtpStateMachine -------------------------
(***************************************************************************)
(* The FMTP state machine of fmtp/fmtp_state_machine.go: which state an    *)
(* endpoint moves to on an event, for the two TCP roles.  The table is a   *)
(* relation, because GetNextState ranges over a Go map of target states    *)
(* and returns the first one that lists the event: were an event listed    *)
(* under two targets, the target taken would be arbitrary.                 *)
(***************************************************************************)

Client == "client"
Server == "server"
Roles  == {Client, Server}

Idle         == "idle"
ConPending   == "connection_pending"
SysIdPending == "system_id_pending"
IdPending    == "id_pending"
Ready        == "ready"
AssPending   == "ass_pending"
DataReady    == "data_ready"

\* Disabled is left out: no event leads to it.
States == {Idle, ConPending, SysIdPending, IdPending, Ready, AssPending, DataReady}

(* Local, remote and timeout events.  None is "no event".                  *)
None   == "none"
Events == {"LSetup", "RSetup", "LDisconnect", "RDisconnect", "LData",
           "LShutdown", "LStartup", "RData", "RAccept", "RReject", "RIdValid",
           "RIdInvalid", "RHeartbeat", "RShutdown", "RStartup",
           "TsTimeout", "TrTimeout", "TiTimeout"}

Disconnects == {"LDisconnect", "RDisconnect"}

ClientEdge(s, ev, t) ==
  \/ s = Idle       /\ t = ConPending /\ ev = "LSetup"
  \/ s = Idle       /\ t = Idle       /\ ev \in Disconnects
  \/ s = ConPending /\ t = IdPending  /\ ev = "RSetup"
  \/ s = ConPending /\ t = Idle
       /\ ev \in Disconnects \cup
            {"LData", "LShutdown", "LStartup", "RData", "RAccept", "RReject",
             "RHeartbeat", "RShutdown", "RStartup", "TiTimeout"}
  \/ s = IdPending  /\ t = Ready      /\ ev = "RIdValid"
  \/ s = IdPending  /\ t = Idle
       /\ ev \in Disconnects \cup
            {"RReject", "RAccept", "RIdInvalid", "RData", "RHeartbeat",
             "RShutdown", "RStartup", "TiTimeout", "LData", "LShutdown", "LStartup"}

ServerEdge(s, ev, t) ==
  \/ s = Idle         /\ t = SysIdPending /\ ev = "RSetup"
  \/ s = Idle         /\ t = Idle         /\ ev \in Disconnects
  \/ s = SysIdPending /\ t = IdPending    /\ ev = "RIdValid"
  \/ s = SysIdPending /\ t = SysIdPending /\ ev = "RSetup"
  \/ s = SysIdPending /\ t = Idle
       /\ ev \in Disconnects \cup
            {"RAccept", "RReject", "TiTimeout", "RData", "RIdInvalid",
             "RHeartbeat", "RShutdown", "RStartup"}
  \/ s = IdPending    /\ t = Ready        /\ ev = "RAccept"
  \/ s = IdPending    /\ t = Idle
       /\ ev \in Disconnects \cup
            {"RData", "RReject", "RHeartbeat", "RShutdown", "RStartup", "TiTimeout"}

CommonEdge(s, ev, t) ==
  \/ s = Ready      /\ t = AssPending /\ ev = "LStartup"
  \/ s = Ready      /\ t = Idle       /\ ev \in Disconnects
  \/ s = Ready      /\ t = Ready      /\ ev = "LShutdown"
  \/ s = AssPending /\ t = Ready      /\ ev = "LShutdown"
  \/ s = AssPending /\ t = DataReady  /\ ev = "RStartup"
  \/ s = AssPending /\ t = Idle       /\ ev \in Disconnects
  \/ s = AssPending /\ t = AssPending /\ ev = "TiTimeout"
  \/ s = DataReady  /\ t = AssPending /\ ev = "RShutdown"
  \/ s = DataReady  /\ t = Ready      /\ ev = "LShutdown"
  \/ s = DataReady  /\ t = Idle       /\ ev \in Disconnects \cup {"TrTimeout"}
  \/ s = DataReady  /\ t = DataReady
       /\ ev \in {"LData", "RData", "RHeartbeat", "TsTimeout"}

Edge(role, s, ev, t) ==
  \/ role = Client /\ ClientEdge(s, ev, t)
  \/ role = Server /\ ServerEdge(s, ev, t)
  \/ CommonEdge(s, ev, t)

\* Every state GetNextState may return; the empty set is the code's Empt.
NextStates(role, s, ev) == {t \in States : Edge(role, s, ev, t)}
=============================================================================
