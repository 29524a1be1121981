---------------------------- MODULE OldiGrpcServer ----------------------------
(***************************************************************************)
(* The life of the gRPC server of the OLDI providers (chief/oldi/          *)
(* oldi_grpc_controller.go:48-82).  New settings with another port stop    *)
(* the server that runs, as the flag grpsServed tells, and start the next  *)
(* in a goroutine; that goroutine sets the flag, and c.grpcServer, only    *)
(* when it comes to it.  The servers are of the gRPC library: Stop closes  *)
(* the listeners of a server that serves, and has a later Serve return an  *)
(* error.                                                                  *)
(***************************************************************************)
EXTENDS Integers

CONSTANT MaxServers     \* bound: starts and servers at a time

ASSUME GrpcAssumption == MaxServers \in Nat \ {0}

VARIABLES
  grpcAddress,   \* the port, "none" at first
  grpsServed,
  grpcServer,    \* the slot of c.grpcServer, 0 if there is none or it has ended
  servers,       \* of each start: [at |-> where it is, port |-> what it listens on]; a slot that
                 \* has ended is used again
  portTaken,     \* a Listen has failed: Serve is called with no listener
  overtaken      \* history: an address changed while a start was under way

grpcVars == <<grpcAddress, grpsServed, grpcServer, servers, portTaken, overtaken>>

Ended == [at |-> "ended", port |-> "none"]

InitGrpc ==
  /\ grpcAddress = "none" /\ grpsServed = FALSE /\ grpcServer = 0
  /\ servers = [i \in 1..MaxServers |-> Ended]
  /\ portTaken = FALSE /\ overtaken = FALSE

Free      == {i \in DOMAIN servers : servers[i].at = "ended"}
Serving   == {i \in DOMAIN servers : servers[i].at = "serving"}
Listening == {i \in DOMAIN servers : servers[i].port # "none"}
Starting  == {i \in DOMAIN servers : servers[i].at \in {"listen", "make", "serve", "refused"}}

\* A mutant: stopGrpcServer forgets the server, and does not stop it.
StopGrpcServerForgetting == servers

\* Stop: the listener of a server that serves closes; one that does not serve yet
\* will be refused.
StopGrpcServer ==
  [i \in DOMAIN servers |->
     CASE i = grpcServer /\ servers[i].at = "serving" -> Ended
       [] i = grpcServer /\ servers[i].at = "serve"   -> [servers[i] EXCEPT !.at = "refused"]
       [] OTHER -> servers[i]]

\* The case of SettsChangedChan, with the port of the ChiefCfg of that moment.
SettsChanged(port) ==
  IF port = grpcAddress THEN UNCHANGED grpcVars
  ELSE /\ Free # {} /\ grpcAddress' = port
       /\ servers' = [IF grpsServed THEN StopGrpcServer ELSE servers
                       EXCEPT ![CHOOSE i \in Free : TRUE] = [at |-> "listen", port |-> "none"]]
       /\ overtaken' = (overtaken \/ Starting # {})
       /\ grpcServer' = IF grpsServed /\ grpcServer \in Serving THEN 0 ELSE grpcServer
       /\ UNCHANGED <<grpsServed, portTaken>>

\* startGrpcServer: Listen on the address of this moment; NewServer, and the
\* flag; Serve, which panics without a listener.
StartListen(i) ==
  /\ servers[i].at = "listen"
  /\ LET busy == grpcAddress # "any" /\ \E j \in Listening : servers[j].port = grpcAddress IN
     servers' = [servers EXCEPT ![i] = [at |-> "make", port |-> IF busy THEN "none" ELSE grpcAddress]]
  /\ UNCHANGED <<grpcAddress, grpsServed, grpcServer, portTaken, overtaken>>

StartMake(i) ==
  /\ servers[i].at = "make" /\ servers' = [servers EXCEPT ![i].at = "serve"]
  /\ grpcServer' = i /\ grpsServed' = TRUE
  /\ UNCHANGED <<grpcAddress, portTaken, overtaken>>

StartServe(i) ==
  \/ /\ servers[i].at = "serve"
     /\ servers' = [servers EXCEPT ![i].at = "serving"] /\ portTaken' = (servers[i].port = "none")
     /\ UNCHANGED <<grpcAddress, grpsServed, grpcServer, overtaken>>
  \/ /\ servers[i].at = "refused"
     /\ servers' = [servers EXCEPT ![i] = Ended] /\ grpsServed' = FALSE
     /\ grpcServer' = IF grpcServer = i THEN 0 ELSE grpcServer
     /\ UNCHANGED <<grpcAddress, portTaken, overtaken>>

StartGrpcServer == \E i \in DOMAIN servers : StartListen(i) \/ StartMake(i) \/ StartServe(i)

\* Unless an address changed while a start was under way, one server listens when
\* the starts are over, and on the address that the controller holds.
OneServer ==
  ~overtaken /\ Starting = {} /\ grpcAddress # "none"
    => \E i \in Listening : Listening = {i} /\ servers[i] = [at |-> "serving", port |-> grpcAddress]
=============================================================================
