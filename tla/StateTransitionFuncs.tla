------------------------ MODULE StateTransitionFuncs ------------------------
(***************************************************************************)
(* The functions of channel/fmtp_states/states_transition_funcs.go that    *)
(* the controller calls when it leaves and enters a state: the packets     *)
(* they queue and the timers they restart and stop.  A packet is its kind, *)
(* the number of a data message, and the event after its sending.          *)
(***************************************************************************)
EXTENDS FmtpStateMachine

Control(kind, ev) == [kind |-> kind, n |-> 0, after |-> ev]

Effect(send, restart, stop) == [send |-> send, restart |-> restart, stop |-> stop]
NoEffect == Effect(<<>>, {}, {})

SysIdPendingExit(e, ev) ==
  IF ev = "RIdValid"
    THEN Effect(IF e = Server THEN <<Control("ident", None)>> ELSE <<>>, {"Ti"}, {})
    ELSE Effect(<<>>, {}, {"Ti"})

\* A mutant: the ACCEPT is queued with the event of a received one.
IdPendingExitEchoing(ev) ==
  Effect(IF ev = "RIdValid" THEN <<Control("accept", "RAccept")>> ELSE <<>>, {}, {"Ti"})

IdPendingExit(ev) ==
  Effect(CASE ev = "RIdValid"   -> <<Control("accept", None)>>
           [] ev = "RIdInvalid" -> <<Control("reject", None)>>
           [] OTHER             -> <<>>,
         {}, {"Ti"})

ReadyExit(ev) == Effect(<<>>, IF ev = "LStartup" THEN {"Tr"} ELSE {}, {})

\* A mutant: Tr is stopped, not restarted, when the STARTUP of the peer arrives.
AssPendingExitUntimed(ev) ==
  IF ev = "RStartup" THEN Effect(<<Control("startup", "LStartup")>>, {"Ts"}, {"Tr"})
                     ELSE Effect(<<>>, {}, {"Tr"})

AssPendingExit(ev) ==
  CASE ev \in {"LDisconnect", "LShutdown"} -> Effect(<<Control("shutdown", None)>>, {}, {"Tr"})
    [] ev = "TrTimeout" -> Effect(<<Control("startup", "LStartup")>>, {"Tr"}, {})
    [] ev = "RStartup"  -> Effect(<<Control("startup", "LStartup")>>, {"Tr", "Ts"}, {})
    [] OTHER            -> Effect(<<>>, {}, {"Tr"})

DataReadyExit(ev) ==
  CASE ev \in {"LDisconnect", "LShutdown"} ->
         Effect(<<Control("shutdown", None)>>, {}, {"Tr", "Ts"})
    [] ev \in {"RDisconnect", "TrTimeout"} -> Effect(<<>>, {}, {"Tr", "Ts"})
    [] ev = "LData"                        -> Effect(<<>>, {"Ts"}, {})
    [] ev = "TsTimeout"                    -> Effect(<<Control("heartbeat", None)>>, {"Ts"}, {})
    [] ev \in {"RData", "RHeartbeat"}      -> Effect(<<>>, {"Tr"}, {})
    [] ev = "RShutdown"                    -> Effect(<<>>, {"Tr"}, {"Ts"})
    [] OTHER                               -> NoEffect

OnExit(e, s, ev) ==
  CASE s = SysIdPending -> SysIdPendingExit(e, ev)
    [] s = IdPending    -> IdPendingExit(ev)
    [] s = Ready        -> ReadyExit(ev)
    [] s = AssPending   -> AssPendingExit(ev)
    [] s = DataReady    -> DataReadyExit(ev)
    [] OTHER            -> NoEffect

\* A mutant: ID_PENDING is entered without restarting Ti.
OnEnterUntimed(t) ==
  CASE t = SysIdPending -> Effect(<<>>, {"Ti"}, {})
    [] t = ConPending   -> Effect(<<Control("ident", "RSetup")>>, {}, {})
    [] t = Ready        -> Effect(<<Control("startup", "LStartup")>>, {}, {})
    [] OTHER            -> NoEffect

OnEnter(t) ==
  CASE t \in {SysIdPending, IdPending} -> Effect(<<>>, {"Ti"}, {})
    [] t = ConPending -> Effect(<<Control("ident", "RSetup")>>, {}, {})
    [] t = Ready      -> Effect(<<Control("startup", "LStartup")>>, {}, {})
    [] OTHER          -> NoEffect
=============================================================================
