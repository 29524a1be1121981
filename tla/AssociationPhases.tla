------------------------- MODULE AssociationPhases -------------------------
(***************************************************************************)
(* What an FMTP association promises its users, without connections,       *)
(* packets or timers: each endpoint climbs from "down" through             *)
(* identification to "operational" one phase at a time, may fall back to   *)
(* "down" whenever it likes, and                                           *)
(*   - completes identification only between endpoints that expect each    *)
(*     other, the server only after the client;                            *)
(*   - becomes operational only after the peer completed identification.   *)
(***************************************************************************)
EXTENDS FmtpStateMachine

VARIABLES phase, trusts, met

vars == <<phase, trusts, met>>

Other(e) == IF e = Client THEN Server ELSE Client

Init ==
  /\ phase = [e \in Roles |-> "down"]
  /\ trusts \in SUBSET Roles
  /\ met = {}

Move(e, from, to) == phase[e] = from /\ phase' = [phase EXCEPT ![e] = to]

Start(e) == Move(e, "down", "identifying") /\ UNCHANGED met

Identify(e) ==
  /\ trusts = Roles
  /\ e = Server => Client \in met
  /\ Move(e, "identifying", "identified")
  /\ met' = met \cup {e}

Operate(e) == Other(e) \in met /\ Move(e, "identified", "operational") /\ UNCHANGED met

\* Either side stops the exchange of data (SHUTDOWN).
Suspend(e) == Move(e, "operational", "identified") /\ UNCHANGED met

Release(e) ==
  \E from \in {"identifying", "identified", "operational"} :
    Move(e, from, "down") /\ UNCHANGED met

Next == (\E e \in Roles : Start(e) \/ Identify(e) \/ Operate(e) \/ Suspend(e) \/ Release(e))
          /\ UNCHANGED trusts

Spec == Init /\ [][Next]_vars
=============================================================================
