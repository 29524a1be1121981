---------------------------- MODULE MessagePath ----------------------------
(***************************************************************************)
(* What a way of messages through the chief promises to the two who use    *)
(* it, without goroutines and Go channels: one queue with a limit.  The    *)
(* messages are numbered as they enter at its end; they come out at its    *)
(* head, one by one, in this order, and nothing happens to them between.   *)
(* Who wants to put one into a full queue waits.                           *)
(***************************************************************************)
EXTENDS Naturals, Sequences

CONSTANT Limit

VARIABLES entered, way, out

vars == <<entered, way, out>>

Init == entered = 0 /\ way = <<>> /\ out = <<>>

Enter ==
  /\ Len(way) < Limit
  /\ entered' = entered + 1 /\ way' = Append(way, entered')
  /\ UNCHANGED out

Leave ==
  /\ way # <<>>
  /\ out' = Append(out, Head(way)) /\ way' = Tail(way)
  /\ UNCHANGED entered

Next == Enter \/ Leave

Spec == Init /\ [][Next]_vars
=============================================================================
