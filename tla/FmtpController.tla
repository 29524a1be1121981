--------------------------- MODULE FmtpController ---------------------------
(***************************************************************************)
(* One StateController with what FmtpAssociation abstracts from: the       *)
(* goroutines of its timers (channel/fmtp_states/timer.go).                *)
(*                                                                         *)
(* startTimer starts a goroutine that makes a context, stores it and its   *)
(* cancel function in two fields, waits for the context that the field     *)
(* holds by then, and pushes the event of the timer if the context that    *)
(* the field holds AFTER the wait has met its deadline.  stopTimer calls   *)
(* the cancel function the field holds in another goroutine.  Nothing      *)
(* orders these goroutines.                                                *)
(*                                                                         *)
(* The three timers share no state: the model has the goroutines of one of *)
(* them, and takes the timeouts of the other two as coming at any moment.  *)
(* So come the reports of the transport (TcpTransport has their order) and *)
(* the messages of the peer, those read before a disconnect included.      *)
(***************************************************************************)
EXTENDS StateTransitionFuncs, Integers, Sequences, FiniteSets

CONSTANTS
  MaxRuns,    \* bound: goroutines of startTimer, and contexts in use, at once
  MaxLate,    \* bound: goroutines of the timer that are behind at once
  MaxOwed     \* bound: packets with an event waiting to be sent

ASSUME ControllerAssumption ==
  MaxRuns \in Nat \ {0} /\ MaxLate \in Nat \ {0} /\ MaxOwed \in Nat \ {0}

VARIABLES
  role,       \* of the TCP connection
  timer,      \* the timer that is modelled
  state,      \* currentState
  owed,       \* events after sending that the sendLoop has still to push
  runs,       \* the goroutines of startTimer
  ctx,        \* timerCtx: the goroutine that made it, or 0
  cancel,     \* timerCancel: likewise
  stops,      \* goroutines of stopTimer that have not run
  todo,       \* calls on the timer that the handler has still to make
  raced       \* the timer was called before its goroutines had settled (history)

endpoint  == <<role, timer, state, owed>>
timerVars == <<runs, ctx, cancel, stops>>
vars == <<endpoint, timerVars, todo, raced>>

Timers == {"Ti", "Ts", "Tr"}
TimeoutEvent == [Ti |-> "TiTimeout", Ts |-> "TsTimeout", Tr |-> "TrTimeout"]
Slots == 1..MaxRuns

\* A goroutine: its place, the context it waits for, what became of the one it
\* made, and whether the timer was called again after that one had expired.
Run(at, made) == [at |-> at, on |-> 0, made |-> made, stale |-> FALSE]

RemoteEvents == {"RIdValid", "RIdInvalid", "RAccept", "RReject", "RStartup", "RShutdown", "RHeartbeat", "RData"}

Init ==
  /\ role \in Roles /\ timer \in Timers
  /\ state = Idle /\ owed = <<>>
  /\ runs = [i \in Slots |-> Run("none", "none")] /\ ctx = 0 /\ cancel = 0 /\ stops = 0
  /\ todo = <<>> /\ raced = FALSE

(***************************************************************************)
(* forceNewEvent: the exit and the enter function queue packets and then   *)
(* make their calls on the timer, one after another.                       *)
(***************************************************************************)
Calls(effect) ==
  IF timer \in effect.restart THEN <<"restart">> ELSE IF timer \in effect.stop THEN <<"stop">> ELSE <<>>

AfterEventsOf(packets) ==
  LET timed == SelectSeq(packets, LAMBDA p : p.after # None) IN [i \in DOMAIN timed |-> timed[i].after]

ForceNewEvent(ev, queue) ==
  \/ /\ NextStates(role, state, ev) = {}
     /\ owed' = queue /\ UNCHANGED <<state, todo>>
  \/ \E next \in NextStates(role, state, ev) :
       LET exit == OnExit(role, state, ev)  enter == OnEnter(next) IN
       /\ state' = next
       /\ owed' = queue \o AfterEventsOf(exit.send \o enter.send) /\ Len(owed') <= MaxOwed
       /\ todo' = Calls(exit) \o Calls(enter)

(***************************************************************************)
(* The timer.                                                              *)
(***************************************************************************)
Starting  == {i \in Slots : runs[i].at \in {"new", "half"}}
Unsettled == stops > 0 \/ Starting # {}

\* The context that a goroutine waits for has ended.
Awake(i) == runs[i].at = "wait" /\ runs[runs[i].on].made # "open"

Free == {i \in Slots : /\ runs[i].at = "none" /\ i \notin {ctx, cancel}
                       /\ \A j \in Slots : runs[j].on # i}

\* timerCancel(), if there is one.
Cancelled(r) == IF cancel # 0 /\ r[cancel].made = "open" THEN [r EXCEPT ![cancel].made = "cancelled"] ELSE r

\* A call leaves the timeouts behind that wait to be taken.
Called(r) == [i \in Slots |-> [r[i] EXCEPT !.stale = @ \/ (r[i].at # "none" /\ r[i].made = "expired")]]

\* A mutant: the old context is not cancelled.
RestartedKeeping(r, i) == [r EXCEPT ![i] = Run("new", "none")]

\* restartTimer waits until the old context is cancelled, but not for the new
\* goroutine, nor for an earlier one of stopTimer or startTimer.
Restarted(r, i) == [Cancelled(r) EXCEPT ![i] = Run("new", "none")]

Call ==
  /\ todo # <<>> /\ todo' = Tail(todo) /\ stops + Cardinality(Starting) < MaxLate
  /\ raced' = (raced \/ Unsettled)
  /\ \/ Head(todo) = "stop" /\ stops' = stops + 1 /\ runs' = Called(runs)
     \/ /\ Head(todo) = "restart" /\ Free # {} /\ UNCHANGED stops
        /\ LET i == CHOOSE i \in Free : \A j \in Free : i <= j IN runs' = Restarted(Called(runs), i)
  /\ UNCHANGED <<endpoint, ctx, cancel>>

\* A mutant: the cancel function is not called.
StopTimerIdle ==
  /\ stops > 0 /\ stops' = stops - 1
  /\ UNCHANGED <<endpoint, runs, ctx, cancel, todo, raced>>

StopTimer ==
  /\ stops > 0 /\ stops' = stops - 1 /\ runs' = Cancelled(runs)
  /\ UNCHANGED <<endpoint, ctx, cancel, todo, raced>>

\* startTimer: context.WithTimeout and the first field; the second field; the
\* wait for what the first field holds by now.
StartTimer(i) ==
  /\ \/ runs[i].at = "new" /\ ctx' = i /\ runs' = [runs EXCEPT ![i] = Run("half", "open")] /\ UNCHANGED cancel
     \/ runs[i].at = "half" /\ cancel' = i /\ runs' = [runs EXCEPT ![i].at = "wait", ![i].on = ctx] /\ UNCHANGED ctx
  /\ UNCHANGED <<endpoint, stops, todo, raced>>

\* Err is asked of the context that the field holds now.
Wake(i) ==
  /\ Awake(i)
  /\ runs' = [runs EXCEPT ![i].at = IF runs[ctx].made = "expired" THEN "push" ELSE "none", ![i].on = 0]
  /\ UNCHANGED <<endpoint, ctx, cancel, stops, todo, raced>>

\* A deadline is met.  (The intervals are seconds: the goroutines that can run
\* have run by then.)
Expire(i) ==
  /\ runs[i].made = "open" /\ ~Unsettled /\ \A j \in Slots : ~Awake(j)
  /\ runs' = [runs EXCEPT ![i].made = "expired"]
  /\ UNCHANGED <<endpoint, ctx, cancel, stops, todo, raced>>

(***************************************************************************)
(* The select of Work.                                                     *)
(***************************************************************************)
InSelect == todo = <<>>

\* Bound: room for the two restarts that an event may bring.
Room == InSelect /\ Cardinality(Free) >= 2

\* connStateChan (a server's true brings LSetup, which its table ignores), or the
\* RSetup of a connection that the server has accepted.
Report ==
  /\ Room
  /\ \E ev \in {"RDisconnect", IF role = Client THEN "LSetup" ELSE "RSetup"} : ForceNewEvent(ev, owed)
  /\ UNCHANGED <<role, timer, timerVars, raced>>

AfterSend ==
  /\ Room /\ owed # <<>> /\ ForceNewEvent(Head(owed), Tail(owed))
  /\ UNCHANGED <<role, timer, timerVars, raced>>

ChiefData ==
  /\ Room /\ Len(owed) < MaxOwed /\ owed' = Append(owed, "LData")
  /\ UNCHANGED <<role, timer, state, timerVars, todo, raced>>

\* A mutant: the select has no case for the timer.
TimeoutUnheard(i) ==
  /\ InSelect /\ runs[i].at = "push" /\ timer # "Tr"
  /\ runs' = [runs EXCEPT ![i].at = "none"] /\ ForceNewEvent(TimeoutEvent[timer], owed)
  /\ UNCHANGED <<role, timer, ctx, cancel, stops, raced>>

Timeout(i) ==
  /\ InSelect /\ runs[i].at = "push"
  /\ runs' = [runs EXCEPT ![i].at = "none"] /\ ForceNewEvent(TimeoutEvent[timer], owed)
  /\ UNCHANGED <<role, timer, ctx, cancel, stops, raced>>

OtherTimeout(t) ==
  /\ Room /\ t # timer /\ ForceNewEvent(TimeoutEvent[t], owed)
  /\ UNCHANGED <<role, timer, timerVars, raced>>

\* processFmtpMessage.
Receive ==
  /\ Room /\ \E ev \in RemoteEvents : ForceNewEvent(ev, owed)
  /\ UNCHANGED <<role, timer, timerVars, raced>>

Next ==
  \/ Report \/ AfterSend \/ ChiefData \/ Receive \/ \E t \in Timers : OtherTimeout(t)
  \/ Call \/ StopTimer \/ \E i \in Slots : StartTimer(i) \/ Wake(i) \/ Expire(i) \/ Timeout(i)

Spec == Init /\ [][Next]_vars

(***************************************************************************)
(* Fairness.  The goroutines run, deadlines are met, and the select takes  *)
(* a case that is ready again and again.                                   *)
(***************************************************************************)
FairSpec ==
  /\ Spec
  /\ WF_vars(Call) /\ WF_vars(StopTimer)
  /\ \A i \in Slots : WF_vars(StartTimer(i) \/ Wake(i)) /\ SF_vars(Expire(i)) /\ SF_vars(Timeout(i))

(***************************************************************************)
(* Properties.                                                             *)
(***************************************************************************)
Waits(s) ==
  CASE s \in {SysIdPending, IdPending} -> {"Ti"}
    [] s = AssPending -> {"Tr"}
    [] s = DataReady  -> {"Tr", "Ts"}
    [] OTHER          -> {}

Live == {i \in Slots : runs[i].at # "none"}

\* Unless a call overtook its goroutines, a timer has one context that can still
\* expire at most, and it is the one that the next stop will cancel.
OneRunPerTimer ==
  \A i \in Slots : (runs[i].made = "open" /\ ~raced /\ ~Unsettled) => ctx = i /\ cancel = i

\* ... and a timeout that no later call meant to prevent is taken in a state that
\* waits with that timer only.
TimeoutsBelong ==
  [][\A i \in Slots : (Timeout(i) /\ ~raced /\ ~runs[i].stale) => timer \in Waits(state)]_vars

\* No goroutine of a timer stays for ever, overtaken or not: its context ends, and
\* the controller takes its timeout.
GoroutinesEnd == \A i \in Slots : (i \in Live) ~> (i \notin Live)
=============================================================================
