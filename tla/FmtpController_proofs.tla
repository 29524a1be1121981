------------------------ MODULE FmtpController_proofs ------------------------
(***************************************************************************)
(* Theorems about FmtpController, for every value of its bounds: what the  *)
(* goroutines of a timer may leave behind, and in which states a timeout   *)
(* is taken.  At the end, theorems about the receive buffer of the         *)
(* controller, FmtpFraming: which packets get through it undamaged.        *)
(***************************************************************************)
EXTENDS FmtpController, FmtpFraming, SequenceTheorems, TLAPS

(***************************************************************************)
(* Types.  A goroutine that is past its first field has set it.            *)
(***************************************************************************)
Goroutine == [at : {"none", "new", "half", "wait", "push"}, on : 0..MaxRuns,
              made : {"none", "open", "cancelled", "expired"}, stale : BOOLEAN]

CallNames == {"stop", "restart"}

Typed ==
  /\ role \in Roles /\ timer \in Timers /\ state \in States
  /\ runs \in [Slots -> Goroutine]
  /\ ctx \in 0..MaxRuns /\ cancel \in 0..MaxRuns /\ stops \in Nat /\ raced \in BOOLEAN
  /\ todo \in Seq(CallNames)
  /\ \A i \in Slots : runs[i].at \in {"half", "wait"} => ctx # 0

\* At most one context is open, the one in both fields (the second field may have to
\* be set yet); nothing is open while a goroutine has its context still to make.
OneContext ==
  /\ \A i \in Slots : runs[i].made = "open" => ctx = i /\ (cancel = i \/ runs[i].at = "half")
  /\ \A i \in Slots : runs[i].at = "half" => runs[i].made = "open"
  /\ \A i, j \in Slots : runs[i].at = "new" => runs[j].made # "open"
  /\ \A i, j \in Starting : i = j
  /\ stops > 0 => Starting = {}

\* A goroutine waits for its own context, and pushes if that one has expired.
OwnContext ==
  \A i \in Slots :
    /\ runs[i].at = "wait" => runs[i].on = i /\ runs[i].made # "none"
    /\ runs[i].at = "wait" /\ runs[i].made = "cancelled" => runs[ctx].made # "expired"
    /\ runs[i].at = "push" => runs[i].made = "expired"

(***************************************************************************)
(* The state waits with the timer.  A restart that comes last is one of    *)
(* such a state; without calls to make, so is every state with a context   *)
(* that nobody is about to cancel.                                         *)
(***************************************************************************)
Wanted == timer \in Waits(state)

TodoEnds == todo # <<>> /\ todo[Len(todo)] = "restart" => Wanted

RunsWanted ==
  todo = <<>> =>
    /\ Starting # {} => Wanted
    /\ \A i \in Slots : stops = 0 /\ runs[i].made = "open" => Wanted
    /\ \A i \in Slots : runs[i].at # "none" /\ runs[i].made = "expired" /\ ~runs[i].stale => Wanted

IInv == Typed /\ TodoEnds /\ (~raced => OneContext /\ OwnContext /\ RunsWanted)

LEMMA InitGood == Init => IInv
  <1> SUFFICES ASSUME Init
               PROVE  IInv
    OBVIOUS
  <1>1. \A i \in Slots : runs[i] = [at |-> "none", on |-> 0, made |-> "none", stale |-> FALSE]
    BY DEF Init, Run
  <1>2. runs \in [Slots -> Goroutine]
    <2>1. [at |-> "none", on |-> 0, made |-> "none", stale |-> FALSE] \in Goroutine
      BY ControllerAssumption DEF Goroutine
    <2> QED
      BY <2>1 DEF Init, Run
  <1>3. Starting = {}
    BY <1>1 DEF Starting
  <1>4. Typed
    <2>1. 0 \in 0..MaxRuns /\ <<>> \in Seq(CallNames)
      BY ControllerAssumption
    <2>2. Idle \in States
      BY DEF States
    <2>3. raced \in BOOLEAN
      BY DEF Init
    <2>4. \A i \in Slots : runs[i].at = "none"
      BY <1>1
    <2> QED
      BY <1>2, <2>1, <2>2, <2>3, <2>4 DEF Init, Typed
  <1>5. OneContext /\ OwnContext /\ RunsWanted
    BY <1>1, <1>3 DEF OneContext, OwnContext, RunsWanted
  <1> QED
    BY <1>4, <1>5 DEF IInv, TodoEnds, Init

(***************************************************************************)
(* What the calls do to the goroutines.                                    *)
(***************************************************************************)
LEMMA CancelledRuns ==
  ASSUME Typed, NEW r \in [Slots -> Goroutine]
  PROVE  /\ Cancelled(r) \in [Slots -> Goroutine]
         /\ \A i \in Slots :
              /\ Cancelled(r)[i].at = r[i].at /\ Cancelled(r)[i].on = r[i].on
              /\ Cancelled(r)[i].stale = r[i].stale
              /\ Cancelled(r)[i].made = IF i = cancel /\ r[i].made = "open" THEN "cancelled" ELSE r[i].made
  <1>1. CASE cancel # 0 /\ r[cancel].made = "open"
    <2>1. cancel \in Slots
      BY <1>1 DEF Typed, Slots
    <2>2. Cancelled(r) = [r EXCEPT ![cancel] = [r[cancel] EXCEPT !.made = "cancelled"]]
      BY <1>1 DEF Cancelled
    <2>3. \A i \in Slots : r[i] \in Goroutine
      OBVIOUS
    <2>4. [r[cancel] EXCEPT !.made = "cancelled"] \in Goroutine
      BY <2>1, <2>3 DEF Goroutine
    <2>5. /\ [r[cancel] EXCEPT !.made = "cancelled"].at = r[cancel].at
          /\ [r[cancel] EXCEPT !.made = "cancelled"].on = r[cancel].on
          /\ [r[cancel] EXCEPT !.made = "cancelled"].stale = r[cancel].stale
          /\ [r[cancel] EXCEPT !.made = "cancelled"].made = "cancelled"
      BY <2>1, <2>3 DEF Goroutine
    <2> QED
      BY <1>1, <2>1, <2>2, <2>4, <2>5
  <1>2. CASE ~(cancel # 0 /\ r[cancel].made = "open")
    <2>1. Cancelled(r) = r
      BY <1>2 DEF Cancelled
    <2>2. 0 \notin Slots
      BY DEF Slots
    <2> QED
      BY <1>2, <2>1, <2>2
  <1> QED
    BY <1>1, <1>2

LEMMA CalledRuns ==
  ASSUME Typed
  PROVE  /\ Called(runs) \in [Slots -> Goroutine]
         /\ \A i \in Slots :
              /\ Called(runs)[i].at = runs[i].at /\ Called(runs)[i].on = runs[i].on
              /\ Called(runs)[i].made = runs[i].made
              /\ runs[i].at # "none" /\ runs[i].made = "expired" => Called(runs)[i].stale = TRUE
  <1> SUFFICES ASSUME NEW i \in Slots
               PROVE  /\ Called(runs)[i] \in Goroutine
                      /\ Called(runs)[i].at = runs[i].at /\ Called(runs)[i].on = runs[i].on
                      /\ Called(runs)[i].made = runs[i].made
                      /\ runs[i].at # "none" /\ runs[i].made = "expired" => Called(runs)[i].stale = TRUE
    BY DEF Called
  <1> DEFINE stale == runs[i].stale \/ (runs[i].at # "none" /\ runs[i].made = "expired")
  <1>1. Called(runs)[i] = [runs[i] EXCEPT !.stale = stale]
    BY DEF Called
  <1>2. runs[i] \in Goroutine /\ stale \in BOOLEAN
    BY DEF Typed, Goroutine
  <1>3. runs[i].at # "none" /\ runs[i].made = "expired" => stale = TRUE
    OBVIOUS
  <1> HIDE DEF stale
  <1> QED
    BY <1>1, <1>2, <1>3 DEF Goroutine

LEMMA RestartedRuns ==
  ASSUME Typed, NEW k
  PROVE  /\ Restarted(Called(runs), k) \in [Slots -> Goroutine]
         /\ \A i \in Slots :
              i = k => Restarted(Called(runs), k)[i] = [at |-> "new", on |-> 0, made |-> "none", stale |-> FALSE]
         /\ \A i \in Slots : i # k =>
              /\ Restarted(Called(runs), k)[i].at = runs[i].at /\ Restarted(Called(runs), k)[i].on = runs[i].on
              /\ Restarted(Called(runs), k)[i].made
                   = IF i = cancel /\ runs[i].made = "open" THEN "cancelled" ELSE runs[i].made
              /\ runs[i].at # "none" /\ runs[i].made = "expired" => Restarted(Called(runs), k)[i].stale = TRUE
  <1> DEFINE c == Cancelled(Called(runs))
             new == [at |-> "new", on |-> 0, made |-> "none", stale |-> FALSE]
  <1>1. new \in Goroutine
    BY ControllerAssumption DEF Goroutine
  <1>2. /\ c \in [Slots -> Goroutine]
        /\ \A i \in Slots :
             /\ c[i].at = runs[i].at /\ c[i].on = runs[i].on
             /\ c[i].made = IF i = cancel /\ runs[i].made = "open" THEN "cancelled" ELSE runs[i].made
             /\ runs[i].at # "none" /\ runs[i].made = "expired" => c[i].stale = TRUE
    <2>1. /\ Called(runs) \in [Slots -> Goroutine]
          /\ \A i \in Slots :
               /\ Called(runs)[i].at = runs[i].at /\ Called(runs)[i].on = runs[i].on
               /\ Called(runs)[i].made = runs[i].made
               /\ runs[i].at # "none" /\ runs[i].made = "expired" => Called(runs)[i].stale = TRUE
      BY CalledRuns
    <2> DEFINE r == Called(runs)
    <2> HIDE DEF r
    <2>2. /\ Cancelled(r) \in [Slots -> Goroutine]
          /\ \A i \in Slots :
               /\ Cancelled(r)[i].at = r[i].at /\ Cancelled(r)[i].on = r[i].on
               /\ Cancelled(r)[i].stale = r[i].stale
               /\ Cancelled(r)[i].made = IF i = cancel /\ r[i].made = "open" THEN "cancelled" ELSE r[i].made
      BY <2>1, CancelledRuns DEF r
    <2> QED
      BY <2>1, <2>2 DEF r
  <1>3. Restarted(Called(runs), k) = [c EXCEPT ![k] = new]
    BY DEF Restarted, Run
  <1> HIDE DEF c, new
  <1>4. \A i \in Slots : [c EXCEPT ![k] = new][i] = IF i = k THEN new ELSE c[i]
    BY <1>2
  <1>5. [c EXCEPT ![k] = new] \in [Slots -> Goroutine]
    BY <1>1, <1>2
  <1> QED
    BY <1>2, <1>3, <1>4, <1>5 DEF new

(***************************************************************************)
(* What an event makes of the state and of the calls.                      *)
(***************************************************************************)
\* The functions of a transition restart the timer last only into a state that waits
\* with it, and a state that waits with it is left only with a call on it.
LEMMA TimerOfTransition ==
  ASSUME NEW r \in Roles, NEW s \in States, NEW ev, NEW t \in NextStates(r, s, ev), NEW x \in Timers
  PROVE  /\ OnEnter(t).stop = {}
         /\ x \in OnEnter(t).restart => x \in Waits(t)
         /\ x \in OnExit(r, s, ev).restart => x \in Waits(t)
         /\ x \in Waits(s) /\ x \notin OnExit(r, s, ev).restart \cup OnExit(r, s, ev).stop => x \in Waits(t)
  <1>1. t \in States /\ Edge(r, s, ev, t)
    BY DEF NextStates
  <1>2. OnEnter(t).stop = {} /\ (x \in OnEnter(t).restart => x \in Waits(t))
    BY DEF OnEnter, Effect, NoEffect, Waits, Idle, ConPending, SysIdPending, IdPending, Ready, AssPending, DataReady
  <1>3. ASSUME s \in {Idle, ConPending, Ready}
        PROVE  /\ x \in OnExit(r, s, ev).restart => x \in Waits(t)
               /\ x \notin Waits(s)
    BY <1>1, <1>3 DEF OnExit, ReadyExit, Effect, NoEffect, Waits, Edge, ClientEdge, ServerEdge, CommonEdge,
       Idle, ConPending, SysIdPending, IdPending, Ready, AssPending, DataReady, Disconnects
  <1>4. ASSUME s \in {SysIdPending, IdPending}
        PROVE  /\ x \in OnExit(r, s, ev).restart => x \in Waits(t)
               /\ x \in Waits(s) => x \in OnExit(r, s, ev).restart \cup OnExit(r, s, ev).stop
    BY <1>1, <1>4 DEF OnExit, SysIdPendingExit, IdPendingExit, Effect, NoEffect, Waits, Edge, ClientEdge, ServerEdge,
       CommonEdge, Idle, ConPending, SysIdPending, IdPending, Ready, AssPending, DataReady, Disconnects
  <1>5. ASSUME s = AssPending
        PROVE  /\ x \in OnExit(r, s, ev).restart => x \in Waits(t)
               /\ x \in Waits(s) => x \in OnExit(r, s, ev).restart \cup OnExit(r, s, ev).stop
    BY <1>1, <1>5 DEF OnExit, AssPendingExit, Effect, NoEffect, Waits, Edge, ClientEdge, ServerEdge,
       CommonEdge, Idle, ConPending, SysIdPending, IdPending, Ready, AssPending, DataReady, Disconnects
  <1>6. ASSUME s = DataReady
        PROVE  /\ x \in OnExit(r, s, ev).restart => x \in Waits(t)
               /\ x \in Waits(s) /\ x \notin OnExit(r, s, ev).restart \cup OnExit(r, s, ev).stop => x \in Waits(t)
    BY <1>1, <1>6 DEF OnExit, DataReadyExit, Effect, NoEffect, Waits, Edge, ClientEdge, ServerEdge,
       CommonEdge, Idle, ConPending, SysIdPending, IdPending, Ready, AssPending, DataReady, Disconnects
  <1> QED
    BY <1>2, <1>3, <1>4, <1>5, <1>6 DEF States

LEMMA TwoCalls ==
  ASSUME NEW a \in {<<>>, <<"stop">>, <<"restart">>}, NEW b \in {<<>>, <<"stop">>, <<"restart">>}
  PROVE  /\ a \o b \in Seq(CallNames)
         /\ a \o b = <<>> => a = <<>> /\ b = <<>>
         /\ a \o b # <<>> /\ (a \o b)[Len(a \o b)] = "restart" =>
              b = <<"restart">> \/ (b = <<>> /\ a = <<"restart">>)
  <1> DEFINE c == a \o b
  <1>1. a \in Seq(CallNames) /\ b \in Seq(CallNames)
    <2>1. <<>> \in Seq(CallNames)
      OBVIOUS
    <2>2. \A x \in CallNames : <<x>> \in Seq(CallNames)
      OBVIOUS
    <2>3. <<"stop">> \in Seq(CallNames) /\ <<"restart">> \in Seq(CallNames)
      BY <2>2 DEF CallNames
    <2> QED
      BY <2>1, <2>3
  <1>2. /\ c \in Seq(CallNames) /\ Len(c) = Len(a) + Len(b)
        /\ \A i \in 1..Len(a) + Len(b) : c[i] = IF i <= Len(a) THEN a[i] ELSE b[i - Len(a)]
    BY <1>1, ConcatProperties
  <1>3. c = <<>> => Len(c) = 0
    OBVIOUS
  <1> HIDE DEF c
  <1>4. /\ Len(a) = IF a = <<>> THEN 0 ELSE 1
        /\ Len(b) = IF b = <<>> THEN 0 ELSE 1
        /\ a # <<>> => a = <<a[1]>>
        /\ b # <<>> => b = <<b[1]>>
    OBVIOUS
  <1>5. CASE b # <<>>
    <2>1. Len(c) \in 1..Len(a) + Len(b) /\ c[Len(c)] = b[1]
      BY <1>2, <1>4, <1>5
    <2> QED
      BY <1>2, <1>3, <1>4, <1>5, <2>1 DEF c
  <1>6. CASE b = <<>> /\ a # <<>>
    <2>1. Len(c) \in 1..Len(a) + Len(b) /\ c[Len(c)] = a[1]
      BY <1>2, <1>4, <1>6
    <2> QED
      BY <1>2, <1>3, <1>4, <1>6, <2>1 DEF c
  <1>7. CASE b = <<>> /\ a = <<>>
    BY <1>2, <1>4, <1>7 DEF c
  <1> QED
    BY <1>5, <1>6, <1>7

\* A turn of the select that handles an event; it may take the timeout of one goroutine.
LEMMA EventGood ==
  ASSUME IInv, NEW ev, NEW queue, InSelect, ForceNewEvent(ev, queue),
         UNCHANGED <<role, timer, ctx, cancel, stops, raced>>,
         runs' = runs \/ \E i \in Slots : runs[i].at = "push" /\ runs' = [runs EXCEPT ![i].at = "none"]
  PROVE  IInv'
  <1>1. todo = <<>> /\ Typed
    BY DEF InSelect, IInv
  <1>2. /\ runs' \in [Slots -> Goroutine]
        /\ \A i \in Slots :
             /\ runs'[i].on = runs[i].on /\ runs'[i].made = runs[i].made /\ runs'[i].stale = runs[i].stale
             /\ runs'[i].at = runs[i].at \/ (runs[i].at = "push" /\ runs'[i].at = "none")
    <2>1. CASE runs' = runs
      BY <1>1, <2>1 DEF Typed
    <2>2. ASSUME NEW i \in Slots, runs[i].at = "push", runs' = [runs EXCEPT ![i].at = "none"]
          PROVE  <1>2
      BY <1>1, <2>2 DEF Typed, Goroutine
    <2> QED
      BY <2>1, <2>2
  <1>3. /\ state' \in States /\ todo' \in Seq(CallNames)
        /\ todo' = <<>> /\ Wanted => Wanted'
        /\ TodoEnds'
    <2>1. CASE UNCHANGED <<state, todo>>
      BY <1>1, <2>1 DEF Typed, TodoEnds, Wanted
    <2>2. CASE ~UNCHANGED <<state, todo>>
      <3>1. PICK t \in NextStates(role, state, ev) :
              state' = t /\ todo' = Calls(OnExit(role, state, ev)) \o Calls(OnEnter(t))
        BY <2>2 DEF ForceNewEvent
      <3> DEFINE a == Calls(OnExit(role, state, ev))
                 b == Calls(OnEnter(t))
      <3>2. /\ a \in {<<>>, <<"stop">>, <<"restart">>} /\ b \in {<<>>, <<"stop">>, <<"restart">>}
            /\ a = <<"restart">> => timer \in OnExit(role, state, ev).restart
            /\ a = <<>> => timer \notin OnExit(role, state, ev).restart \cup OnExit(role, state, ev).stop
            /\ b = <<"restart">> => timer \in OnEnter(t).restart
        BY DEF Calls
      <3>3. /\ a = <<"restart">> => timer \in Waits(t)
            /\ b = <<"restart">> => timer \in Waits(t)
            /\ a = <<>> /\ timer \in Waits(state) => timer \in Waits(t)
        BY <1>1, <3>2, TimerOfTransition DEF Typed
      <3> HIDE DEF a, b
      <3>4. /\ a \o b \in Seq(CallNames)
            /\ a \o b = <<>> => a = <<>> /\ b = <<>>
            /\ a \o b # <<>> /\ (a \o b)[Len(a \o b)] = "restart" =>
                 b = <<"restart">> \/ (b = <<>> /\ a = <<"restart">>)
        BY <3>2, TwoCalls
      <3>5. todo' = a \o b /\ state' = t /\ t \in States /\ timer' = timer
        BY <3>1 DEF a, b, NextStates
      <3> QED
        BY <3>3, <3>4, <3>5 DEF Wanted, TodoEnds
    <2> QED
      BY <2>1, <2>2
  <1>4. Typed'
    BY <1>1, <1>2, <1>3 DEF Typed
  <1>5. ASSUME ~raced, OneContext, OwnContext, RunsWanted
        PROVE  OneContext' /\ OwnContext' /\ RunsWanted'
    <2>1. Starting' = Starting
      BY <1>2 DEF Starting
    <2>2. OneContext'
      BY <1>2, <1>5, <2>1 DEF OneContext
    <2>3. OwnContext'
      <3>1. \A i \in Slots : runs'[i].at = "wait" => runs'[ctx].made = runs[ctx].made
        BY <1>1, <1>2 DEF Typed, Slots
      <3> QED
        BY <1>2, <1>5, <3>1 DEF OwnContext
    <2>4. RunsWanted'
      BY <1>1, <1>2, <1>3, <1>5, <2>1 DEF RunsWanted
    <2> QED
      BY <2>2, <2>3, <2>4
  <1> QED
    BY <1>3, <1>4, <1>5 DEF IInv

(***************************************************************************)
(* The calls on the timer, and its goroutines.                             *)
(***************************************************************************)
LEMMA NextCall ==
  ASSUME Typed, todo # <<>>
  PROVE  /\ Tail(todo) \in Seq(CallNames)
         /\ Tail(todo) # <<>> => Tail(todo)[Len(Tail(todo))] = todo[Len(todo)]
         /\ Tail(todo) = <<>> => Head(todo) = todo[Len(todo)]
  <1> DEFINE t == Tail(todo)
  <1>1. todo \in Seq(CallNames) /\ Len(todo) \in Nat /\ Len(todo) # 0
    BY LenProperties DEF Typed
  <1>2. /\ t \in Seq(CallNames) /\ Len(t) = Len(todo) - 1
        /\ \A i \in 1..Len(t) : t[i] = todo[i + 1]
    BY <1>1, HeadTailProperties
  <1>3. Head(todo) = todo[1]
    BY <1>1
  <1>4. t = <<>> <=> Len(t) = 0
    BY <1>2, EmptySeq
  <1> HIDE DEF t
  <1>5. CASE t = <<>>
    BY <1>1, <1>2, <1>3, <1>4, <1>5 DEF t
  <1>6. CASE t # <<>>
    <2>1. Len(t) \in 1..Len(t)
      BY <1>1, <1>2, <1>4, <1>6
    <2> QED
      BY <1>1, <1>2, <1>6, <2>1 DEF t
  <1> QED
    BY <1>5, <1>6

LEMMA CallGood ==
  ASSUME IInv, Call
  PROVE  IInv'
  <1>1. /\ Typed /\ todo # <<>> /\ todo' = Tail(todo)
        /\ raced' = (raced \/ Unsettled)
        /\ UNCHANGED <<role, timer, state, ctx, cancel>>
    BY DEF IInv, Call, endpoint
  <1>2. /\ todo' \in Seq(CallNames) /\ TodoEnds'
        /\ todo' = <<>> /\ Head(todo) = "restart" => Wanted'
    BY <1>1, NextCall DEF IInv, TodoEnds, Wanted
  <1>3. ~raced' => ~raced /\ stops = 0 /\ Starting = {}
    <2>1. ~raced' => ~raced /\ ~Unsettled
      BY <1>1
    <2>2. ~Unsettled => stops = 0 /\ Starting = {}
      BY <1>1 DEF Unsettled, Typed
    <2> QED
      BY <2>1, <2>2
  <1>4. raced' \in BOOLEAN
    BY <1>1 DEF Typed
  <1>5. CASE Head(todo) = "stop" /\ stops' = stops + 1 /\ runs' = Called(runs)
    <2>1. /\ runs' \in [Slots -> Goroutine]
          /\ \A i \in Slots :
               /\ runs'[i].at = runs[i].at /\ runs'[i].on = runs[i].on
               /\ runs'[i].made = runs[i].made
               /\ runs[i].at # "none" /\ runs[i].made = "expired" => runs'[i].stale = TRUE
      BY <1>1, <1>5, CalledRuns
    <2>2. stops' \in Nat /\ stops' # 0
      BY <1>1, <1>5 DEF Typed
    <2>3. Typed'
      BY <1>1, <1>2, <1>4, <2>1, <2>2 DEF Typed
    <2>4. Starting' = Starting
      BY <2>1 DEF Starting
    <2>5. ASSUME ~raced', OneContext, OwnContext
          PROVE  OneContext' /\ OwnContext' /\ RunsWanted'
      <3>1. OneContext'
        BY <1>1, <1>3, <2>1, <2>4, <2>5 DEF OneContext
      <3>2. OwnContext'
        <4>1. \A i \in Slots : runs'[i].at = "wait" => runs'[ctx].made = runs[ctx].made
          BY <1>1, <2>1 DEF Typed, Slots
        <4> QED
          BY <1>1, <2>1, <2>5, <4>1 DEF OwnContext
      <3>3. RunsWanted'
        BY <1>3, <2>1, <2>2, <2>4, <2>5 DEF RunsWanted
      <3> QED
        BY <3>1, <3>2, <3>3
    <2> QED
      BY <1>2, <1>3, <2>3, <2>5 DEF IInv
  <1>6. ASSUME NEW k, Head(todo) = "restart", stops' = stops, runs' = Restarted(Called(runs), k)
        PROVE  IInv'
    <2>1. /\ runs' \in [Slots -> Goroutine]
          /\ \A i \in Slots :
               i = k => runs'[i] = [at |-> "new", on |-> 0, made |-> "none", stale |-> FALSE]
          /\ \A i \in Slots : i # k =>
               /\ runs'[i].at = runs[i].at /\ runs'[i].on = runs[i].on
               /\ runs'[i].made = IF i = cancel /\ runs[i].made = "open" THEN "cancelled" ELSE runs[i].made
      BY <1>1, <1>6, RestartedRuns
    <2>2. \A i \in Slots : runs'[i].at \in {"half", "wait"} => runs[i].at = runs'[i].at
      BY <2>1
    <2>3. Typed'
      BY <1>1, <1>2, <1>4, <1>6, <2>1, <2>2 DEF Typed
    <2>4. ASSUME ~raced', OneContext, OwnContext
          PROVE  OneContext' /\ OwnContext' /\ RunsWanted'
      <3>1. \A i \in Slots : runs[i].at \notin {"new", "half"}
        BY <1>3, <2>4 DEF Starting
      <3>2. \A i \in Slots : runs[i].made = "open" => ctx = i /\ cancel = i
        BY <2>4, <3>1 DEF OneContext
      <3>3. \A i \in Slots : runs'[i].made # "open"
        BY <2>1, <3>2
      <3>4. \A i \in Slots : runs'[i].at # "half" /\ (runs'[i].at = "new" => i = k)
        BY <2>1, <3>1
      <3>5. OneContext'
        BY <1>3, <1>6, <2>4, <3>3, <3>4 DEF OneContext, Starting
      <3>6. OwnContext'
        <4> SUFFICES ASSUME NEW i \in Slots
                     PROVE  /\ runs'[i].at = "wait" => runs'[i].on = i /\ runs'[i].made # "none"
                            /\ runs'[i].at = "wait" /\ runs'[i].made = "cancelled" => runs'[ctx].made # "expired"
                            /\ runs'[i].at = "push" => runs'[i].made = "expired"
          BY <1>1 DEF OwnContext
        <4>1. CASE i = k
          BY <2>1, <4>1
        <4>2. CASE i # k
          <5>1. /\ runs'[i].at = "wait" => runs'[i].on = i /\ runs'[i].made # "none"
                /\ runs'[i].at = "push" => runs'[i].made = "expired"
            BY <2>1, <2>4, <4>2 DEF OwnContext
          <5>2. ASSUME runs'[i].at = "wait", runs'[i].made = "cancelled"
                PROVE  runs'[ctx].made # "expired"
            <6>1. ctx \in Slots /\ runs[i].at = "wait"
              BY <1>1, <2>1, <4>2, <5>2 DEF Typed, Slots
            <6>2. CASE ctx = k
              BY <2>1, <6>1, <6>2
            <6>3. CASE ctx # k
              <7>1. runs'[ctx].made = "expired" => runs[ctx].made = "expired"
                BY <2>1, <6>1, <6>3
              <7>2. runs[i].made = "cancelled" \/ (runs[i].made = "open" /\ i = ctx)
                BY <2>1, <3>2, <4>2, <5>2
              <7> QED
                BY <2>4, <6>1, <7>1, <7>2 DEF OwnContext
            <6> QED
              BY <6>2, <6>3
          <5> QED
            BY <5>1, <5>2
        <4> QED
          BY <4>1, <4>2
      <3>7. RunsWanted'
        BY <1>2, <1>6 DEF RunsWanted
      <3> QED
        BY <3>5, <3>6, <3>7
    <2> QED
      BY <1>2, <1>3, <2>3, <2>4 DEF IInv
  <1> QED
    BY <1>5, <1>6 DEF Call

LEMMA StopTimerGood ==
  ASSUME IInv, StopTimer
  PROVE  IInv'
  <1>1. /\ Typed /\ stops > 0 /\ stops' = stops - 1 /\ stops' \in Nat
        /\ runs' = Cancelled(runs)
        /\ UNCHANGED <<role, timer, state, todo, ctx, cancel, raced>>
    BY DEF IInv, Typed, StopTimer, endpoint
  <1>2. /\ runs' \in [Slots -> Goroutine]
        /\ \A i \in Slots :
             /\ runs'[i].at = runs[i].at /\ runs'[i].on = runs[i].on /\ runs'[i].stale = runs[i].stale
             /\ runs'[i].made = IF i = cancel /\ runs[i].made = "open" THEN "cancelled" ELSE runs[i].made
    <2>1. runs \in [Slots -> Goroutine]
      BY <1>1 DEF Typed
    <2> QED
      BY <1>1, <2>1, CancelledRuns
  <1>3. Typed'
    BY <1>1, <1>2 DEF Typed
  <1>4. TodoEnds'
    BY <1>1 DEF IInv, TodoEnds, Wanted
  <1>5. ASSUME ~raced, OneContext, OwnContext, RunsWanted
        PROVE  OneContext' /\ OwnContext' /\ RunsWanted'
    <2>1. Starting = {} /\ Starting' = {}
      BY <1>1, <1>2, <1>5 DEF OneContext, Starting
    <2>2. \A i \in Slots : runs[i].at \notin {"new", "half"} /\ (runs[i].made = "open" => ctx = i /\ cancel = i)
      BY <1>5, <2>1 DEF OneContext, Starting
    <2>3. \A i \in Slots : runs'[i].made # "open"
      BY <1>2, <2>2
    <2>4. OneContext'
      BY <1>2, <2>1, <2>2, <2>3 DEF OneContext
    <2>5. OwnContext'
      <3> SUFFICES ASSUME NEW i \in Slots
                   PROVE  /\ runs'[i].at = "wait" => runs'[i].on = i /\ runs'[i].made # "none"
                          /\ runs'[i].at = "wait" /\ runs'[i].made = "cancelled" => runs'[ctx].made # "expired"
                          /\ runs'[i].at = "push" => runs'[i].made = "expired"
        BY <1>1 DEF OwnContext
      <3>1. /\ runs'[i].at = "wait" => runs'[i].on = i /\ runs'[i].made # "none"
            /\ runs'[i].at = "push" => runs'[i].made = "expired"
        BY <1>2, <1>5 DEF OwnContext
      <3>2. ASSUME runs'[i].at = "wait", runs'[i].made = "cancelled"
            PROVE  runs'[ctx].made # "expired"
        <4>1. ctx \in Slots /\ runs[i].at = "wait"
          BY <1>1, <1>2, <3>2 DEF Typed, Slots
        <4>2. runs'[ctx].made = "expired" => runs[ctx].made = "expired"
          BY <1>2, <4>1
        <4>3. runs[i].made = "cancelled" \/ (runs[i].made = "open" /\ i = ctx)
          BY <1>2, <2>2, <3>2
        <4> QED
          BY <1>5, <4>1, <4>2, <4>3 DEF OwnContext
      <3> QED
        BY <3>1, <3>2
    <2>6. RunsWanted'
      BY <1>1, <1>2, <1>5, <2>1, <2>3 DEF RunsWanted, Wanted
    <2> QED
      BY <2>4, <2>5, <2>6
  <1> QED
    BY <1>1, <1>3, <1>4, <1>5 DEF IInv

LEMMA StartTimerGood ==
  ASSUME IInv, NEW i \in Slots, StartTimer(i)
  PROVE  IInv'
  <1>1. Typed /\ UNCHANGED <<role, timer, state, stops, todo, raced>> /\ runs[i] \in Goroutine /\ i \in 0..MaxRuns /\ i # 0
    BY ControllerAssumption DEF IInv, Typed, StartTimer, endpoint, Slots
  <1>2. TodoEnds' /\ (Wanted' <=> Wanted)
    BY <1>1 DEF IInv, TodoEnds, Wanted
  <1>3. CASE runs[i].at = "new" /\ ctx' = i /\ runs' = [runs EXCEPT ![i] = Run("half", "open")] /\ cancel' = cancel
    <2>1. /\ runs'[i] = [at |-> "half", on |-> 0, made |-> "open", stale |-> FALSE]
          /\ \A j \in Slots : j # i => runs'[j] = runs[j]
      BY <1>1, <1>3 DEF Typed, Run
    <2>2. Run("half", "open") \in Goroutine
      BY ControllerAssumption DEF Run, Goroutine
    <2>3. runs' \in [Slots -> Goroutine]
      BY <1>1, <1>3, <2>2 DEF Typed
    <2>4. Typed'
      BY <1>1, <1>3, <2>3 DEF Typed
    <2>5. ASSUME ~raced, OneContext, OwnContext, RunsWanted
          PROVE  OneContext' /\ OwnContext' /\ RunsWanted'
      <3>1. i \in Starting /\ Starting = {i} /\ stops = 0
        BY <1>1, <1>3, <2>5 DEF OneContext, Starting, Typed
      <3>2. \A j \in Slots : runs[j].made # "open"
        BY <1>3, <2>5 DEF OneContext
      <3>3. \A j \in Slots : j # i => runs'[j].made # "open" /\ runs'[j].at \notin {"new", "half"}
        BY <2>1, <3>1, <3>2 DEF Starting
      <3>4. OneContext'
        BY <1>1, <1>3, <2>1, <3>1, <3>3 DEF OneContext, Starting
      <3>5. OwnContext'
        BY <1>3, <2>1, <2>5 DEF OwnContext
      <3>6. RunsWanted'
        BY <1>1, <1>2, <2>1, <2>5, <3>1 DEF RunsWanted
      <3> QED
        BY <3>4, <3>5, <3>6
    <2> QED
      BY <1>1, <1>2, <2>4, <2>5 DEF IInv
  <1>4. CASE runs[i].at = "half" /\ cancel' = i /\ runs' = [runs EXCEPT ![i].at = "wait", ![i].on = ctx] /\ ctx' = ctx
    <2>1. /\ runs'[i].at = "wait" /\ runs'[i].on = ctx /\ runs'[i].made = runs[i].made /\ runs'[i].stale = runs[i].stale
          /\ runs'[i] \in Goroutine
          /\ \A j \in Slots : j # i => runs'[j] = runs[j]
      <3>1. ctx \in 0..MaxRuns
        BY <1>1 DEF Typed
      <3>2. runs'[i] = [runs[i] EXCEPT !.at = "wait", !.on = ctx] /\ \A j \in Slots : j # i => runs'[j] = runs[j]
        BY <1>1, <1>4 DEF Typed
      <3> QED
        BY <1>1, <3>1, <3>2 DEF Goroutine
    <2>2. runs' \in [Slots -> Goroutine]
      <3>1. runs' = [j \in Slots |-> runs'[j]]
        BY <1>1, <1>4 DEF Typed
      <3>2. \A j \in Slots : runs'[j] \in Goroutine
        BY <1>1, <2>1 DEF Typed
      <3> QED
        BY <3>1, <3>2
    <2>3. Typed'
      BY <1>1, <1>4, <2>1, <2>2 DEF Typed
    <2>4. ASSUME ~raced, OneContext, OwnContext, RunsWanted
          PROVE  OneContext' /\ OwnContext' /\ RunsWanted'
      <3>1. i \in Starting /\ Starting = {i} /\ stops = 0 /\ runs[i].made = "open" /\ ctx = i
        BY <1>1, <1>4, <2>4 DEF OneContext, Starting, Typed
      <3>2. \A j \in Slots : j # i => runs'[j].made # "open" /\ runs'[j].at \notin {"new", "half"}
        BY <2>1, <2>4, <3>1 DEF Starting, OneContext
      <3>3. OneContext'
        BY <1>1, <1>4, <2>1, <3>1, <3>2 DEF OneContext, Starting
      <3>4. OwnContext'
        <4> SUFFICES ASSUME NEW j \in Slots
                     PROVE  /\ runs'[j].at = "wait" => runs'[j].on = j /\ runs'[j].made # "none"
                            /\ runs'[j].at = "wait" /\ runs'[j].made = "cancelled" => runs'[i].made # "expired"
                            /\ runs'[j].at = "push" => runs'[j].made = "expired"
          BY <1>4, <3>1 DEF OwnContext
        <4>1. CASE j = i
          BY <2>1, <3>1, <4>1
        <4>2. CASE j # i
          BY <2>1, <2>4, <3>1, <4>2 DEF OwnContext
        <4> QED
          BY <4>1, <4>2
      <3>5. RunsWanted'
        BY <1>1, <1>2, <2>1, <2>4, <3>1 DEF RunsWanted
      <3> QED
        BY <3>3, <3>4, <3>5
    <2> QED
      BY <1>1, <1>2, <2>3, <2>4 DEF IInv
  <1> QED
    BY <1>3, <1>4 DEF StartTimer

LEMMA WakeGood ==
  ASSUME IInv, NEW i \in Slots, Wake(i)
  PROVE  IInv'
  <1> DEFINE p == IF runs[ctx].made = "expired" THEN "push" ELSE "none"
  <1>1. /\ Typed /\ Awake(i) /\ runs[i] \in Goroutine /\ p \in {"push", "none"}
        /\ runs' = [runs EXCEPT ![i].at = p, ![i].on = 0]
        /\ UNCHANGED <<role, timer, state, ctx, cancel, stops, todo, raced>>
    BY DEF IInv, Typed, Wake, endpoint
  <1>2. p = "push" => runs[ctx].made = "expired"
    OBVIOUS
  <1> HIDE DEF p
  <1>3. /\ runs'[i].at = p /\ runs'[i].on = 0 /\ runs'[i].made = runs[i].made /\ runs'[i].stale = runs[i].stale
        /\ runs'[i] \in Goroutine
        /\ \A j \in Slots : j # i => runs'[j] = runs[j]
    <2>1. runs'[i] = [runs[i] EXCEPT !.at = p, !.on = 0] /\ \A j \in Slots : j # i => runs'[j] = runs[j]
      BY <1>1 DEF Typed
    <2>2. 0 \in 0..MaxRuns /\ p \in {"none", "new", "half", "wait", "push"}
      BY <1>1, ControllerAssumption
    <2>3. /\ runs'[i] \in Goroutine /\ runs'[i].at = p /\ runs'[i].on = 0
          /\ runs'[i].made = runs[i].made /\ runs'[i].stale = runs[i].stale
      <3>1. runs[i] \in Goroutine
        BY <1>1
      <3> DEFINE q == runs'[i]
                 r == runs[i]
      <3>2. q = [r EXCEPT !.at = p, !.on = 0] /\ r \in Goroutine
        BY <2>1, <3>1
      <3> HIDE DEF q, r
      <3>3. q \in Goroutine /\ q.at = p /\ q.on = 0 /\ q.made = r.made /\ q.stale = r.stale
        BY <2>2, <3>2 DEF Goroutine
      <3> QED
        BY <3>3 DEF q, r
    <2> QED
      BY <2>1, <2>3
  <1>4. runs' \in [Slots -> Goroutine]
    <2>1. runs' = [j \in Slots |-> runs'[j]]
      BY <1>1 DEF Typed
    <2>2. \A j \in Slots : runs'[j] \in Goroutine
      BY <1>1, <1>3 DEF Typed
    <2> QED
      BY <2>1, <2>2
  <1>5. Typed'
    BY <1>1, <1>3, <1>4 DEF Typed
  <1>6. TodoEnds' /\ (Wanted' <=> Wanted)
    BY <1>1 DEF IInv, TodoEnds, Wanted
  <1>7. ASSUME ~raced, OneContext, OwnContext, RunsWanted
        PROVE  OneContext' /\ OwnContext' /\ RunsWanted'
    <2>1. runs[i].at = "wait" /\ runs[i].made \in {"cancelled", "expired"}
      BY <1>1, <1>7 DEF Awake, OwnContext, Goroutine
    <2>2. p = "push" => runs[i].made = "expired"
      BY <1>2, <1>7, <2>1 DEF OwnContext
    <2>3. \A j \in Slots : /\ runs'[j].made = runs[j].made /\ runs'[j].stale = runs[j].stale
                           /\ runs'[j].at = runs[j].at \/ j = i
      BY <1>3
    <2>4. /\ Starting' = Starting
          /\ \A j \in Slots : runs'[j].at \in {"new", "half", "wait"} => j # i /\ runs'[j] = runs[j]
      BY <1>1, <1>3, <2>1 DEF Starting
    <2>5. OneContext'
      <3>1. \A j \in Slots : runs'[j].made = "open" => ctx' = j /\ (cancel' = j \/ runs'[j].at = "half")
        BY <1>1, <1>3, <1>7, <2>1, <2>3 DEF OneContext
      <3>2. \A j \in Slots : runs'[j].at = "half" => runs'[j].made = "open"
        BY <1>7, <2>4 DEF OneContext
      <3>3. \A j, k \in Slots : runs'[j].at = "new" => runs'[k].made # "open"
        BY <1>7, <2>3, <2>4 DEF OneContext
      <3>4. (\A j, k \in Starting' : j = k) /\ (stops' > 0 => Starting' = {})
        BY <1>1, <1>7, <2>4 DEF OneContext
      <3> QED
        BY <3>1, <3>2, <3>3, <3>4 DEF OneContext
    <2>6. OwnContext'
      <3>1. ctx \in Slots => runs'[ctx].made = runs[ctx].made
        BY <2>3
      <3>2. \A j \in Slots : runs'[j].at = "wait" => ctx \in Slots
        BY <1>5, <1>1 DEF Typed, Slots
      <3> QED
        <4> SUFFICES ASSUME NEW j \in Slots
                     PROVE  /\ runs'[j].at = "wait" => runs'[j].on = j /\ runs'[j].made # "none"
                            /\ runs'[j].at = "wait" /\ runs'[j].made = "cancelled" => runs'[ctx].made # "expired"
                            /\ runs'[j].at = "push" => runs'[j].made = "expired"
          BY <1>1 DEF OwnContext
        <4>1. CASE j = i
          BY <1>3, <2>2, <2>4, <4>1
        <4>2. CASE j # i
          BY <1>3, <1>7, <3>1, <3>2, <4>2 DEF OwnContext
        <4> QED
          BY <4>1, <4>2
    <2>7. RunsWanted'
      BY <1>1, <1>6, <1>7, <2>1, <2>3, <2>4 DEF RunsWanted
    <2> QED
      BY <2>5, <2>6, <2>7
  <1> QED
    BY <1>1, <1>5, <1>6, <1>7 DEF IInv

\* A deadline is met only when the goroutines that could run have run.
LEMMA ExpireGood ==
  ASSUME IInv, NEW i \in Slots, Expire(i)
  PROVE  IInv'
  <1>1. /\ Typed /\ runs[i] \in Goroutine /\ runs[i].made = "open" /\ stops = 0 /\ Starting = {}
        /\ \A j \in Slots : ~Awake(j)
        /\ runs' = [runs EXCEPT ![i].made = "expired"]
        /\ UNCHANGED <<role, timer, state, ctx, cancel, stops, todo, raced>>
    BY DEF IInv, Typed, Expire, Unsettled, endpoint
  <1>2. /\ runs'[i].at = runs[i].at /\ runs'[i].on = runs[i].on /\ runs'[i].made = "expired" /\ runs'[i].stale = runs[i].stale
        /\ runs'[i] \in Goroutine
        /\ \A j \in Slots : j # i => runs'[j] = runs[j]
    <2>1. runs'[i] = [runs[i] EXCEPT !.made = "expired"] /\ \A j \in Slots : j # i => runs'[j] = runs[j]
      BY <1>1 DEF Typed
    <2> QED
      BY <1>1, <2>1 DEF Goroutine
  <1>3. runs' \in [Slots -> Goroutine]
    <2>1. runs' = [j \in Slots |-> runs'[j]]
      BY <1>1 DEF Typed
    <2>2. \A j \in Slots : runs'[j] \in Goroutine
      BY <1>1, <1>2 DEF Typed
    <2> QED
      BY <2>1, <2>2
  <1>4. Typed'
    BY <1>1, <1>2, <1>3 DEF Typed
  <1>5. TodoEnds' /\ (Wanted' <=> Wanted)
    BY <1>1 DEF IInv, TodoEnds, Wanted
  <1>6. ASSUME ~raced, OneContext, OwnContext, RunsWanted
        PROVE  OneContext' /\ OwnContext' /\ RunsWanted'
    <2>1. \A j \in Slots : runs'[j].at = runs[j].at /\ runs'[j].on = runs[j].on /\ runs'[j].stale = runs[j].stale
      BY <1>2
    <2>2. Starting' = {}
      BY <1>1, <2>1 DEF Starting
    <2>3. \A j \in Slots : runs'[j].at \notin {"new", "half"} /\ (j # i => runs'[j].made = runs[j].made)
      BY <1>1, <1>2, <2>1 DEF Starting
    <2>4. OneContext'
      BY <1>1, <1>2, <1>6, <2>1, <2>2, <2>3 DEF OneContext
    <2>5. \A j \in Slots : runs[j].at = "wait" => runs[j].made # "cancelled"
      BY <1>1, <1>6 DEF Awake, OwnContext
    <2>6. OwnContext'
      BY <1>1, <1>2, <1>6, <2>1, <2>3, <2>5 DEF OwnContext
    <2>7. RunsWanted'
      BY <1>1, <1>2, <1>5, <1>6, <2>1, <2>2, <2>3 DEF RunsWanted
    <2> QED
      BY <2>4, <2>6, <2>7
  <1> QED
    BY <1>1, <1>4, <1>5, <1>6 DEF IInv

LEMMA NextGood == IInv /\ [Next]_vars => IInv'
  <1> SUFFICES ASSUME IInv, [Next]_vars
               PROVE  IInv'
    OBVIOUS
  <1>1. CASE UNCHANGED vars \/ ChiefData
    <2>1. UNCHANGED <<role, timer, state, runs, ctx, cancel, stops, todo, raced>>
      BY <1>1 DEF vars, endpoint, timerVars, ChiefData
    <2> QED
      BY <2>1 DEF IInv, Typed, TodoEnds, Wanted, OneContext, OwnContext, RunsWanted, Starting
  <1>2. CASE Report \/ AfterSend \/ Receive \/ \E t \in Timers : OtherTimeout(t)
    <2>1. /\ InSelect /\ UNCHANGED <<role, timer, runs, ctx, cancel, stops, raced>>
          /\ \E ev, queue : ForceNewEvent(ev, queue)
      BY <1>2 DEF Report, AfterSend, Receive, OtherTimeout, Room, timerVars
    <2> QED
      BY <2>1, EventGood
  <1>3. CASE \E i \in Slots : Timeout(i)
    <2>1. PICK i \in Slots : Timeout(i)
      BY <1>3
    <2>2. /\ InSelect /\ UNCHANGED <<role, timer, ctx, cancel, stops, raced>>
          /\ runs[i].at = "push" /\ runs' = [runs EXCEPT ![i].at = "none"]
          /\ ForceNewEvent(TimeoutEvent[timer], owed)
      BY <2>1 DEF Timeout
    <2> QED
      BY <2>2, EventGood
  <1> QED
    BY <1>1, <1>2, <1>3, CallGood, StopTimerGood, StartTimerGood, WakeGood, ExpireGood DEF Next

\* Unless a call overtook the goroutines of its timer, the timer has one context that
\* can still expire at most, and the next stop will cancel that one.
THEOREM OneContextPerTimer == Spec => []OneRunPerTimer
  <1>1. IInv => OneRunPerTimer
    <2> SUFFICES ASSUME IInv, NEW i \in Slots, runs[i].made = "open", ~raced, ~Unsettled
                 PROVE  ctx = i /\ cancel = i
      BY DEF OneRunPerTimer
    <2> QED
      BY DEF IInv, OneContext, Unsettled, Starting
  <1> QED
    BY <1>1, InitGood, NextGood, PTL DEF Spec

\* ... and a timeout that no later call meant to prevent is taken in a state that waits
\* with that timer: after any run of events, calls and expiries, in either role.
THEOREM TimeoutsInPlace == Spec => TimeoutsBelong
  <1>1. IInv => [\A i \in Slots : (Timeout(i) /\ ~raced /\ ~runs[i].stale) => timer \in Waits(state)]_vars
    <2> SUFFICES ASSUME IInv, NEW i \in Slots, Timeout(i), ~raced, ~runs[i].stale
                 PROVE  timer \in Waits(state)
      OBVIOUS
    <2>1. todo = <<>> /\ runs[i].at = "push" /\ runs[i].made = "expired"
      BY DEF Timeout, InSelect, IInv, OwnContext
    <2> QED
      BY <2>1 DEF IInv, RunsWanted, Wanted
  <1> QED
    BY <1>1, InitGood, NextGood, PTL DEF Spec, TimeoutsBelong

(***************************************************************************)
(* FmtpFraming.  The packets fill the stream one behind the other.         *)
(***************************************************************************)
FramingTyped ==
  /\ packets \in Seq([at : Nat, body : Nat])
  /\ end \in Nat /\ pos \in Nat /\ lim \in Nat /\ pos <= lim /\ lim <= end
  /\ handed \in Seq([n : Nat, whole : BOOLEAN])
  /\ \A i \in DOMAIN handed : handed[i].n \in DOMAIN packets
  /\ cut \subseteq DOMAIN packets /\ clear \subseteq DOMAIN packets

Gapless ==
  /\ \A i, j \in DOMAIN packets : i < j => Behind(packets[i]) <= packets[j].at
  /\ \A i \in DOMAIN packets : i + 1 \in DOMAIN packets => Behind(packets[i]) = packets[i + 1].at
  /\ \A i \in DOMAIN packets : Behind(packets[i]) <= end /\ (i = Len(packets) => Behind(packets[i]) = end)

\* The packet in which the last read ended is known, and what was handed over is behind.
CutNoted     == \A n \in DOMAIN packets : packets[n].at < lim /\ lim < Behind(packets[n]) => n \in cut
HandedBehind == \A i \in DOMAIN handed : packets[handed[i].n].at < pos

HandedOnce(n) ==
  \E i \in DOMAIN handed :
    handed[i] = [n |-> n, whole |-> TRUE] /\ \A j \in DOMAIN handed : handed[j].n = n => j = i

\* As long as a clear packet is in the buffer, the loop is at the start of a packet and
\* everything from there to the clear one will be accepted.
ClearKept ==
  \A n \in clear :
    IF packets[n].at < pos THEN HandedOnce(n) ELSE \E m \in 1..n : InStep(m, n, pos, lim)

FramingInv == Gapless /\ CutNoted /\ HandedBehind /\ ClearKept /\ DamageExplained

\* The length field of an acceptable packet says how long its text is, and is accepted.
LEMMA AcceptedLength ==
  ASSUME NEW p, p.body \in Nat, Acceptable(p)
  PROVE  BodyLen(p) = p.body /\ IsValid(PkgLen(p)) /\ p.body > 0
<1> DEFINE b == p.body
<1>1. b + FmtpHeaderLen \in Nat /\ b + FmtpHeaderLen < LengthValues /\ b > 0
  BY FramingAssumption DEF Acceptable, FmtpHeaderLen, FmtpPackageBodyMaxLen, FmtpPackageMaxLength
<1>2. (b + FmtpHeaderLen) % LengthValues = b + FmtpHeaderLen
  <2> DEFINE a == b + FmtpHeaderLen
  <2>1. a \in Nat /\ a < LengthValues
    BY <1>1
  <2> HIDE DEF a
  <2>2. a % LengthValues = a
    BY <2>1, FramingAssumption, SMTT(20)
  <2> QED
    BY <2>2 DEF a
<1> QED
  BY <1>1, <1>2, FramingAssumption
  DEF Acceptable, PkgLen, BodyLen, IsValid, FmtpHeaderLen, FmtpPackageBodyMaxLen, FmtpPackageMaxLength

\* A length field that does not say how long the text is stands before a text too long for it.
LEMMA WrongLength ==
  ASSUME NEW p, p.body \in Nat, BodyLen(p) # p.body, IsValid(PkgLen(p))
  PROVE  p.body > FmtpPackageBodyMaxLen
<1> DEFINE a == p.body + FmtpHeaderLen
<1> SUFFICES ASSUME ~(p.body > FmtpPackageBodyMaxLen)
             PROVE  FALSE
  OBVIOUS
<1>1. a \in Nat /\ a < LengthValues /\ a > 0 /\ a - FmtpHeaderLen = p.body
  BY FramingAssumption DEF FmtpHeaderLen, FmtpPackageBodyMaxLen, FmtpPackageMaxLength
<1>2. PkgLen(p) = a % LengthValues
  BY DEF PkgLen
<1> HIDE DEF a
<1>3. a % LengthValues = a
  BY <1>1, FramingAssumption, SMTT(20)
<1> QED
  BY <1>1, <1>2, <1>3 DEF BodyLen

\* What the header says of the length of the text is a natural number once it is accepted.
LEMMA BodyLenNat ==
  ASSUME NEW p, p.body \in Nat, IsValid(PkgLen(p))
  PROVE  BodyLen(p) \in Nat /\ BodyLen(p) > 0
<1> DEFINE a == p.body + FmtpHeaderLen
<1>1. a \in Nat /\ PkgLen(p) = a % LengthValues
  BY DEF PkgLen, FmtpHeaderLen
<1> HIDE DEF a
<1>2. a % LengthValues \in Nat
  BY <1>1, FramingAssumption, SMTT(20)
<1> QED
  BY <1>1, <1>2, FramingAssumption DEF BodyLen, IsValid, FmtpHeaderLen

LEMMA Item ==
  ASSUME NEW S, NEW s \in Seq(S), NEW i \in DOMAIN s
  PROVE  i \in Nat /\ s[i] \in S
OBVIOUS

\* Where a packet begins and ends.
LEMMA Placed ==
  ASSUME FramingTyped, NEW i \in DOMAIN packets
  PROVE  /\ i \in Nat /\ packets[i] \in [at : Nat, body : Nat]
         /\ packets[i].at \in Nat /\ packets[i].body \in Nat
         /\ Behind(packets[i]) \in Nat /\ packets[i].at + FmtpHeaderLen <= Behind(packets[i])
         /\ Behind(packets[i]) = packets[i].at + (FmtpHeaderLen + packets[i].body)
<1>1. i \in Nat /\ packets[i] \in [at : Nat, body : Nat]
  <2>1. packets \in Seq([at : Nat, body : Nat])
    BY DEF FramingTyped
  <2> QED
    BY <2>1, Item
<1>2. packets[i].at \in Nat /\ packets[i].body \in Nat
  BY <1>1
<1> QED
  BY <1>1, <1>2 DEF Behind, FmtpHeaderLen

\* A later packet begins and ends later.
LEMMA InStreamOrder ==
  ASSUME FramingTyped, Gapless, NEW i \in DOMAIN packets, NEW j \in DOMAIN packets, i <= j
  PROVE  packets[i].at <= packets[j].at /\ Behind(packets[i]) <= Behind(packets[j])
<1>1. CASE i = j
  BY <1>1, Placed
<1>2. CASE i < j
  <2>1. Behind(packets[i]) <= packets[j].at
    BY <1>2 DEF Gapless
  <2> QED
    BY <2>1, Placed DEF FmtpHeaderLen
<1> QED
  BY <1>1, <1>2, Placed

\* A packet is not empty, so no two begin at the same byte.
LEMMA StartsDiffer ==
  ASSUME FramingTyped, Gapless, NEW i \in DOMAIN packets, NEW j \in DOMAIN packets,
         packets[i].at = packets[j].at
  PROVE  i = j
<1>1. \A k, m \in DOMAIN packets : k < m => packets[k].at # packets[m].at
  <2> SUFFICES ASSUME NEW k \in DOMAIN packets, NEW m \in DOMAIN packets, k < m
               PROVE  packets[k].at # packets[m].at
    OBVIOUS
  <2>1. Behind(packets[k]) <= packets[m].at
    BY DEF Gapless
  <2> QED
    BY <2>1, Placed DEF FmtpHeaderLen
<1> QED
  BY <1>1, Placed

LEMMA SendTyped ==
  ASSUME FramingTyped, SendPacket
  PROVE  FramingTyped'
<1>1. PICK body \in Bodies :
        /\ packets' = Append(packets, [at |-> end, body |-> body])
        /\ end' = end + FmtpHeaderLen + body
  BY DEF SendPacket, Behind
<1>2. body \in Nat /\ [at |-> end, body |-> body] \in [at : Nat, body : Nat]
  BY FramingAssumption DEF FramingTyped
<1>3. packets' \in Seq([at : Nat, body : Nat]) /\ DOMAIN packets \subseteq DOMAIN packets'
  BY <1>1, <1>2 DEF FramingTyped
<1>4. end' \in Nat /\ end <= end'
  BY <1>1, <1>2 DEF FramingTyped, FmtpHeaderLen
<1>5. UNCHANGED <<pos, lim, handed, cut, clear>> /\ lim <= end'
  BY <1>4 DEF SendPacket, FramingTyped
<1> QED
  BY <1>3, <1>4, <1>5 DEF FramingTyped

LEMMA SendKeeps ==
  ASSUME FramingTyped, FramingInv, SendPacket
  PROVE  FramingInv'
<1>1. PICK body \in Bodies :
        /\ packets' = Append(packets, [at |-> end, body |-> body])
        /\ end' = end + FmtpHeaderLen + body
  BY DEF SendPacket, Behind
<1>2. body \in Nat
  BY FramingAssumption
<1> DEFINE k == Len(packets) + 1
<1>3. /\ DOMAIN packets' = DOMAIN packets \cup {k}
      /\ \A i \in DOMAIN packets : packets'[i] = packets[i] /\ i < k /\ i \in Nat /\ packets[i] \in [at : Nat, body : Nat]
      /\ packets'[k].at = end /\ packets'[k].body = body /\ k \in Nat
      /\ k = Len(packets) + 1 /\ Len(packets) \in Nat /\ Len(packets') = k
  <2> DEFINE p == [at |-> end, body |-> body]
  <2>1. p \in [at : Nat, body : Nat] /\ p.at = end /\ p.body = body
    BY <1>2 DEF FramingTyped
  <2> HIDE DEF p
  <2>2. packets' = Append(packets, p)
    BY <1>1 DEF p
  <2>3. k \in Nat /\ DOMAIN packets = 1..Len(packets) /\ Len(packets) \in Nat
    BY DEF FramingTyped
  <2>4. DOMAIN packets' = 1..k /\ Len(packets') = k /\ packets'[k] = p /\ \A i \in 1..Len(packets) : packets'[i] = packets[i]
    BY <2>1, <2>2 DEF FramingTyped
  <2> QED
    BY <2>1, <2>3, <2>4, Placed
<1>4. UNCHANGED <<pos, lim, handed, cut, clear>>
  BY DEF SendPacket
<1> HIDE DEF k
<1>5. Gapless'
  <2>1. Behind(packets'[k]) = end' /\ end <= end' /\ end \in Nat /\ end' \in Nat
    BY <1>1, <1>2, <1>3 DEF FramingTyped, Behind, FmtpHeaderLen
  <2>2. \A i \in DOMAIN packets : Behind(packets'[i]) = Behind(packets[i]) /\ Behind(packets[i]) \in Nat
    BY <1>3, Placed
  <2>3. /\ \A i, j \in DOMAIN packets : i < j => Behind(packets[i]) <= packets[j].at
        /\ \A i \in DOMAIN packets : i + 1 \in DOMAIN packets => Behind(packets[i]) = packets[i + 1].at
        /\ \A i \in DOMAIN packets : Behind(packets[i]) <= end
        /\ \A i \in DOMAIN packets : i = Len(packets) => Behind(packets[i]) = end
    BY DEF FramingInv, Gapless
  <2>4. \A i \in DOMAIN packets' :
          Behind(packets'[i]) <= end' /\ (i = Len(packets') => Behind(packets'[i]) = end')
    BY <1>3, <2>1, <2>2, <2>3
  <2>5. \A i, j \in DOMAIN packets' : i < j => Behind(packets'[i]) <= packets'[j].at
    <3> SUFFICES ASSUME NEW i \in DOMAIN packets', NEW j \in DOMAIN packets', i < j
                 PROVE  Behind(packets'[i]) <= packets'[j].at
      OBVIOUS
    <3>1. i \in DOMAIN packets
      BY <1>3
    <3>2. CASE j \in DOMAIN packets
      BY <1>3, <2>2, <2>3, <3>1, <3>2
    <3>3. CASE j = k
      BY <1>3, <2>2, <2>3, <3>1, <3>3
    <3> QED
      BY <1>3, <3>2, <3>3
  <2>6. \A i \in DOMAIN packets' : i + 1 \in DOMAIN packets' => Behind(packets'[i]) = packets'[i + 1].at
    <3> SUFFICES ASSUME NEW i \in DOMAIN packets', i + 1 \in DOMAIN packets'
                 PROVE  Behind(packets'[i]) = packets'[i + 1].at
      OBVIOUS
    <3>1. i \in DOMAIN packets
      BY <1>3
    <3>2. CASE i + 1 \in DOMAIN packets
      BY <1>3, <2>2, <2>3, <3>1, <3>2
    <3>3. CASE i + 1 = k
      <4>1. i = Len(packets)
        BY <1>3, <3>1, <3>3
      <4> QED
        BY <1>3, <2>2, <2>3, <3>1, <3>3, <4>1
    <3> QED
      BY <1>3, <3>2, <3>3
  <2> QED
    BY <2>4, <2>5, <2>6 DEF Gapless
<1>6. CutNoted'
  BY <1>2, <1>3, <1>4 DEF CutNoted, FramingInv, FramingTyped, Behind
<1>7. HandedBehind' /\ DamageExplained'
  BY <1>3, <1>4 DEF HandedBehind, DamageExplained, FramingInv, FramingTyped
<1>8. ClearKept'
  <2> SUFFICES ASSUME NEW n \in clear
               PROVE  IF packets'[n].at < pos THEN HandedOnce(n) ELSE \E m \in 1..n : InStep(m, n, pos, lim)'
    BY <1>4 DEF ClearKept, HandedOnce
  <2>1. n \in DOMAIN packets /\ 1..n \subseteq DOMAIN packets
    BY DEF FramingTyped
  <2>2. \A m \in 1..n : InStep(m, n, pos, lim) => InStep(m, n, pos, lim)'
    <3> SUFFICES ASSUME NEW m \in 1..n, InStep(m, n, pos, lim)
                 PROVE  InStep(m, n, pos, lim)'
      OBVIOUS
    <3>1. m..n \subseteq 1..n
      BY <2>1
    <3> QED
      BY <1>3, <1>4, <2>1, <3>1 DEF InStep, Acceptable, Behind
  <2> QED
    BY <1>3, <2>1, <2>2 DEF FramingInv, ClearKept
<1> QED
  BY <1>5, <1>6, <1>7, <1>8 DEF FramingInv

LEMMA ReadTyped ==
  ASSUME FramingTyped, Read
  PROVE  FramingTyped'
<1>1. lim' \in Nat /\ lim < lim' /\ lim' <= end
  BY FramingAssumption DEF Read, FramingTyped
<1> QED
  BY <1>1 DEF Read, FramingTyped

LEMMA ReadKeeps ==
  ASSUME FramingTyped, FramingInv, Read
  PROVE  FramingInv'
<1>1. lim' \in Nat /\ lim < lim' /\ pos = lim /\ UNCHANGED <<packets, end, pos, handed>>
  BY FramingAssumption DEF Read, FramingTyped
<1>2. Gapless' /\ HandedBehind'
  BY <1>1 DEF FramingInv, Gapless, HandedBehind
<1>3. CutNoted'
  BY <1>1 DEF Read, CutNoted
<1>4. DamageExplained'
  BY <1>1 DEF Read, DamageExplained, FramingInv
<1>5. ClearKept'
  <2> SUFFICES ASSUME NEW n \in clear'
               PROVE  IF packets[n].at < pos THEN HandedOnce(n) ELSE \E m \in 1..n : InStep(m, n, pos, lim)'
    BY <1>1 DEF ClearKept, HandedOnce
  <2>1. n \in DOMAIN packets /\ 1..n \subseteq DOMAIN packets
    BY DEF Read, FramingTyped
  <2>2. packets[n].at \in Nat /\ packets[n].at < Behind(packets[n])
    BY <2>1, Placed DEF FmtpHeaderLen
  <2>3. CASE n \in clear
    <3>1. \A m \in 1..n : InStep(m, n, pos, lim) => packets[n].at < pos
      BY <1>1, <2>1, <2>2, Placed DEF InStep, FramingTyped
    <3> QED
      BY <2>3, <3>1 DEF FramingInv, ClearKept
  <2>4. CASE n \notin clear
    <3>1. PICK m \in 1..n : InStep(m, n, lim, lim')
      BY <2>4 DEF Read
    <3>2. packets[m].at = lim /\ packets[m].at <= packets[n].at
      <4>1. m \in DOMAIN packets /\ m <= n
        BY <2>1
      <4> QED
        BY <2>1, <3>1, <4>1, InStreamOrder DEF InStep, FramingInv
    <3>3. ~(packets[n].at < pos)
      BY <1>1, <2>2, <3>2 DEF FramingTyped
    <3>4. InStep(m, n, pos, lim)'
      BY <1>1, <3>1 DEF InStep
    <3> QED
      BY <3>3, <3>4
  <2> QED
    BY <2>3, <2>4
<1> QED
  BY <1>2, <1>3, <1>4, <1>5 DEF FramingInv

\* A turn of the loop goes forward in the buffer, and not over its end.
LEMMA Forward ==
  ASSUME FramingTyped, pos < lim, NEW n \in Nat \ {0}, Consume(n)
  PROVE  pos' \in Nat /\ pos < pos' /\ pos' <= lim /\ (pos + n <= lim => pos' = pos + n)
BY DEF FramingTyped, Consume

\* A clear packet that is still in the buffer: the loop will accept the packet at pos.
LEMMA ClearFound ==
  ASSUME FramingTyped, FramingInv, NEW n \in clear, ~(packets[n].at < pos)
  PROVE  /\ n \in DOMAIN packets
         /\ \E m \in 1..n :
              /\ m \in DOMAIN packets /\ InStep(m, n, pos, lim) /\ HeaderFound(m)
              /\ pos + FmtpHeaderLen < lim /\ BodyLen(packets[m]) = packets[m].body
              /\ Behind(packets[m]) <= lim
<1>1. n \in DOMAIN packets /\ 1..n \subseteq DOMAIN packets
  BY DEF FramingTyped
<1>2. PICK m \in 1..n : InStep(m, n, pos, lim)
  BY DEF FramingInv, ClearKept
<1>3. m \in DOMAIN packets /\ packets[m].at \in Nat /\ packets[m].body \in Nat /\ packets[m].at = pos
  BY <1>1, <1>2, Placed DEF InStep
<1>4. Acceptable(packets[m])
  BY <1>1, <1>2 DEF InStep
<1>5. BodyLen(packets[m]) = packets[m].body /\ IsValid(PkgLen(packets[m])) /\ packets[m].body > 0
  BY <1>3, <1>4, AcceptedLength
<1>6. Behind(packets[m]) <= lim
  <2>1. Behind(packets[n]) <= lim /\ m <= n
    BY <1>2 DEF InStep
  <2>2. Behind(packets[m]) <= Behind(packets[n])
    BY <1>1, <1>3, <2>1, InStreamOrder DEF FramingInv
  <2> QED
    BY <1>1, <1>3, <2>1, <2>2, Placed DEF FramingTyped
<1>7. pos + FmtpHeaderLen < lim
  <2>1. Behind(packets[m]) = pos + (FmtpHeaderLen + packets[m].body) /\ lim \in Nat
    BY <1>3, Placed DEF FramingTyped
  <2> QED
    BY <1>3, <1>5, <1>6, <2>1 DEF FmtpHeaderLen
<1>8. HeaderFound(m)
  BY <1>3, <1>5, <1>7 DEF HeaderFound, FramingTyped, FmtpHeaderLen
<1> QED
  BY <1>1, <1>2, <1>3, <1>5, <1>6, <1>7, <1>8

\* Without a message handed over: a header that is not accepted, or one without a text.
LEMMA NothingHandedKeeps ==
  ASSUME FramingTyped, FramingInv, SkipHeader \/ \E k \in DOMAIN packets : BodyMissing(k)
  PROVE  FramingTyped' /\ FramingInv'
<1>1. pos < lim /\ Consume(FmtpHeaderLen) /\ UNCHANGED <<packets, end, lim, handed, cut, clear>>
  BY DEF SkipHeader, BodyMissing, FramingTyped, FmtpHeaderLen
<1>2. pos' \in Nat /\ pos < pos' /\ pos' <= lim
  BY <1>1, Forward DEF FmtpHeaderLen
<1>3. FramingTyped'
  BY <1>1, <1>2 DEF FramingTyped
<1>4. Gapless' /\ CutNoted' /\ DamageExplained'
  BY <1>1 DEF FramingInv, Gapless, CutNoted, DamageExplained
<1>5. \A k \in DOMAIN packets : packets[k].at \in Nat
  BY Placed
<1>6. HandedBehind'
  BY <1>1, <1>2, <1>5 DEF FramingInv, HandedBehind, FramingTyped
<1>7. \A n \in clear : packets[n].at < pos
  <2> SUFFICES ASSUME NEW n \in clear, ~(packets[n].at < pos)
               PROVE  FALSE
    OBVIOUS
  <2>1. PICK m \in DOMAIN packets : HeaderFound(m) /\ pos + FmtpHeaderLen < lim
    BY ClearFound
  <2>2. pos + FmtpHeaderLen # lim
    BY <2>1 DEF FramingTyped, FmtpHeaderLen
  <2> QED
    BY <2>1, <2>2 DEF SkipHeader, BodyMissing
<1>8. ClearKept'
  <2> SUFFICES ASSUME NEW n \in clear
               PROVE  packets[n].at < pos' /\ HandedOnce(n)
    BY <1>1 DEF ClearKept, HandedOnce
  <2>1. packets[n].at < pos /\ packets[n].at \in Nat
    BY <1>5, <1>7 DEF FramingTyped
  <2> QED
    BY <1>2, <2>1 DEF FramingInv, ClearKept, FramingTyped
<1> QED
  BY <1>3, <1>4, <1>6, <1>8 DEF FramingInv

LEMMA HandOverKeeps ==
  ASSUME FramingTyped, FramingInv, NEW k \in DOMAIN packets, HandOver(k)
  PROVE  FramingTyped' /\ FramingInv'
<1> DEFINE h == [n |-> k, whole |-> BodyLen(packets[k]) = packets[k].body /\ Behind(packets[k]) <= lim]
           last == Len(handed) + 1
<1>1. /\ HeaderFound(k) /\ pos + FmtpHeaderLen < lim
      /\ handed' = Append(handed, h)
      /\ Consume(FmtpHeaderLen + BodyLen(packets[k]))
      /\ UNCHANGED <<packets, end, lim, cut, clear>>
  BY DEF HandOver
<1>2. k \in Nat /\ packets[k].at = pos /\ packets[k].at \in Nat /\ packets[k].body \in Nat
  BY <1>1, Placed DEF HeaderFound
<1>3. BodyLen(packets[k]) \in Nat
  BY <1>1, <1>2, BodyLenNat DEF HeaderFound
<1>4. /\ pos' \in Nat /\ pos < pos' /\ pos' <= lim
      /\ pos + (FmtpHeaderLen + BodyLen(packets[k])) <= lim => pos' = pos + (FmtpHeaderLen + BodyLen(packets[k]))
  <2>1. pos < lim /\ FmtpHeaderLen + BodyLen(packets[k]) \in Nat \ {0}
    BY <1>1, <1>3 DEF FramingTyped, FmtpHeaderLen
  <2> QED
    BY <1>1, <2>1, Forward
<1>5. h \in [n : Nat, whole : BOOLEAN] /\ h.n = k
      /\ h.whole = (BodyLen(packets[k]) = packets[k].body /\ Behind(packets[k]) <= lim)
  BY <1>2
<1> HIDE DEF h
<1>6. /\ handed' \in Seq([n : Nat, whole : BOOLEAN]) /\ last \in DOMAIN handed'
      /\ DOMAIN handed' = DOMAIN handed \cup {last}
      /\ \A i \in DOMAIN handed : handed'[i] = handed[i] /\ i # last
      /\ handed'[last] = h
  <2>1. h \in [n : Nat, whole : BOOLEAN] /\ handed \in Seq([n : Nat, whole : BOOLEAN])
    BY <1>5 DEF FramingTyped
  <2> QED
    BY <1>1, <2>1
<1> HIDE DEF last
<1>7. FramingTyped'
  BY <1>1, <1>4, <1>5, <1>6 DEF FramingTyped
<1>8. Gapless' /\ CutNoted'
  BY <1>1 DEF FramingInv, Gapless, CutNoted
<1>9. \A n \in DOMAIN packets : packets[n].at \in Nat
  BY Placed
<1>10. HandedBehind'
  <2>1. \A i \in DOMAIN handed : packets[handed[i].n].at < pos'
    <3> SUFFICES ASSUME NEW i \in DOMAIN handed
                 PROVE  packets[handed[i].n].at < pos'
      OBVIOUS
    <3>1. handed[i].n \in DOMAIN packets /\ packets[handed[i].n].at < pos /\ pos \in Nat
      BY DEF FramingInv, HandedBehind, FramingTyped
    <3> QED
      BY <1>4, <1>9, <3>1
  <2>2. packets[h.n].at < pos'
    BY <1>2, <1>4, <1>5
  <2> QED
    BY <1>1, <1>6, <2>1, <2>2 DEF HandedBehind
<1>11. DamageExplained'
  <2>1. h.whole \/ k \in cut \/ packets[k].body > FmtpPackageBodyMaxLen
    <3>1. CASE BodyLen(packets[k]) # packets[k].body
      BY <1>1, <1>2, <3>1, WrongLength DEF HeaderFound
    <3>2. CASE ~(Behind(packets[k]) <= lim)
      <4>1. packets[k].at < lim /\ lim < Behind(packets[k])
        BY <1>1, <1>2, <3>2 DEF FramingTyped, Behind, FmtpHeaderLen
      <4> QED
        BY <4>1 DEF FramingInv, CutNoted
    <3> QED
      BY <1>5, <3>1, <3>2
  <2> QED
    BY <1>1, <1>5, <1>6, <2>1 DEF FramingInv, DamageExplained
<1>12. ClearKept'
  <2> SUFFICES ASSUME NEW n \in clear
               PROVE  IF packets[n].at < pos' THEN HandedOnce(n)' ELSE \E m \in 1..n : InStep(m, n, pos', lim)
    BY <1>1 DEF ClearKept, InStep
  <2>0. n \in DOMAIN packets /\ 1..n \subseteq DOMAIN packets /\ n \in Nat
    BY DEF FramingTyped
  <2>1. CASE packets[n].at < pos
    <3>1. HandedOnce(n) /\ n # k
      BY <1>2, <2>1 DEF FramingInv, ClearKept, FramingTyped
    <3>2. HandedOnce(n)'
      BY <1>5, <1>6, <3>1 DEF HandedOnce
    <3>3. packets[n].at < pos'
      BY <1>4, <1>9, <2>0, <2>1 DEF FramingTyped
    <3> QED
      BY <3>2, <3>3
  <2>2. CASE ~(packets[n].at < pos)
    <3>1. /\ k \in 1..n /\ InStep(k, n, pos, lim)
          /\ BodyLen(packets[k]) = packets[k].body /\ Behind(packets[k]) <= lim
      <4>1. PICK m \in 1..n :
              /\ m \in DOMAIN packets /\ InStep(m, n, pos, lim) /\ HeaderFound(m)
              /\ BodyLen(packets[m]) = packets[m].body /\ Behind(packets[m]) <= lim
        BY <2>2, ClearFound
      <4>2. m = k
        BY <1>1, <4>1, StartsDiffer DEF HeaderFound, FramingInv
      <4> QED
        BY <4>1, <4>2
    <3>2. pos' = Behind(packets[k])
      BY <1>2, <1>3, <1>4, <3>1, Placed DEF FmtpHeaderLen
    <3>3. CASE n = k
      <4>1. \A i \in DOMAIN handed : handed[i].n # n
        BY <1>2, <3>3 DEF FramingInv, HandedBehind, FramingTyped
      <4>2. h = [n |-> n, whole |-> TRUE]
        BY <3>1, <3>3 DEF h
      <4>3. HandedOnce(n)'
        BY <1>6, <4>1, <4>2 DEF HandedOnce
      <4>4. packets[n].at < pos'
        BY <1>2, <1>4, <3>3
      <4> QED
        BY <4>3, <4>4
    <3>4. CASE n # k
      <4>1. k + 1 \in 1..n /\ k + 1 \in DOMAIN packets /\ (k + 1)..n \subseteq k..n
        BY <1>2, <2>0, <3>1, <3>4
      <4>2. packets[k + 1].at = pos'
        BY <3>2, <4>1 DEF FramingInv, Gapless
      <4>3. packets[k + 1].at <= packets[n].at
        BY <2>0, <4>1, InStreamOrder DEF FramingInv
      <4>4. InStep(k + 1, n, pos', lim)
        BY <3>1, <4>1, <4>2 DEF InStep
      <4>5. ~(packets[n].at < pos')
        BY <1>4, <1>9, <2>0, <4>2, <4>3
      <4> QED
        BY <4>1, <4>4, <4>5
    <3> QED
      BY <3>3, <3>4
  <2> QED
    BY <2>1, <2>2
<1> QED
  BY <1>7, <1>8, <1>10, <1>11, <1>12 DEF FramingInv

\* The types and the invariant hold at the start, and every step keeps them.
THEOREM FramingKept == FramingSpec => [](FramingTyped /\ FramingInv)
<1>1. FramingInit => FramingTyped /\ FramingInv
  BY DEF FramingInit, FramingTyped, FramingInv, Gapless, CutNoted, HandedBehind, ClearKept, DamageExplained
<1>2. FramingTyped /\ FramingInv /\ [FramingNext]_framingVars => (FramingTyped /\ FramingInv)'
  <2> SUFFICES ASSUME FramingTyped, FramingInv, [FramingNext]_framingVars
               PROVE  FramingTyped' /\ FramingInv'
    OBVIOUS
  <2>1. CASE SendPacket
    BY <2>1, SendTyped, SendKeeps
  <2>2. CASE Read
    BY <2>2, ReadTyped, ReadKeeps
  <2>3. CASE SkipHeader \/ \E k \in DOMAIN packets : BodyMissing(k)
    BY <2>3, NothingHandedKeeps
  <2>4. ASSUME NEW k \in DOMAIN packets, HandOver(k)
        PROVE  FramingTyped' /\ FramingInv'
    BY <2>4, HandOverKeeps
  <2>5. CASE UNCHANGED framingVars
    BY <2>5 DEF framingVars, FramingTyped, FramingInv, Gapless, CutNoted, HandedBehind, ClearKept,
                HandedOnce, InStep, DamageExplained
  <2> QED
    BY <2>1, <2>2, <2>3, <2>4, <2>5 DEF FramingNext
<1> QED
  BY <1>1, <1>2, PTL DEF FramingSpec

\* Where the code skips a header that it does not accept, or cuts or fills a text up, it
\* harms only what the read or the length field broke: see DamageExplained.
THEOREM DamageHasReason == FramingSpec => []DamageExplained
BY FramingKept, PTL DEF FramingInv

\* A packet that a read brings whole behind whole acceptable ones gets through, once and
\* undamaged: see AlignedHanded.
THEOREM AlignedGetThrough == FramingSpec => []AlignedHanded
<1>1. FramingTyped /\ FramingInv => AlignedHanded
  <2> SUFFICES ASSUME FramingTyped, FramingInv, pos = lim, NEW n \in clear
               PROVE  HandedOnce(n)
    BY DEF AlignedHanded, HandedOnce
  <2>1. packets[n].at < pos
    <3> SUFFICES ASSUME ~(packets[n].at < pos)
                 PROVE  FALSE
      OBVIOUS
    <3>1. pos + FmtpHeaderLen < lim
      BY ClearFound
    <3> QED
      BY <3>1 DEF FramingTyped, FmtpHeaderLen
  <2> QED
    BY <2>1 DEF FramingInv, ClearKept
<1> QED
  BY <1>1, FramingKept, PTL
=============================================================================
