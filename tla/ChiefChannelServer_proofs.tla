---------------------- MODULE ChiefChannelServer_proofs ----------------------
(***************************************************************************)
(* Theorems about ChiefChannelServer, for all channels, configurations and *)
(* bounds: the map of kill channels and the processes of the channels.     *)
(***************************************************************************)
EXTENDS ChiefChannelServer, FiniteSetTheorems, TLAPS

(***************************************************************************)
(* Types.  A goroutine that was started has a channel, and so has Work     *)
(* when it is past the choice of what to stop.                             *)
(***************************************************************************)
Named ==
  /\ port <= settings
  /\ \A g \in Starts : gor[g].at # "unused" => gor[g].id \in Ids
  /\ work \in {"kill", "await", "remove"} => target.start # 0 /\ target.id \in Ids

Typed == TypeOK /\ Named

LEMMA InitTyped == Init => Typed
  <1> SUFFICES ASSUME Init
               PROVE  Typed
    OBVIOUS
  <1>1. target \in [id : Ids \cup {0}, start : 0..MaxStarts]
    BY ChiefAssumption DEF Init, NoTarget
  <1>2. gor \in [Starts -> [id : Ids \cup {0}, sett : Settings, at : Places]]
    BY DEF Init, Settings, Places
  <1>3. /\ setts \in [Ids -> Settings] /\ due \in [Ids -> Nat] /\ bin \in [Ids -> 0..MaxStarts]
        /\ chStates \in [Ids -> {"none", "stopped", "error", "ok"}]
    BY ChiefAssumption DEF Init, Settings
  <1>4. Named
    BY DEF Init, Named
  <1>5. 0 \in 0..MaxSettings /\ 0 \in 0..MaxExits /\ 0 \in 0..MaxFailures
    BY ChiefAssumption
  <1> QED
    BY <1>1, <1>2, <1>3, <1>4, <1>5 DEF Init, Typed, TypeOK

LEMMA OneMore == \A n \in Nat : \A m \in 0..n : m < n => m + 1 \in 0..n
  OBVIOUS

LEMMA FailuresTyped ==
  ASSUME Typed,
         \/ UNCHANGED <<failures, calm>>
         \/ failures < MaxFailures /\ failures' = failures + 1 /\ calm' = FALSE
  PROVE  failures' \in 0..MaxFailures /\ calm' \in BOOLEAN
  <1>1. MaxFailures \in Nat /\ failures \in 0..MaxFailures /\ calm \in BOOLEAN
    BY ChiefAssumption DEF Typed, TypeOK
  <1>2. failures' \in 0..MaxFailures
    BY <1>1, OneMore
  <1>3. calm' \in BOOLEAN
    BY <1>1
  <1> QED
    BY <1>2, <1>3

LEMMA StartOfTarget ==
  ASSUME Typed, work \in {"kill", "await", "remove"}
  PROVE  target.start \in Starts /\ target.id \in Ids
  <1>1. target.start \in 0..MaxStarts /\ target.start # 0
    BY DEF Typed, TypeOK, Named
  <1> QED
    BY <1>1 DEF Starts, Typed, Named

LEMMA PlacesTyped ==
  ASSUME Typed, NEW g \in Starts, NEW p \in Places, gor[g].at # "unused",
         gor' = [gor EXCEPT ![g].at = p]
  PROVE  /\ gor' \in [Starts -> [id : Ids \cup {0}, sett : Settings, at : Places]]
         /\ \A h \in Starts : gor'[h].at # "unused" => gor'[h].id \in Ids
  BY DEF Typed, TypeOK, Named

\* Work: new settings, and what stopChannelsByIDs does with them.
LEMMA NewSettingsTyped ==
  ASSUME Typed, NewSettings
  PROVE  Typed'
  <1>1. PICK p \in {port, port + 1} \ {0}, s \in [Ids -> Settings] :
          /\ port' = p /\ setts' = s
          /\ toStop' \subseteq Ids /\ toStart' \subseteq Ids
          /\ chStates' = [id \in Ids |-> IF (p # port \/ s[id] # setts[id]) /\ s[id] # "absent"
                                           THEN InitialState(s[id]) ELSE chStates[id]]
          /\ calm' \in BOOLEAN
    BY DEF NewSettings, Typed, TypeOK
  <1>2. port' \in 0..MaxSettings /\ settings' \in 0..MaxSettings /\ port' <= settings'
    BY <1>1, ChiefAssumption DEF NewSettings, Typed, TypeOK, Named
  <1>3. chStates' \in [Ids -> {"none", "stopped", "error", "ok"}]
    BY <1>1 DEF Typed, TypeOK, InitialState
  <1> QED
    BY <1>1, <1>2, <1>3 DEF NewSettings, Typed, TypeOK, Named

LEMMA WorkTyped ==
  ASSUME Typed, StopNext \/ Kill \/ Await \/ Remove \/ ScheduleStarts
  PROVE  Typed'
  <1>1. CASE StopNext
    <2>1. PICK id \in toStop :
            /\ toStop' = toStop \ {id}
            /\ \/ bin[id] = 0 /\ UNCHANGED <<work, target>>
               \/ bin[id] # 0 /\ work' = "kill" /\ target' = [id |-> id, start |-> bin[id]]
      BY <1>1 DEF StopNext
    <2>2. /\ target' \in [id : Ids \cup {0}, start : 0..MaxStarts]
          /\ work' # work => target'.start # 0 /\ target'.id \in Ids
      BY <2>1 DEF Typed, TypeOK
    <2> QED
      BY <1>1, <2>1, <2>2 DEF StopNext, Typed, TypeOK, Named, counters
  <1>2. CASE Kill
    <2>1. /\ gor' \in [Starts -> [id : Ids \cup {0}, sett : Settings, at : Places]]
          /\ \A g \in Starts : gor'[g].at # "unused" => gor'[g].id \in Ids
      BY <1>2, PlacesTyped, StartOfTarget DEF Kill, Typed, TypeOK, Named, Places
    <2> QED
      BY <1>2, <2>1 DEF Kill, Typed, TypeOK, Named, counters
  <1>3. CASE Await
    <2>1. PICK g \in Starts : gor[g].at = "killed" /\ Stopped(g)
      BY <1>3 DEF Await
    <2>2. \E p \in Places : gor' = [gor EXCEPT ![g].at = p]
      BY <2>1 DEF Stopped, Places
    <2>3. /\ gor' \in [Starts -> [id : Ids \cup {0}, sett : Settings, at : Places]]
          /\ \A h \in Starts : gor'[h].at # "unused" => gor'[h].id \in Ids
      BY <2>1, <2>2, PlacesTyped
    <2>4. failures' \in 0..MaxFailures /\ calm' \in BOOLEAN
      BY <2>1, FailuresTyped DEF Stopped
    <2> QED
      BY <1>3, <2>3, <2>4 DEF Await, Typed, TypeOK, Named
  <1>4. CASE Remove
    <2>1. target' \in [id : Ids \cup {0}, start : 0..MaxStarts]
      BY <1>4, ChiefAssumption DEF Remove, NoTarget
    <2>2. failures' \in 0..MaxFailures /\ calm' \in BOOLEAN
      BY <1>4, FailuresTyped DEF Remove
    <2>3. bin' \in [Ids -> 0..MaxStarts] /\ closed' \subseteq Starts /\ panicked' \in BOOLEAN
      <3>1. /\ bin' \in {bin, [bin EXCEPT ![target.id] = 0]} /\ closed' \in {closed, closed \cup {target.start}}
            /\ panicked' = panicked \/ panicked' = TRUE
        BY <1>4 DEF Remove
      <3>2. target.start \in Starts /\ target.id \in Ids
        BY <1>4, StartOfTarget DEF Remove
      <3>3. bin' \in [Ids -> 0..MaxStarts]
        BY <3>1, <3>2, ChiefAssumption DEF Typed, TypeOK
      <3> QED
        BY <3>1, <3>2, <3>3 DEF Typed, TypeOK
    <2> QED
      BY <1>4, <2>1, <2>2, <2>3 DEF Remove, Typed, TypeOK, Named
  <1>5. CASE ScheduleStarts
    BY <1>5 DEF ScheduleStarts, Typed, TypeOK, Named, counters
  <1> QED
    BY <1>1, <1>2, <1>3, <1>4, <1>5

LEMMA StartTyped ==
  ASSUME Typed, NEW id \in Ids, Start(id)
  PROVE  Typed'
  <1>1. due' \in [Ids -> Nat]
    <2>1. due[id] \in Nat /\ due[id] > 0 /\ due' = [due EXCEPT ![id] = @ - 1]
      BY DEF Start, Typed, TypeOK
    <2>2. due[id] - 1 \in Nat
      BY <2>1
    <2> QED
      BY <2>1, <2>2 DEF Typed, TypeOK
  <1>2. /\ gor' \in [Starts -> [id : Ids \cup {0}, sett : Settings, at : Places]]
        /\ \A g \in Starts : gor'[g].at # "unused" => gor'[g].id \in Ids
        /\ bin' \in [Ids -> 0..MaxStarts]
    <2>1. CASE UNCHANGED <<gor, bin>>
      BY <2>1 DEF Typed, TypeOK, Named
    <2>2. CASE ~UNCHANGED <<gor, bin>>
      <3>1. PICK g \in Starts :
              /\ gor' = [gor EXCEPT ![g] = [id |-> id, sett |-> setts[id], at |-> "starting"]]
              /\ bin' = [bin EXCEPT ![id] = g]
        BY <2>2 DEF Start
      <3>2. [id |-> id, sett |-> setts[id], at |-> "starting"] \in [id : Ids \cup {0}, sett : Settings, at : Places]
        BY DEF Typed, TypeOK, Places
      <3>3. g \in 0..MaxStarts
        BY DEF Starts
      <3> QED
        BY <3>1, <3>2, <3>3 DEF Typed, TypeOK, Named
    <2> QED
      BY <2>1, <2>2
  <1>3. failures' \in 0..MaxFailures /\ calm' \in BOOLEAN
    BY FailuresTyped DEF Start
  <1> QED
    BY <1>1, <1>2, <1>3 DEF Start, Typed, TypeOK, Named, workVars

\* What the goroutine g of a channel does to the map, the kill channels and itself.
LEMMA DropTyped ==
  ASSUME Typed, NEW id \in Ids, DropEntry(id)
  PROVE  bin' \in [Ids -> 0..MaxStarts] /\ closed' \subseteq Starts /\ panicked' \in BOOLEAN
  <1>1. bin[id] \in 0..MaxStarts
    BY DEF Typed, TypeOK
  <1>2. bin[id] # 0 => bin[id] \in Starts
    BY <1>1 DEF Starts
  <1>3. [bin EXCEPT ![id] = 0] \in [Ids -> 0..MaxStarts]
    BY ChiefAssumption DEF Typed, TypeOK
  <1> QED
    BY <1>2, <1>3 DEF DropEntry, Typed, TypeOK

LEMMA GoroutineTyped ==
  ASSUME Typed, NEW g \in Starts,
         \/ StartChannelProcess(g) \/ StartChannelContainer(g)
         \/ Exit(g) \/ ProcessEnds(g) \/ ContainerEnds(g) \/ ContainerLost(g)
         \/ KilledByClose(g) \/ Heartbeat(g)
  PROVE  Typed'
  <1>1. gor[g].at # "unused" /\ gor[g].id \in Ids
    BY DEF StartChannelProcess, StartChannelContainer, Exit, ProcessEnds, ContainerEnds, ContainerLost,
           KilledByClose, Heartbeat, Typed, Named
  <1>2. CASE Heartbeat(g)
    BY <1>1, <1>2 DEF Heartbeat, Typed, TypeOK, Named, workVars, counters
  <1>3. CASE KilledByClose(g)
    BY <1>1, <1>3, PlacesTyped DEF KilledByClose, Typed, TypeOK, Named, workVars, counters, Places
  <1>4. CASE Exit(g)
    <2>1. \E p \in Places : gor' = [gor EXCEPT ![g].at = p]
      BY <1>4 DEF Exit, Places
    <2>2. exits' \in 0..MaxExits /\ calm' \in BOOLEAN
      BY <1>4, OneMore, ChiefAssumption DEF Exit, Typed, TypeOK
    <2> QED
      BY <1>1, <1>4, <2>1, <2>2, PlacesTyped DEF Exit, Typed, TypeOK, Named, workVars
  <1>5. CASE ProcessEnds(g) \/ ContainerEnds(g)
    <2>1. "done" \in Places
      BY DEF Places
    <2>2. due' \in [Ids -> Nat]
      <3>1. due[gor[g].id] + 1 \in Nat
        BY <1>1 DEF Typed, TypeOK
      <3>2. due' \in {due, [due EXCEPT ![gor[g].id] = @ + 1]}
        BY <1>5 DEF ProcessEnds, ContainerEnds, CheckChannelWorking
      <3> QED
        BY <3>1, <3>2 DEF Typed, TypeOK
    <2>3. chStates' \in [Ids -> {"none", "stopped", "error", "ok"}]
      BY <1>1, <1>5 DEF ProcessEnds, ContainerEnds, Typed, TypeOK
    <2> QED
      BY <1>1, <1>5, <2>1, <2>2, <2>3, PlacesTyped, DropTyped
         DEF ProcessEnds, ContainerEnds, Typed, TypeOK, Named, workVars, counters
  <1>6. CASE ContainerLost(g)
    <2>1. \E p \in Places : gor' = [gor EXCEPT ![g].at = p]
      BY <1>6 DEF ContainerLost, Places
    <2>2. failures' \in 0..MaxFailures /\ calm' \in BOOLEAN
      BY <1>6, FailuresTyped DEF ContainerLost
    <2> QED
      BY <1>1, <1>6, <2>1, <2>2, PlacesTyped, DropTyped DEF ContainerLost, Typed, TypeOK, Named, workVars
  <1>7. CASE StartChannelProcess(g) \/ StartChannelContainer(g)
    <2>1. \E p \in Places : gor' = [gor EXCEPT ![g].at = p]
      BY <1>7 DEF StartChannelProcess, StartChannelContainer, Launched, LaunchFails, Places
    <2>2. failures' \in 0..MaxFailures /\ calm' \in BOOLEAN
      BY <1>7, FailuresTyped DEF StartChannelProcess, StartChannelContainer, Launched, LaunchFails
    <2>3. bin' \in [Ids -> 0..MaxStarts] /\ closed' \subseteq Starts /\ panicked' \in BOOLEAN
      BY <1>1, <1>7, DropTyped DEF StartChannelProcess, StartChannelContainer, Launched, Typed, TypeOK
    <2> QED
      BY <1>1, <1>7, <2>1, <2>2, <2>3, PlacesTyped
         DEF StartChannelProcess, StartChannelContainer, Typed, TypeOK, Named, workVars
  <1> QED
    BY <1>2, <1>3, <1>4, <1>5, <1>6, <1>7

LEMMA NextTyped == Typed /\ [Next]_vars => Typed'
  <1> SUFFICES ASSUME Typed, [Next]_vars
               PROVE  Typed'
    OBVIOUS
  <1>1. CASE UNCHANGED vars
    BY <1>1 DEF vars, Typed, TypeOK, Named
  <1>2. CASE \E id \in Ids : Tick(id)
    BY <1>2 DEF Tick, InitialState, Typed, TypeOK, Named, workVars, counters
  <1> QED
    BY <1>1, <1>2, NewSettingsTyped, WorkTyped, StartTyped, GoroutineTyped DEF Next

\* The variables of the model keep their types: no handler of Work and no
\* goroutine of a channel leaves the map, the list or the places it writes to.
THEOREM TypeCorrect == Spec => []TypeOK
  BY InitTyped, NextTyped, PTL DEF Spec, Typed

(***************************************************************************)
(* The map of kill channels, as long as calm holds.  What makes it work is *)
(* who may touch a channel when: while Work has it on its list or kills    *)
(* it, no start of it is due and its process just runs; while a start is   *)
(* due, it has no entry.  An entry whose goroutine is gone exists only for *)
(* the start that Work is about to collect.                                *)
(***************************************************************************)
Stopping(id) == id \in toStop \/ (target.start # 0 /\ id = target.id)

\* A process can be stopped: its kill channel is registered, and open.
Registered == \A g \in Starts : gor[g].at \in Alive => bin[gor[g].id] = g /\ g \notin closed

Entries ==
  \A id \in Ids : bin[id] # 0 =>
    /\ gor[bin[id]].id = id /\ bin[id] \notin closed
    /\ gor[bin[id]].at \in Alive \/ bin[id] = target.start
    /\ Working(setts[id]) \/ Stopping(id)

Closed == \A g \in closed : gor[g].at = "done"

DueStarts == \A id \in Ids : due[id] # 0 => due[id] = 1 /\ bin[id] = 0 /\ Working(setts[id])

Chosen ==
  /\ \A id \in Ids : Stopping(id) => due[id] = 0
  /\ \A g \in Starts : gor[g].at \in Alive /\ Stopping(gor[g].id) => gor[g].at = "running"
  /\ \A id \in toStart : due[id] = 0 /\ Working(setts[id]) /\ (bin[id] = 0 \/ Stopping(id))

AtWork ==
  /\ work \in {"select", "stop"} => target.start = 0
  /\ work = "select" => toStop = {} /\ toStart = {}
  /\ work \in {"kill", "await", "remove"} => bin[target.id] = target.start
  /\ work = "kill" => gor[target.start].at = "running"
  /\ work = "await" => gor[target.start].at = "killed"
  /\ work = "remove" => gor[target.start].at = "done"
  /\ \A g \in Starts : gor[g].at = "killed" => g = target.start

Orderly == ~panicked /\ Registered /\ Entries /\ Closed /\ DueStarts /\ Chosen /\ AtWork

LEMMA InitOrderly == Init => Orderly
  BY DEF Init, Orderly, Registered, Entries, Closed, DueStarts, Chosen, AtWork, Stopping, NoTarget, Alive

\* Entries that exist lead to goroutines that were started.
LEMMA EntryOf ==
  ASSUME Typed, NEW id \in Ids, bin[id] # 0
  PROVE  bin[id] \in Starts
  BY DEF Typed, TypeOK, Starts

LEMMA StartsCount == \A g \in Starts : g # 0
  BY DEF Starts

LEMMA NewSettingsOrderly ==
  ASSUME Typed, Orderly, NewSettings, calm'
  PROVE  Orderly'
  <1>1. PICK p \in {port, port + 1} \ {0}, s \in [Ids -> Settings] :
          /\ setts' = s
          /\ toStop' = {id \in {x \in Ids : p # port \/ s[x] # setts[x]} : Working(setts[id])}
          /\ toStart' = {id \in {x \in Ids : p # port \/ s[x] # setts[x]} : Working(s[id])}
          /\ calm' = (calm /\ \A id \in {x \in Ids : p # port \/ s[x] # setts[x]} : Settled(id))
    BY DEF NewSettings
  <1>2. /\ UNCHANGED <<target, due, bin, gor, closed, panicked>>
        /\ work = "select" /\ work' = "stop" /\ target.start = 0 /\ toStop = {} /\ toStart = {}
    BY DEF NewSettings, Orderly, AtWork
  <1>3. \A id \in Ids : Stopping(id)' => Settled(id) /\ Working(setts[id])
    BY <1>1, <1>2 DEF Stopping
  <1>4. \A id \in Ids : setts'[id] # setts[id] => Settled(id) /\ (Working(setts[id]) => Stopping(id)')
    BY <1>1, <1>2 DEF Stopping
  <1>5. \A id \in toStart' : id \in Ids /\ Settled(id) /\ Working(setts'[id]) /\ (Working(setts[id]) => Stopping(id)')
    BY <1>1, <1>2 DEF Stopping
  <1>6. ~panicked' /\ Registered' /\ Closed'
    BY <1>2 DEF Orderly, Registered, Closed
  <1>7. \A id \in Ids : ~Stopping(id)
    BY <1>2 DEF Stopping
  <1>8. Entries'
    BY <1>2, <1>4, <1>7 DEF Orderly, Entries
  <1>9. DueStarts'
    BY <1>2, <1>4 DEF Orderly, DueStarts, Settled
  <1>10. Chosen'
    <2>1. \A id \in Ids : Stopping(id)' => due'[id] = 0
      BY <1>2, <1>3 DEF Settled
    <2>2. \A g \in Starts : gor'[g].at \in Alive /\ Stopping(gor[g].id)' => gor'[g].at = "running"
      BY <1>2, <1>3 DEF Settled, Goroutines, Typed, Named, Alive
    <2>3. \A id \in toStart' : due'[id] = 0 /\ Working(setts'[id]) /\ (bin'[id] = 0 \/ Stopping(id)')
      BY <1>2, <1>5, <1>7 DEF Settled, Orderly, Entries
    <2> QED
      BY <1>2, <2>1, <2>2, <2>3 DEF Chosen, Stopping
  <1>11. AtWork'
    BY <1>2 DEF Orderly, AtWork
  <1> QED
    BY <1>6, <1>8, <1>9, <1>10, <1>11 DEF Orderly

LEMMA StopNextOrderly ==
  ASSUME Typed, Orderly, StopNext
  PROVE  Orderly'
  <1>1. PICK id \in toStop :
          /\ toStop' = toStop \ {id}
          /\ \/ bin[id] = 0 /\ UNCHANGED <<work, target>>
             \/ bin[id] # 0 /\ work' = "kill" /\ target' = [id |-> id, start |-> bin[id]]
    BY DEF StopNext
  <1>2. /\ UNCHANGED <<setts, toStart, due, bin, gor, closed, panicked>>
        /\ work = "stop" /\ target.start = 0 /\ id \in Ids
    BY DEF StopNext, Orderly, AtWork, Typed, TypeOK
  <1>3. bin[id] # 0 => bin[id] \in Starts /\ gor[bin[id]].at = "running"
    BY <1>2, EntryOf DEF Orderly, Entries, Chosen, Stopping
  <1>4. \A x \in Ids : Stopping(x)' => Stopping(x)
    BY <1>1, <1>2 DEF Stopping
  <1>5. \A x \in Ids : bin[x] # 0 /\ Stopping(x) => Stopping(x)'
    BY <1>1, <1>2 DEF Stopping
  <1>6. ~panicked' /\ Registered' /\ Closed' /\ DueStarts'
    BY <1>2 DEF Orderly, Registered, Closed, DueStarts
  <1>7. Entries'
    BY <1>2, <1>5 DEF Orderly, Entries
  <1>8. Chosen'
    <2>1. \A x \in Ids : Stopping(x)' => due'[x] = 0
      BY <1>2, <1>4 DEF Orderly, Chosen
    <2>2. \A g \in Starts : gor'[g].at \in Alive /\ Stopping(gor[g].id)' => gor'[g].at = "running"
      BY <1>2, <1>4 DEF Orderly, Chosen, Typed, Named, Alive
    <2>3. \A x \in toStart' : due'[x] = 0 /\ Working(setts'[x]) /\ (bin'[x] = 0 \/ Stopping(x)')
      BY <1>2, <1>5 DEF Orderly, Chosen, Typed, TypeOK
    <2> QED
      BY <1>2, <2>1, <2>2, <2>3 DEF Chosen, Stopping
  <1>9. AtWork'
    <2>1. \A g \in Starts : gor[g].at # "killed"
      BY <1>2, StartsCount DEF Orderly, AtWork
    <2>2. CASE bin[id] = 0
      BY <1>1, <1>2, <2>1, <2>2 DEF Orderly, AtWork
    <2>3. CASE bin[id] # 0
      BY <1>1, <1>2, <1>3, <2>1, <2>3 DEF Orderly, AtWork
    <2> QED
      BY <2>2, <2>3
  <1> QED
    BY <1>6, <1>7, <1>8, <1>9 DEF Orderly

\* The goroutine of the target is running: it listens, and its kill channel is open.
LEMMA KillOrderly ==
  ASSUME Typed, Orderly, Kill
  PROVE  Orderly'
  <1> DEFINE t == target.start
  <1>1. t \in Starts /\ target.id \in Ids /\ bin[target.id] = t /\ gor[t].at = "running"
    BY StartOfTarget DEF Kill, Orderly, AtWork
  <1>2. t \notin closed /\ gor[t].id = target.id
    BY <1>1, StartsCount DEF Orderly, Registered, Entries, Alive
  <1>3. /\ gor' = [gor EXCEPT ![t].at = "killed"] /\ work' = "await" /\ work = "kill"
        /\ UNCHANGED <<setts, toStop, toStart, target, due, bin, closed, panicked>>
    BY <1>2 DEF Kill, workVars
  <1>4. \A g \in Starts : gor'[g].id = gor[g].id /\ (g # t => gor'[g].at = gor[g].at)
    BY <1>3 DEF Typed, TypeOK
  <1>5. gor'[t].at = "killed"
    BY <1>1, <1>3 DEF Typed, TypeOK
  <1>6. \A id : Stopping(id)' <=> Stopping(id)
    BY <1>3 DEF Stopping
  <1> HIDE DEF t
  <1>7. ~panicked' /\ Registered' /\ Closed'
    BY <1>2, <1>3, <1>4, <1>5 DEF Orderly, Registered, Closed, Alive, Typed, TypeOK
  <1>8. Entries'
    BY <1>3, <1>4, <1>5, <1>6, EntryOf DEF Orderly, Entries, t
  <1>9. DueStarts' /\ Chosen'
    BY <1>3, <1>4, <1>5, <1>6 DEF Orderly, DueStarts, Chosen, Alive
  <1>10. AtWork'
    BY <1>1, <1>3, <1>4, <1>5 DEF Orderly, AtWork, t
  <1> QED
    BY <1>7, <1>8, <1>9, <1>10 DEF Orderly

\* Only that goroutine waits to push into killerChan, so Work collects the right one.
LEMMA AwaitOrderly ==
  ASSUME Typed, Orderly, Await, calm'
  PROVE  Orderly'
  <1> DEFINE t == target.start
  <1>1. t \in Starts /\ target.id \in Ids /\ bin[target.id] = t /\ gor[t].at = "killed"
    BY StartOfTarget DEF Await, Orderly, AtWork
  <1>2. t \notin closed /\ gor[t].id = target.id
    BY <1>1, StartsCount DEF Orderly, Entries
  <1>3. /\ work = "await" /\ work' = "remove"
        /\ UNCHANGED <<setts, toStop, toStart, target, due, bin, closed, panicked>>
    BY DEF Await
  <1>4. PICK g \in Starts : gor[g].at = "killed" /\ Stopped(g)
    BY DEF Await
  <1>5. gor' = [gor EXCEPT ![t].at = "done"]
    BY <1>4 DEF Stopped, Orderly, AtWork
  <1>6. \A h \in Starts : gor'[h].id = gor[h].id /\ (h # t => gor'[h].at = gor[h].at)
    BY <1>5 DEF Typed, TypeOK
  <1>7. gor'[t].at = "done"
    BY <1>1, <1>5 DEF Typed, TypeOK
  <1>8. \A id : Stopping(id)' <=> Stopping(id)
    BY <1>3 DEF Stopping
  <1> HIDE DEF t
  <1>9. ~panicked' /\ Registered' /\ Closed'
    BY <1>2, <1>3, <1>6, <1>7 DEF Orderly, Registered, Closed, Alive, Typed, TypeOK
  <1>10. Entries'
    BY <1>3, <1>6, <1>7, <1>8, EntryOf DEF Orderly, Entries, t
  <1>11. DueStarts' /\ Chosen'
    BY <1>3, <1>6, <1>7, <1>8 DEF Orderly, DueStarts, Chosen, Alive
  <1>12. AtWork'
    BY <1>1, <1>3, <1>6, <1>7 DEF Orderly, AtWork, t
  <1> QED
    BY <1>9, <1>10, <1>11, <1>12 DEF Orderly

LEMMA RemoveOrderly ==
  ASSUME Typed, Orderly, Remove, calm'
  PROVE  Orderly'
  <1> DEFINE t == target.start
             x == target.id
  <1>1. t \in Starts /\ x \in Ids /\ bin[x] = t /\ gor[t].at = "done"
    BY StartOfTarget DEF Remove, Orderly, AtWork
  <1>2. t \notin closed /\ gor[t].id = x
    BY <1>1, StartsCount DEF Orderly, Entries
  <1>3. /\ work' = "stop" /\ target' = NoTarget /\ work = "remove"
        /\ closed' = closed \cup {t} /\ bin' = [bin EXCEPT ![x] = 0]
        /\ UNCHANGED <<setts, toStop, toStart, due, gor, panicked>>
    BY <1>2 DEF Remove
  <1>4. target'.start = 0
    BY <1>3 DEF NoTarget
  <1> HIDE DEF t, x
  <1>5. bin'[x] = 0 /\ \A id \in Ids : id # x => bin'[id] = bin[id]
    BY <1>1, <1>3 DEF Typed, TypeOK
  <1>6. \A id \in Ids : Stopping(id)' <=> id \in toStop
    BY <1>3, <1>4 DEF Stopping
  <1>7. \A id \in Ids : id # x => (Stopping(id) <=> id \in toStop)
    BY DEF Stopping, x
  <1>8. Closed' /\ ~panicked'
    BY <1>1, <1>3 DEF Orderly, Closed
  <1>9. Registered'
    <2>1. \A g \in Starts : gor[g].at \in Alive => g # t
      BY <1>1 DEF Alive
    <2>2. \A g \in Starts : gor[g].at \in Alive => gor[g].id # x
      BY <1>1, <2>1 DEF Orderly, Registered
    <2>3. \A g \in Starts : gor[g].at \in Alive => gor[g].id \in Ids
      BY DEF Alive, Typed, Named
    <2> QED
      BY <1>3, <1>5, <2>1, <2>2, <2>3 DEF Orderly, Registered
  <1>10. Entries'
    <2> SUFFICES ASSUME NEW id \in Ids, bin'[id] # 0
                 PROVE  /\ gor'[bin'[id]].id = id /\ bin'[id] \notin closed'
                        /\ gor'[bin'[id]].at \in Alive \/ bin'[id] = target'.start
                        /\ Working(setts'[id]) \/ Stopping(id)'
      BY DEF Entries
    <2>1. id # x /\ bin'[id] = bin[id] /\ bin[id] # 0
      BY <1>5
    <2>2. bin[id] # t
      BY <1>2, <2>1 DEF Orderly, Entries
    <2> QED
      BY <1>3, <1>6, <1>7, <2>1, <2>2 DEF Orderly, Entries, t
  <1>11. DueStarts'
    BY <1>3, <1>5 DEF Orderly, DueStarts
  <1>12. Chosen'
    <2>1. \A id \in Ids : Stopping(id)' => due'[id] = 0
      BY <1>3, <1>6 DEF Orderly, Chosen, Stopping
    <2>2. \A g \in Starts : gor'[g].at \in Alive /\ Stopping(gor[g].id)' => gor'[g].at = "running"
      BY <1>3, <1>6 DEF Orderly, Chosen, Stopping, Alive, Typed, Named
    <2>3. \A id \in toStart' : due'[id] = 0 /\ Working(setts'[id]) /\ (bin'[id] = 0 \/ Stopping(id)')
      BY <1>3, <1>5, <1>6, <1>7 DEF Orderly, Chosen, Typed, TypeOK
    <2> QED
      BY <1>3, <2>1, <2>2, <2>3 DEF Chosen, Stopping
  <1>13. AtWork'
    <2>1. \A g \in Starts : gor[g].at # "killed"
      BY <1>1 DEF Orderly, AtWork, t
    <2> QED
      BY <1>3, <1>4, <2>1 DEF Orderly, AtWork
  <1> QED
    BY <1>8, <1>9, <1>10, <1>11, <1>12, <1>13 DEF Orderly

LEMMA ScheduleStartsOrderly ==
  ASSUME Typed, Orderly, ScheduleStarts
  PROVE  Orderly'
  <1>1. /\ work = "stop" /\ toStop = {} /\ work' = "select" /\ toStart' = {} /\ target.start = 0
        /\ UNCHANGED <<setts, toStop, target, bin, gor, closed, panicked>>
    BY DEF ScheduleStarts, Orderly, AtWork
  <1>2. \A id : ~Stopping(id) /\ ~Stopping(id)'
    BY <1>1 DEF Stopping
  <1>3. \A id \in Ids : due'[id] = IF id \in toStart THEN due[id] + 1 ELSE due[id]
    BY DEF ScheduleStarts
  <1>4. ~panicked' /\ Registered' /\ Closed'
    BY <1>1 DEF Orderly, Registered, Closed
  <1>5. Entries'
    BY <1>1, <1>2 DEF Orderly, Entries
  <1>6. DueStarts'
    BY <1>1, <1>2, <1>3 DEF Orderly, DueStarts, Chosen
  <1>7. Chosen'
    BY <1>1, <1>2 DEF Chosen, Stopping
  <1>8. AtWork'
    BY <1>1 DEF Orderly, AtWork
  <1> QED
    BY <1>4, <1>5, <1>6, <1>7, <1>8 DEF Orderly

\* A start finds no entry and no process of the channel; both are its own then.
LEMMA StartOrderly ==
  ASSUME Typed, Orderly, NEW id \in Ids, Start(id), calm'
  PROVE  Orderly'
  <1>1. /\ due[id] = 1 /\ due' = [due EXCEPT ![id] = 0] /\ bin[id] = 0 /\ Working(setts[id])
        /\ UNCHANGED <<work, setts, toStop, toStart, target, closed, panicked>>
    <2>1. due[id] \in Nat /\ due[id] > 0 /\ due' = [due EXCEPT ![id] = due[id] - 1]
      BY DEF Start, Typed, TypeOK
    <2>2. due[id] = 1 /\ bin[id] = 0 /\ Working(setts[id])
      BY <2>1 DEF Orderly, DueStarts
    <2> QED
      BY <2>1, <2>2 DEF Start, workVars
  <1>2. due'[id] = 0 /\ \A x \in Ids : x # id => due'[x] = due[x]
    BY <1>1 DEF Typed, TypeOK
  <1>3. ~Stopping(id) /\ id \notin toStart
    BY <1>1 DEF Orderly, Chosen
  <1>4. \A x : Stopping(x)' <=> Stopping(x)
    BY <1>1 DEF Stopping
  <1>5. CASE UNCHANGED <<gor, bin>>
    <2>1. Registered' /\ Entries' /\ Closed' /\ AtWork' /\ ~panicked'
      BY <1>1, <1>4, <1>5 DEF Orderly, Registered, Entries, Closed, AtWork
    <2>2. DueStarts'
      BY <1>1, <1>2, <1>5 DEF Orderly, DueStarts
    <2>3. Chosen'
      <3>1. \A x \in Ids : Stopping(x)' => due'[x] = 0
        BY <1>2, <1>4 DEF Orderly, Chosen
      <3>2. \A x \in toStart' : due'[x] = 0
        BY <1>1, <1>2 DEF Orderly, Chosen, Typed, TypeOK
      <3> QED
        BY <1>1, <1>4, <1>5, <3>1, <3>2 DEF Orderly, Chosen
    <2> QED
      BY <2>1, <2>2, <2>3 DEF Orderly
  <1>6. CASE ~UNCHANGED <<gor, bin>>
    <2>1. PICK g \in Starts :
            /\ gor[g].at = "unused" /\ bin' = [bin EXCEPT ![id] = g]
            /\ gor' = [gor EXCEPT ![g] = [id |-> id, sett |-> setts[id], at |-> "starting"]]
      BY <1>6 DEF Start
    <2>2. /\ gor'[g].id = id /\ gor'[g].at = "starting"
          /\ \A h \in Starts : h # g => gor'[h] = gor[h]
      BY <2>1 DEF Typed, TypeOK
    <2>3. bin'[id] = g /\ \A x \in Ids : x # id => bin'[x] = bin[x]
      BY <2>1 DEF Typed, TypeOK
    <2>4. \A h \in Starts : gor[h].at \in Alive => gor[h].id # id /\ gor[h].id \in Ids
      BY <1>1, StartsCount DEF Orderly, Registered, Typed, Named, Alive
    <2>5. g \notin closed /\ g # 0 /\ g # target.start
      <3>1. CASE work \in {"select", "stop"}
        BY <2>1, <3>1, StartsCount DEF Orderly, Closed, AtWork
      <3>2. CASE work \in {"kill", "await", "remove"}
        BY <2>1, <3>2, StartsCount DEF Orderly, Closed, AtWork
      <3> QED
        BY <3>1, <3>2 DEF Typed, TypeOK
    <2>6. Registered'
      BY <1>1, <2>2, <2>3, <2>4, <2>5 DEF Orderly, Registered
    <2>7. Entries'
      <3> SUFFICES ASSUME NEW x \in Ids, bin'[x] # 0
                   PROVE  /\ gor'[bin'[x]].id = x /\ bin'[x] \notin closed'
                          /\ gor'[bin'[x]].at \in Alive \/ bin'[x] = target'.start
                          /\ Working(setts'[x]) \/ Stopping(x)'
        BY DEF Entries
      <3>1. CASE x = id
        BY <1>1, <2>2, <2>3, <2>5, <3>1 DEF Alive
      <3>2. CASE x # id
        <4>1. bin'[x] = bin[x] /\ bin[x] \in Starts
          BY <2>3, <3>2, EntryOf
        <4>2. bin[x] # g
          BY <2>1, <2>3, <2>5, <3>2 DEF Orderly, Entries, Alive
        <4> QED
          BY <1>1, <1>4, <2>2, <4>1, <4>2 DEF Orderly, Entries
      <3> QED
        BY <3>1, <3>2
    <2>8. Closed' /\ ~panicked'
      BY <1>1, <2>2, <2>5 DEF Orderly, Closed, Typed, TypeOK
    <2>9. DueStarts'
      BY <1>1, <1>2, <2>3 DEF Orderly, DueStarts
    <2>10. Chosen'
      <3>1. \A x \in Ids : Stopping(x)' => due'[x] = 0
        BY <1>2, <1>4 DEF Orderly, Chosen
      <3>2. \A x \in toStart' : due'[x] = 0 /\ Working(setts'[x]) /\ (bin'[x] = 0 \/ Stopping(x)')
        BY <1>1, <1>2, <1>3, <1>4, <2>3 DEF Orderly, Chosen, Typed, TypeOK
      <3>3. \A h \in Starts : gor'[h].at \in Alive /\ Stopping(gor[h].id)' => gor'[h].at = "running"
        BY <1>3, <1>4, <2>2 DEF Orderly, Chosen
      <3> QED
        BY <3>1, <3>2, <3>3 DEF Chosen, Stopping
    <2>11. AtWork'
      <3>1. bin'[target.id] = bin[target.id] \/ work \in {"select", "stop"}
        BY <1>1, <2>1, StartOfTarget DEF Orderly, AtWork, Typed, TypeOK, Named
      <3>2. \A h \in Starts : gor'[h].at = "killed" => h = target.start
        BY <2>2 DEF Orderly, AtWork
      <3>3. target.start \in Starts => gor'[target.start] = gor[target.start]
        BY <2>2, <2>5
      <3>4. work \in {"kill", "await", "remove"} => target.start \in Starts
        BY StartOfTarget
      <3> QED
        BY <1>1, <3>1, <3>2, <3>3, <3>4 DEF Orderly, AtWork
    <2> QED
      BY <2>6, <2>7, <2>8, <2>9, <2>10, <2>11 DEF Orderly
  <1> QED
    BY <1>5, <1>6

\* A goroutine that goes on from one living place to another, its process up or not.
LEMMA AliveOrderly ==
  ASSUME Typed, Orderly, NEW g \in Starts, NEW p \in Alive,
         gor[g].at \in Alive, gor' = [gor EXCEPT ![g].at = p],
         Stopping(gor[g].id) => p = "running",
         UNCHANGED <<workVars, due, bin, closed, panicked>>
  PROVE  Orderly'
  <1>1. /\ gor'[g].id = gor[g].id /\ gor'[g].at = p /\ p # "killed"
        /\ \A h \in Starts : h # g => gor'[h] = gor[h]
    BY DEF Typed, TypeOK, Alive
  <1>2. UNCHANGED <<work, setts, toStop, toStart, target, due, bin, closed, panicked>>
    BY DEF workVars
  <1>3. \A id : Stopping(id)' <=> Stopping(id)
    BY <1>2 DEF Stopping
  <1>4. Registered' /\ Closed' /\ DueStarts' /\ ~panicked'
    BY <1>1, <1>2 DEF Orderly, Registered, Closed, DueStarts, Typed, TypeOK, Alive
  <1>5. Entries'
    BY <1>1, <1>2, <1>3, EntryOf DEF Orderly, Entries
  <1>6. Chosen'
    BY <1>1, <1>2, <1>3 DEF Orderly, Chosen
  <1>7. AtWork'
    <2>1. work = "kill" => gor'[target.start].at = "running"
      <3> SUFFICES ASSUME work = "kill"
                   PROVE  gor'[target.start].at = "running"
        OBVIOUS
      <3>1. target.start \in Starts /\ target.id \in Ids /\ bin[target.id] = target.start /\ target.start # 0
        BY StartOfTarget, StartsCount DEF Orderly, AtWork
      <3>2. gor[target.start].id = target.id
        BY <3>1 DEF Orderly, Entries
      <3> QED
        BY <1>1, <3>1, <3>2 DEF Stopping, Orderly, AtWork
    <2>2. work \in {"await", "remove"} => gor'[target.start] = gor[target.start]
      BY <1>1, StartOfTarget DEF Orderly, AtWork, Alive
    <2>3. \A h \in Starts : gor'[h].at = "killed" => h = target.start
      BY <1>1 DEF Orderly, AtWork
    <2> QED
      BY <1>2, <2>1, <2>2, <2>3 DEF Orderly, AtWork
  <1> QED
    BY <1>4, <1>5, <1>6, <1>7 DEF Orderly

\* A container that nobody looks after ends: the map does not know it.
LEMMA OrphanOrderly ==
  ASSUME Typed, Orderly, NEW g \in Starts, gor[g].at = "orphan",
         gor' = [gor EXCEPT ![g].at = "done"],
         UNCHANGED <<workVars, due, bin, closed, panicked>>
  PROVE  Orderly'
  <1>1. /\ gor'[g].id = gor[g].id /\ gor'[g].at = "done"
        /\ \A h \in Starts : h # g => gor'[h] = gor[h]
    BY DEF Typed, TypeOK
  <1>2. UNCHANGED <<work, setts, toStop, toStart, target, due, bin, closed, panicked>>
    BY DEF workVars
  <1>3. \A id : Stopping(id)' <=> Stopping(id)
    BY <1>2 DEF Stopping
  <1>4. Registered' /\ Closed' /\ DueStarts' /\ ~panicked'
    BY <1>1, <1>2 DEF Orderly, Registered, Closed, DueStarts, Typed, TypeOK, Alive
  <1>5. Entries'
    BY <1>1, <1>2, <1>3, EntryOf DEF Orderly, Entries, Alive
  <1>6. Chosen'
    BY <1>1, <1>2, <1>3 DEF Orderly, Chosen, Alive
  <1>7. AtWork'
    BY <1>1, <1>2, StartOfTarget DEF Orderly, AtWork
  <1> QED
    BY <1>4, <1>5, <1>6, <1>7 DEF Orderly

\* A process that ended: its entry is dropped, and Work is busy with others.
LEMMA EndOrderly ==
  ASSUME Typed, Orderly, NEW g \in Starts, ProcessEnds(g) \/ ContainerEnds(g)
  PROVE  Orderly'
  <1> DEFINE id == gor[g].id
  <1>1. /\ gor[g].at = "exited" /\ gor' = [gor EXCEPT ![g].at = "done"]
        /\ DropEntry(id) /\ CheckChannelWorking(id)
        /\ UNCHANGED <<work, setts, toStop, toStart, target>>
    BY DEF ProcessEnds, ContainerEnds, workVars
  <1>2. id \in Ids /\ bin[id] = g /\ g \notin closed /\ g # 0
    BY <1>1, StartsCount DEF Typed, Named, Orderly, Registered, Alive
  <1>3. ~Stopping(id) /\ Working(setts[id]) /\ due[id] = 0
    <2>1. ~Stopping(id)
      BY <1>1 DEF Orderly, Chosen, Alive
    <2> QED
      BY <1>2, <2>1 DEF Orderly, Entries, DueStarts
  <1>4. id \notin toStart
    BY <1>2, <1>3 DEF Orderly, Chosen
  <1>5. closed' = closed \cup {g} /\ bin' = [bin EXCEPT ![id] = 0] /\ panicked' = panicked
    BY <1>1, <1>2 DEF DropEntry
  <1> HIDE DEF id
  <1>6. bin'[id] = 0 /\ \A x \in Ids : x # id => bin'[x] = bin[x]
    BY <1>2, <1>5 DEF Typed, TypeOK
  <1>7. due' = [due EXCEPT ![id] = due[id] + 1]
    BY <1>1, <1>3, <1>6 DEF CheckChannelWorking
  <1>8. due'[id] = 1 /\ \A x \in Ids : x # id => due'[x] = due[x]
    BY <1>2, <1>3, <1>7 DEF Typed, TypeOK
  <1>9. /\ gor'[g].at = "done" /\ gor'[g].id = id
        /\ \A h \in Starts : h # g => gor'[h] = gor[h]
    BY <1>1 DEF Typed, TypeOK, id
  <1>10. \A x : Stopping(x)' <=> Stopping(x)
    BY <1>1 DEF Stopping
  <1>11. \A h \in Starts : gor[h].at \in Alive /\ h # g => gor[h].id # id /\ gor[h].id \in Ids
    BY <1>2 DEF Orderly, Registered, Typed, Named, Alive
  <1>12. Registered'
    BY <1>5, <1>6, <1>9, <1>11 DEF Orderly, Registered, Alive
  <1>13. Entries'
    <2> SUFFICES ASSUME NEW x \in Ids, bin'[x] # 0
                 PROVE  /\ gor'[bin'[x]].id = x /\ bin'[x] \notin closed'
                        /\ gor'[bin'[x]].at \in Alive \/ bin'[x] = target'.start
                        /\ Working(setts'[x]) \/ Stopping(x)'
      BY DEF Entries
    <2>1. x # id /\ bin'[x] = bin[x] /\ bin[x] \in Starts
      BY <1>6, EntryOf
    <2>2. bin[x] # g
      BY <1>6, <2>1 DEF Orderly, Entries, id
    <2> QED
      BY <1>1, <1>5, <1>9, <1>10, <2>1, <2>2 DEF Orderly, Entries
  <1>14. Closed' /\ ~panicked'
    BY <1>5, <1>9 DEF Orderly, Closed, Typed, TypeOK
  <1>15. DueStarts'
    BY <1>1, <1>3, <1>6, <1>8 DEF Orderly, DueStarts
  <1>16. Chosen'
    <2>1. \A x \in Ids : Stopping(x)' => due'[x] = 0
      BY <1>3, <1>8, <1>10 DEF Orderly, Chosen
    <2>2. \A h \in Starts : gor'[h].at \in Alive /\ Stopping(gor[h].id)' => gor'[h].at = "running"
      BY <1>9, <1>10 DEF Orderly, Chosen, Alive
    <2>3. \A x \in toStart' : due'[x] = 0 /\ Working(setts'[x]) /\ (bin'[x] = 0 \/ Stopping(x)')
      BY <1>1, <1>4, <1>6, <1>8, <1>10 DEF Orderly, Chosen, Typed, TypeOK
    <2>4. \A h \in Starts : gor'[h].id = gor[h].id
      BY <1>9 DEF id
    <2> QED
      BY <2>1, <2>2, <2>3, <2>4 DEF Chosen, Stopping
  <1>17. AtWork'
    <2>1. work \in {"kill", "await", "remove"} => target.id # id /\ target.id \in Ids /\ target.start \in Starts
      BY <1>3, StartOfTarget, StartsCount DEF Stopping
    <2>2. work \in {"kill", "await", "remove"} => target.start # g
      BY <1>1, StartOfTarget DEF Orderly, AtWork
    <2>3. \A h \in Starts : gor'[h].at = "killed" => h = target.start
      BY <1>9 DEF Orderly, AtWork
    <2> QED
      BY <1>1, <1>6, <1>9, <2>1, <2>2, <2>3 DEF Orderly, AtWork
  <1> QED
    BY <1>12, <1>13, <1>14, <1>15, <1>16, <1>17 DEF Orderly

LEMMA GoroutineOrderly ==
  ASSUME Typed, Orderly, NEW g \in Starts, calm',
         \/ StartChannelProcess(g) \/ StartChannelContainer(g)
         \/ Exit(g) \/ ContainerLost(g) \/ KilledByClose(g) \/ Heartbeat(g)
  PROVE  Orderly'
  <1>1. CASE Heartbeat(g)
    BY <1>1 DEF Heartbeat, workVars, Orderly, Registered, Entries, Closed, DueStarts, Chosen, AtWork, Stopping
  <1>2. CASE KilledByClose(g)
    BY <1>2 DEF KilledByClose, Orderly, Closed
  <1>3. CASE ContainerLost(g)
    BY <1>3 DEF ContainerLost
  <1>4. CASE Exit(g)
    <2>1. gor[g].at \in {"running", "orphan"} /\ UNCHANGED <<workVars, due, bin, closed, panicked>>
      BY <1>4 DEF Exit
    <2>2. CASE gor[g].at = "running"
      <3>1. gor' = [gor EXCEPT ![g].at = "exited"] /\ ~Stopping(gor[g].id)
        BY <1>4, <2>2 DEF Exit, Stopping
      <3> QED
        BY <2>1, <2>2, <3>1, AliveOrderly DEF Alive
    <2>3. CASE gor[g].at = "orphan"
      <3>1. gor' = [gor EXCEPT ![g].at = "done"]
        BY <1>4, <2>3 DEF Exit
      <3> QED
        BY <2>1, <2>3, <3>1, OrphanOrderly
    <2> QED
      BY <2>1, <2>2, <2>3
  <1>5. CASE StartChannelProcess(g) \/ StartChannelContainer(g)
    <2>1. gor[g].at = "starting" /\ gor' = [gor EXCEPT ![g].at = "running"]
      BY <1>5 DEF StartChannelProcess, StartChannelContainer, Launched, LaunchFails
    <2>2. UNCHANGED <<workVars, due, bin, closed, panicked>>
      BY <1>5 DEF StartChannelProcess, StartChannelContainer, Launched, LaunchFails
    <2> QED
      BY <2>1, <2>2, AliveOrderly DEF Alive
  <1> QED
    BY <1>1, <1>2, <1>3, <1>4, <1>5

LEMMA NextOrderly == Typed /\ (calm => Orderly) /\ [Next]_vars => (calm' => Orderly')
  <1> SUFFICES ASSUME Typed, calm => Orderly, [Next]_vars, calm'
               PROVE  Orderly'
    OBVIOUS
  <1>1. Orderly
    <2>1. CASE UNCHANGED vars
      BY <2>1 DEF vars
    <2>2. CASE NewSettings
      BY <2>2 DEF NewSettings
    <2>3. CASE \E id \in Ids : Start(id) \/ Tick(id)
      BY <2>3 DEF Start, Tick, counters
    <2>4. CASE StopNext \/ Kill \/ Await \/ Remove \/ ScheduleStarts
      BY <2>4 DEF StopNext, Kill, Await, Stopped, Remove, ScheduleStarts, counters
    <2>5. CASE \E g \in Starts :
                 \/ StartChannelProcess(g) \/ StartChannelContainer(g)
                 \/ Exit(g) \/ ProcessEnds(g) \/ ContainerEnds(g) \/ ContainerLost(g)
                 \/ KilledByClose(g) \/ Heartbeat(g)
      BY <2>5 DEF StartChannelProcess, StartChannelContainer, Launched, LaunchFails, Exit, ProcessEnds,
                  ContainerEnds, ContainerLost, KilledByClose, Heartbeat, counters
    <2> QED
      BY <2>1, <2>2, <2>3, <2>4, <2>5 DEF Next
  <1>2. CASE UNCHANGED vars \/ \E id \in Ids : Tick(id)
    <2>1. UNCHANGED <<workVars, due, bin, gor, closed, panicked>>
      BY <1>2 DEF vars, Tick, workVars
    <2> QED
      BY <1>1, <2>1 DEF workVars, Orderly, Registered, Entries, Closed, DueStarts, Chosen, AtWork, Stopping
  <1> QED
    BY <1>1, <1>2, NewSettingsOrderly, StopNextOrderly, KillOrderly, AwaitOrderly, RemoveOrderly,
       ScheduleStartsOrderly, StartOrderly, EndOrderly, GoroutineOrderly DEF Next

LEMMA EntriesOrderly == Typed /\ (calm => Orderly) => EntriesMatchProcesses
  <1> SUFFICES ASSUME Typed, calm, Orderly, NEW id \in Ids
               PROVE  /\ Cardinality(Goroutines(id)) <= 1
                      /\ \A g \in Goroutines(id) : bin[id] = g /\ g \notin closed
                      /\ bin[id] # 0 => gor[bin[id]].at \in Alive \/ bin[id] = target.start
    BY DEF EntriesMatchProcesses
  <1>1. \A g \in Goroutines(id) : bin[id] = g /\ g \notin closed
    BY DEF Goroutines, Orderly, Registered
  <1>2. Goroutines(id) \subseteq {bin[id]}
    BY <1>1
  <1>3. IsFiniteSet({bin[id]}) /\ Cardinality({bin[id]}) = 1
    BY FS_Singleton
  <1>4. Cardinality(Goroutines(id)) <= 1
    BY <1>2, <1>3, FS_Subset
  <1> QED
    BY <1>1, <1>4 DEF Orderly, Entries

\* However settings, starts, crashes and Work's own steps interleave, a channel never
\* has two processes and the one it has can be stopped through the map, as long as
\* settings leave channels alone that are under way and nothing fails.
THEOREM OneProcess == Spec => []EntriesMatchProcesses
  <1>1. Init => Typed /\ (calm => Orderly)
    BY InitTyped, InitOrderly
  <1>2. Typed /\ (calm => Orderly) /\ [Next]_vars => Typed' /\ (calm => Orderly)'
    BY NextTyped, NextOrderly
  <1> QED
    BY <1>1, <1>2, EntriesOrderly, PTL DEF Spec

\* ... and no kill channel is closed twice or written to when it is closed.
THEOREM ChiefLives == Spec => []NoPanic
  <1>1. Init => Typed /\ (calm => Orderly)
    BY InitTyped, InitOrderly
  <1>2. Typed /\ (calm => Orderly) /\ [Next]_vars => Typed' /\ (calm => Orderly)'
    BY NextTyped, NextOrderly
  <1>3. (calm => Orderly) => NoPanic
    BY DEF Orderly, NoPanic
  <1> QED
    BY <1>1, <1>2, <1>3, PTL DEF Spec
=============================================================================
