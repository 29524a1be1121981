------------------------- MODULE ChiefChannelServer -------------------------
(***************************************************************************)
(* How the chief runs the FMTP channels as processes or containers         *)
(* (chief_channel/chief_channel_server.go): Work reacts to new settings by *)
(* stopping channels one by one and by scheduling starts two seconds       *)
(* later; every started channel has a goroutine that waits for its end or  *)
(* for a kill; ChannelBinMap ties a channel to the kill channel of its     *)
(* last start.                                                             *)
(*                                                                         *)
(* What interleaves: Work, the AfterFunc callbacks with the starts, the    *)
(* goroutines, and the processes, which exit whenever they like.  killChan *)
(* belongs to one start, killerChan is shared by all of them.              *)
(*                                                                         *)
(* A goroutine is named by the number of its start, and so is the killChan *)
(* that the start made.  The settings of a channel are "absent", "off" or  *)
(* one of the configurations in Versions, with IsWorking set.              *)
(***************************************************************************)
EXTENDS Integers, FiniteSets

CONSTANTS
  Ids,          \* channels
  Versions,     \* configurations of a channel that is to work
  MaxSettings,  \* bound: settings received
  MaxExits,     \* bound: processes that end by themselves
  MaxFailures,  \* bound: copies, launches and removals that fail
  MaxStarts     \* bound: starts

ASSUME ChiefAssumption ==
  /\ IsFiniteSet(Ids) /\ MaxSettings \in Nat /\ MaxExits \in Nat /\ MaxFailures \in Nat
  /\ MaxStarts \in Nat \ {0} /\ {"absent", "off"} \cap Versions = {}

VARIABLES
  withDocker,   \* channels are containers, not processes
  port, setts,  \* channelSetts
  work,         \* where Work is: "select", or a place of stopChannelsByIDs
  toStop,       \* needToStopIds not handled yet
  toStart,      \* needToStartIds
  target,       \* the channel and the start (its killChan) that Work stops
  due,          \* AfterFunc starts outstanding for each channel
  bin,          \* ChannelBinMap: the start whose killChan is registered, 0 if none
  gor,          \* goroutine of each start: its channel, configuration and place
  closed,       \* the starts whose killChan has been closed
  chStates,     \* chStates: DaemonState of each channel, "none" if not in the map
  panicked,     \* close or send on a closed channel: the chief is gone
  settings, exits, failures, \* counters that bound the model
  calm          \* nothing came in quick succession or failed so far (history)

vars == <<withDocker, port, setts, work, toStop, toStart, target, due, bin, gor, closed,
          chStates, panicked, settings, exits, failures, calm>>

workVars  == <<withDocker, port, setts, work, toStop, toStart, target>>
counters  == <<settings, exits, failures>>

Starts   == 1..MaxStarts
Settings == {"absent", "off"} \cup Versions
Working(s) == s \in Versions
NoTarget == [id |-> 0, start |-> 0]

\* "unused" before the start, "exited" when the process is gone and its
\* goroutine does not know yet, "killed" when it waits to push into killerChan,
\* "orphan" when the goroutine is done but its container is not.
Places == {"unused", "starting", "running", "exited", "killed", "done", "orphan"}
Alive  == {"starting", "running", "exited"}

TypeOK ==
  /\ withDocker \in BOOLEAN
  /\ port \in 0..MaxSettings
  /\ setts \in [Ids -> Settings]
  /\ work \in {"select", "stop", "kill", "await", "remove"}
  /\ toStop \subseteq Ids /\ toStart \subseteq Ids
  /\ target \in [id : Ids \cup {0}, start : 0..MaxStarts]
  /\ due \in [Ids -> Nat]
  /\ bin \in [Ids -> 0..MaxStarts]
  /\ gor \in [Starts -> [id : Ids \cup {0}, sett : Settings, at : Places]]
  /\ closed \subseteq Starts
  /\ chStates \in [Ids -> {"none", "stopped", "error", "ok"}]
  /\ panicked \in BOOLEAN
  /\ settings \in 0..MaxSettings /\ exits \in 0..MaxExits /\ failures \in 0..MaxFailures
  /\ calm \in BOOLEAN

Init ==
  /\ withDocker \in BOOLEAN
  /\ port = 0 /\ setts = [id \in Ids |-> "absent"]
  /\ work = "select" /\ toStop = {} /\ toStart = {} /\ target = NoTarget
  /\ due = [id \in Ids |-> 0]
  /\ bin = [id \in Ids |-> 0]
  /\ gor = [g \in Starts |-> [id |-> 0, sett |-> "absent", at |-> "unused"]]
  /\ closed = {}
  /\ chStates = [id \in Ids |-> "none"]
  /\ panicked = FALSE
  /\ settings = 0 /\ exits = 0 /\ failures = 0
  /\ calm = TRUE

Goroutines(id) == {g \in Starts : gor[g].id = id /\ gor[g].at \in Alive}

Processes(id)  == {g \in Starts : gor[g].id = id /\ gor[g].at \in Alive \cup {"orphan"}}

\* The process of the channel is up for good: nothing about it is under way.
Settled(id) ==
  /\ due[id] = 0
  /\ \A g \in Goroutines(id) : gor[g].at = "running"

(***************************************************************************)
(* New settings: which channels stop, which start, whose state is reset.   *)
(***************************************************************************)
InitialState(s) == IF Working(s) THEN "error" ELSE "stopped"

\* A mutant: a channel whose settings changed is started, not stopped first.
NewSettingsKeepingOld ==
  /\ work = "select" /\ settings < MaxSettings
  /\ \E p \in {port, port + 1} \ {0}, s \in [Ids -> Settings] :
       LET touched == {id \in Ids : p # port \/ s[id] # setts[id]} IN
       /\ port' = p /\ setts' = s
       /\ toStop' = {id \in touched : Working(setts[id]) /\ ~Working(s[id])}
       /\ toStart' = {id \in touched : Working(s[id])}
       /\ chStates' = [id \in Ids |-> IF id \in touched /\ s[id] # "absent"
                                        THEN InitialState(s[id]) ELSE chStates[id]]
       /\ calm' = (calm /\ \A id \in touched : Settled(id))
  /\ work' = "stop" /\ settings' = settings + 1
  /\ UNCHANGED <<withDocker, target, due, bin, gor, closed, panicked, exits, failures>>

\* A mutant: a channel that the new settings do not name is not looked at.
NewSettingsForgetting ==
  /\ work = "select" /\ settings < MaxSettings
  /\ \E p \in {port, port + 1} \ {0}, s \in [Ids -> Settings] :
       LET touched == {id \in Ids : p # port \/ s[id] # setts[id]} IN
       /\ port' = p /\ setts' = s
       /\ toStop' = {id \in touched : Working(setts[id]) /\ s[id] # "absent"}
       /\ toStart' = {id \in touched : Working(s[id])}
       /\ chStates' = [id \in Ids |-> IF id \in touched /\ s[id] # "absent"
                                        THEN InitialState(s[id]) ELSE chStates[id]]
       /\ calm' = (calm /\ \A id \in touched : Settled(id))
  /\ work' = "stop" /\ settings' = settings + 1
  /\ UNCHANGED <<withDocker, target, due, bin, gor, closed, panicked, exits, failures>>

\* A change of the port touches every channel, otherwise those that differ.
\* (Ports are numbered as they are first used.)
NewSettings ==
  /\ work = "select" /\ settings < MaxSettings
  /\ \E p \in {port, port + 1} \ {0}, s \in [Ids -> Settings] :
       LET touched == {id \in Ids : p # port \/ s[id] # setts[id]} IN
       /\ port' = p /\ setts' = s
       /\ toStop' = {id \in touched : Working(setts[id])}
       /\ toStart' = {id \in touched : Working(s[id])}
       /\ chStates' = [id \in Ids |-> IF id \in touched /\ s[id] # "absent"
                                        THEN InitialState(s[id]) ELSE chStates[id]]
       /\ calm' = (calm /\ \A id \in touched : Settled(id))
  /\ work' = "stop" /\ settings' = settings + 1
  /\ UNCHANGED <<withDocker, target, due, bin, gor, closed, panicked, exits, failures>>

(***************************************************************************)
(* stopChannelsByIDs.                                                      *)
(***************************************************************************)
\* (The order of the list does not matter to what follows.)
StopNext ==
  /\ work = "stop"
  /\ \E id \in toStop :
       /\ toStop' = toStop \ {id}
       /\ IF bin[id] = 0 THEN UNCHANGED <<work, target>>
                         ELSE work' = "kill" /\ target' = [id |-> id, start |-> bin[id]]
  /\ UNCHANGED <<withDocker, port, setts, toStart, due, bin, gor, closed, chStates, panicked, counters, calm>>

\* killChan <- : a rendezvous with the goroutine of that start, if it still listens.
Kill ==
  /\ work = "kill"
  /\ IF target.start \in closed
       THEN panicked' = TRUE /\ UNCHANGED <<work, gor>>
       ELSE /\ gor[target.start].at \in {"running", "exited"}
            /\ gor' = [gor EXCEPT ![target.start].at = "killed"]
            /\ work' = "await" /\ UNCHANGED panicked
  /\ UNCHANGED <<withDocker, port, setts, toStop, toStart, target, due, bin, closed, chStates, counters, calm>>

\* A killed goroutine ends; the container that it could not stop does not.
Stopped(g) ==
  \/ gor' = [gor EXCEPT ![g].at = "done"] /\ UNCHANGED <<failures, calm>>
  \/ /\ withDocker /\ failures < MaxFailures
     /\ failures' = failures + 1 /\ calm' = FALSE
     /\ gor' = [gor EXCEPT ![g].at = "orphan"]

\* <-killerChan: whichever goroutine pushes first.
Await ==
  /\ work = "await" /\ work' = "remove"
  /\ \E g \in Starts : gor[g].at = "killed" /\ Stopped(g)
  /\ UNCHANGED <<withDocker, port, setts, toStop, toStart, target, due, bin, closed, chStates, panicked, settings, exits>>

\* The binary is removed, killChan closed and the entry deleted.
Remove ==
  /\ work = "remove" /\ work' = "stop" /\ target' = NoTarget
  /\ \/ /\ ~withDocker /\ failures < MaxFailures
        /\ failures' = failures + 1 /\ calm' = FALSE
        /\ UNCHANGED <<closed, bin, panicked>>
     \/ /\ IF target.start \in closed
             THEN panicked' = TRUE /\ UNCHANGED <<closed, bin>>
             ELSE /\ closed' = closed \cup {target.start} /\ bin' = [bin EXCEPT ![target.id] = 0]
                  /\ UNCHANGED panicked
        /\ UNCHANGED <<failures, calm>>
  /\ UNCHANGED <<withDocker, port, setts, toStop, toStart, due, gor, chStates, settings, exits>>

\* AfterFunc(2s) with the channels to start; Work is back in its select.
ScheduleStarts ==
  /\ work = "stop" /\ toStop = {} /\ work' = "select" /\ toStart' = {}
  /\ due' = [id \in Ids |-> IF id \in toStart THEN due[id] + 1 ELSE due[id]]
  /\ UNCHANGED <<withDocker, port, setts, toStop, target, bin, gor, closed, chStates, panicked, counters, calm>>

(***************************************************************************)
(* startChannelsByIDs and the goroutine of a start.                        *)
(***************************************************************************)
\* The settings in force now are used, whether or not they say IsWorking.
Start(id) ==
  /\ due[id] > 0 /\ due' = [due EXCEPT ![id] = @ - 1]
  /\ \/ setts[id] = "absent" /\ UNCHANGED <<gor, bin, failures, calm>>
     \/ /\ setts[id] # "absent" /\ ~withDocker /\ failures < MaxFailures  \* CopyBinary fails
        /\ failures' = failures + 1 /\ calm' = FALSE
        /\ UNCHANGED <<gor, bin>>
     \/ /\ setts[id] # "absent"
        /\ \E g \in Starts :
             /\ gor[g].at = "unused" /\ \A h \in Starts : h < g => gor[h].at # "unused"
             /\ gor' = [gor EXCEPT ![g] = [id |-> id, sett |-> setts[id], at |-> "starting"]]
             /\ bin' = [bin EXCEPT ![id] = g]
        /\ UNCHANGED <<failures, calm>>
  /\ UNCHANGED <<workVars, closed, chStates, panicked, settings, exits>>

\* A mutant: the entry is left in the map, so no restart is found necessary.
DropEntryKeeping(id) == UNCHANGED <<bin, closed, panicked>>

\* A mutant: the entry is closed but not deleted.
DropEntryClosing(id) == closed' = closed \cup ({bin[id]} \ {0}) /\ UNCHANGED <<bin, panicked>>

\* The entry of the channel, whichever start made it, is closed and deleted.
DropEntry(id) ==
  IF bin[id] = 0 THEN UNCHANGED <<bin, closed, panicked>>
  ELSE IF bin[id] \in closed THEN panicked' = TRUE /\ UNCHANGED <<bin, closed>>
  ELSE closed' = closed \cup {bin[id]} /\ bin' = [bin EXCEPT ![id] = 0] /\ UNCHANGED panicked

Launched(g) ==
  /\ gor' = [gor EXCEPT ![g].at = "running"]
  /\ UNCHANGED <<bin, closed, panicked, failures, calm>>

LaunchFails(g) ==
  /\ failures < MaxFailures /\ failures' = failures + 1 /\ calm' = FALSE
  /\ gor' = [gor EXCEPT ![g].at = "done"]

\* A process that cannot be started leaves its entry behind ...
StartChannelProcess(g) ==
  /\ ~withDocker /\ gor[g].at = "starting"
  /\ Launched(g) \/ (LaunchFails(g) /\ UNCHANGED <<bin, closed, panicked>>)
  /\ UNCHANGED <<workVars, due, chStates, settings, exits>>

\* ... a container that cannot be created or started does not.
StartChannelContainer(g) ==
  /\ withDocker /\ gor[g].at = "starting"
  /\ Launched(g) \/ (LaunchFails(g) /\ DropEntry(gor[g].id))
  /\ UNCHANGED <<workVars, due, chStates, settings, exits>>

\* The channel's process ends: it crashed, or it exits with FailToConnect.
Exit(g) ==
  /\ gor[g].at \in {"running", "orphan"} /\ exits < MaxExits
  /\ exits' = exits + 1
  /\ gor' = [gor EXCEPT ![g].at = IF @ = "running" THEN "exited" ELSE "done"]
  /\ calm' = (calm /\ gor[g].id \notin toStop \cup {target.id})
  /\ UNCHANGED <<workVars, due, bin, closed, chStates, panicked, settings, failures>>

\* A restart is scheduled if the settings want the channel and no entry is left.
CheckChannelWorking(id) ==
  due' = IF Working(setts[id]) /\ bin'[id] = 0 THEN [due EXCEPT ![id] = @ + 1] ELSE due

\* The goroutine learns of the end.
ProcessEnds(g) ==
  /\ ~withDocker /\ gor[g].at = "exited"
  /\ gor' = [gor EXCEPT ![g].at = "done"]
  /\ LET id == gor[g].id IN
     /\ DropEntry(id)
     /\ chStates' = IF chStates[id] # "none" THEN [chStates EXCEPT ![id] = "error"] ELSE chStates
     /\ CheckChannelWorking(id)
  /\ UNCHANGED <<workVars, counters, calm>>

ContainerEnds(g) ==
  /\ withDocker /\ gor[g].at = "exited"
  /\ gor' = [gor EXCEPT ![g].at = "done"]
  /\ DropEntry(gor[g].id) /\ CheckChannelWorking(gor[g].id)
  /\ UNCHANGED <<workVars, chStates, counters, calm>>

\* The wait for the container fails: nobody looks after it any more, and no
\* restart is considered.
ContainerLost(g) ==
  /\ withDocker /\ gor[g].at \in {"running", "exited"} /\ failures < MaxFailures
  /\ failures' = failures + 1 /\ calm' = FALSE
  /\ gor' = [gor EXCEPT ![g].at = IF @ = "running" THEN "orphan" ELSE "done"]
  /\ DropEntry(gor[g].id)
  /\ UNCHANGED <<workVars, due, chStates, settings, exits>>

\* A closed killChan reads as a kill command; nobody may be waiting for the answer.
KilledByClose(g) ==
  /\ g \in closed /\ gor[g].at \in {"running", "exited"}
  /\ gor' = [gor EXCEPT ![g].at = "killed"]
  /\ UNCHANGED <<workVars, due, bin, closed, chStates, panicked, counters, calm>>

(***************************************************************************)
(* The states of the channels.                                             *)
(***************************************************************************)
\* Heartbeats still queued are handled when the process is gone.
Heartbeat(g) ==
  /\ gor[g].at \notin {"unused", "starting"} /\ work = "select"
  /\ \E s \in {"ok", "error"} : chStates' = [chStates EXCEPT ![gor[g].id] = s]
  /\ UNCHANGED <<workVars, due, bin, gor, closed, panicked, counters, calm>>

\* A mutant: a stale state stays.
TickIdle(id) == work = "select" /\ chStates[id] # "none" /\ UNCHANGED vars

\* Every second: a state not refreshed for ten seconds is made anew if the
\* channel is to work.  (A process may be silent as long as it likes.)
Tick(id) ==
  /\ work = "select" /\ chStates[id] # "none"
  /\ Working(setts[id]) /\ chStates' = [chStates EXCEPT ![id] = InitialState(setts[id])]
  /\ UNCHANGED <<workVars, due, bin, gor, closed, panicked, counters, calm>>

Next ==
  /\ ~panicked
  /\ \/ NewSettings \/ StopNext \/ Kill \/ Await \/ Remove \/ ScheduleStarts
     \/ \E id \in Ids : Start(id) \/ Tick(id)
     \/ \E g \in Starts :
          \/ StartChannelProcess(g) \/ StartChannelContainer(g)
          \/ Exit(g) \/ ProcessEnds(g) \/ ContainerEnds(g) \/ ContainerLost(g)
          \/ KilledByClose(g) \/ Heartbeat(g)

Spec == Init /\ [][Next]_vars

\* Without a process there are no more heartbeats, and the state becomes stale.
Silent(id) == \A g \in Processes(id) : gor[g].at \notin {"running", "orphan"}

\* Work, the callbacks and the goroutines go on; nothing is assumed of
\* settings, of processes that end, or of heartbeats.
FairSpec ==
  /\ Spec
  /\ WF_vars(~panicked /\ StopNext) /\ WF_vars(~panicked /\ Kill) /\ WF_vars(~panicked /\ Await)
  /\ WF_vars(~panicked /\ Remove) /\ WF_vars(~panicked /\ ScheduleStarts)
  /\ \A id \in Ids : WF_vars(~panicked /\ Start(id)) /\ WF_vars(~panicked /\ Silent(id) /\ Tick(id))
  /\ \A g \in Starts :
       /\ WF_vars(~panicked /\ (StartChannelProcess(g) \/ StartChannelContainer(g)))
       /\ WF_vars(~panicked /\ (ProcessEnds(g) \/ ContainerEnds(g)))
       /\ WF_vars(~panicked /\ KilledByClose(g))

(***************************************************************************)
(* Properties.  calm: settings came only for channels with nothing under   *)
(* way, no process ended while it was being stopped, and nothing failed.   *)
(***************************************************************************)
\* A channel never has two processes, and the one it has can be stopped: its
\* kill channel is the one registered, and open.  An entry of the map always
\* leads to a goroutine that listens, or that Work is about to collect.
EntriesMatchProcesses ==
  calm => \A id \in Ids :
    /\ Cardinality(Goroutines(id)) <= 1
    /\ \A g \in Goroutines(id) : bin[id] = g /\ g \notin closed
    /\ bin[id] # 0 => gor[bin[id]].at \in Alive \/ bin[id] = target.start

\* No kill channel is closed twice or written to after it was closed.
NoPanic == calm => ~panicked

\* A channel that is to work gets a process with the configuration in force,
\* after new settings and after each crash ...
WantedRuns ==
  \A id \in Ids, s \in Versions :
    (calm /\ setts[id] = s)
      ~> (~calm \/ setts[id] # s \/ \E g \in Goroutines(id) : gor[g].at = "running" /\ gor[g].sett = s)

\* ... and one that is not to work loses its process.
UnwantedEnds ==
  \A id \in Ids :
    (calm /\ ~Working(setts[id])) ~> (~calm \/ Working(setts[id]) \/ Goroutines(id) = {})

\* stopChannelsByIDs waits for a goroutine that is gone.
WorkStuck == work = "kill" /\ gor[target.start].at \in {"killed", "done", "orphan"}

\* Whatever fails, a channel that is to work and has no process does not stay
\* reported as "ok", unless Work itself waits for ever or the chief is gone.
DeadNotReportedOk ==
  \A id \in Ids :
    (Working(setts[id]) /\ chStates[id] = "ok" /\ Processes(id) = {})
      ~> (chStates[id] # "ok" \/ Processes(id) # {} \/ ~Working(setts[id]) \/ WorkStuck \/ panicked)
=============================================================================
