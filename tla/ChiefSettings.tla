----------------------------- MODULE ChiefSettings -----------------------------
(***************************************************************************)
(* How the settings of the configurator come into use in the chief: the    *)
(* client (ConfiguratorClient), main (chief/chief_worker/chief_worker.go)  *)
(* that tells the parts of the chief one after another, and those parts:   *)
(*   - the channel server, which gets the channels' settings themselves    *)
(*     (ChiefChannelServer says what it makes of them);                    *)
(*   - the OLDI controller, which looks at ChiefCfg when it comes to it    *)
(*     (OldiGrpcServer);                                                   *)
(*   - the journal (RedisLogController), with settings of its own.         *)
(* The metrics, told last, take theirs at once and are left out.           *)
(***************************************************************************)
EXTENDS ConfiguratorClient, OldiGrpcServer, RedisLogController

CONSTANT Cap   \* capacity of ChannelSettsChan and of the OLDI SettsChangedChan (10)

ASSUME SettingsAssumption == Cap \in Nat \ {0}

VARIABLES
  worker,            \* main: whom it tells next, or "select"
  ChannelSettsChan,
  channelSetts,      \* the settings that the channel server works with
  oldiChanged,       \* notifications in the OLDI controller's SettsChangedChan
  logChanged,        \* likewise of the ChiefLogger, which holds one
  journal            \* bound: messages are logged, or else the settings go wrong in all ways

workerVars == <<worker, ChannelSettsChan, channelSetts, oldiChanged, logChanged>>
vars == <<configVars, grpcVars, redisVars, workerVars, journal>>

\* The ports of the settings: two that take turns, and any free one if there are none (":0").
PortOf(cfg) == IF cfg = 0 THEN "any" ELSE IF cfg % 2 = 1 THEN "one" ELSE "other"

\* With the journal the chief is at work with its first settings, and gets the second.
InitJournal ==
  /\ version = MaxVersion /\ saved = 1 /\ ChiefCfg = 1 /\ IsInitialised = TRUE
  /\ posts = [r \in Requests |-> IF r = <<"settings", MaxVersion>> THEN 1 ELSE 0]
  /\ retries = 0 /\ fileTimer = "done" /\ client = "select" /\ got = 0
  /\ changed = FALSE /\ faults = MaxFaults /\ unread = FALSE

Init ==
  /\ InitGrpc /\ InitRedis
  /\ worker = "select" /\ ChannelSettsChan = <<>> /\ oldiChanged = 0
  /\ \/ journal = FALSE /\ InitClient /\ channelSetts = 0 /\ logChanged = FALSE
     \/ journal = TRUE /\ InitJournal /\ channelSetts = 1 /\ logChanged = TRUE

(***************************************************************************)
(* The fan-out of main.                                                    *)
(***************************************************************************)
\* Take, read ChiefCfg and tell the channel server: a later read would be a later
\* take, as the notification waits in its channel.
WorkerTake ==
  /\ worker = "select" /\ changed /\ changed' = FALSE /\ worker' = "oldi"
  /\ Len(ChannelSettsChan) < Cap /\ ChannelSettsChan' = Append(ChannelSettsChan, ChiefCfg)
  /\ UNCHANGED <<ChiefCfg, IsInitialised, saved, fileTimer, client, got, posts, retries, version, faults, unread, grpcVars, redisVars, channelSetts, oldiChanged, logChanged, journal>>

\* A mutant: the OLDI controller is told only when there is nothing else to tell it.
TellOldiOnce ==
  /\ worker = "oldi" /\ worker' = "log" /\ oldiChanged' = IF grpcAddress = "none" THEN 1 ELSE oldiChanged
  /\ UNCHANGED <<configVars, grpcVars, redisVars, ChannelSettsChan, channelSetts, logChanged, journal>>

TellOldi ==
  /\ worker = "oldi" /\ oldiChanged < Cap
  /\ oldiChanged' = oldiChanged + 1 /\ worker' = "log"
  /\ UNCHANGED <<configVars, grpcVars, redisVars, ChannelSettsChan, channelSetts, logChanged, journal>>

\* (Bound: the journal is told only where it is looked at.)
TellLog ==
  /\ worker = "log" /\ ~logChanged /\ logChanged' = journal /\ worker' = "select"
  /\ UNCHANGED <<configVars, grpcVars, redisVars, ChannelSettsChan, channelSetts, oldiChanged, journal>>

(***************************************************************************)
(* Those who are told.                                                     *)
(***************************************************************************)
ChannelsTake ==
  /\ ChannelSettsChan # <<>>
  /\ channelSetts' = Head(ChannelSettsChan) /\ ChannelSettsChan' = Tail(ChannelSettsChan)
  /\ UNCHANGED <<configVars, grpcVars, redisVars, worker, oldiChanged, logChanged, journal>>

OldiTake ==
  /\ oldiChanged > 0 /\ oldiChanged' = oldiChanged - 1 /\ SettsChanged(PortOf(ChiefCfg))
  /\ UNCHANGED <<configVars, redisVars, worker, ChannelSettsChan, channelSetts, logChanged, journal>>

\* ChiefLogger.Work
LogTake ==
  /\ logChanged /\ logChanged' = FALSE /\ RedisSettings
  /\ UNCHANGED <<configVars, grpcVars, worker, ChannelSettsChan, channelSetts, oldiChanged, journal>>

Worker == WorkerTake \/ TellOldi \/ TellLog

Next ==
  /\ ~portTaken
  /\ \/ ClientNext /\ UNCHANGED <<grpcVars, redisVars, workerVars, journal>>
     \/ Worker \/ ChannelsTake \/ OldiTake \/ LogTake
     \/ StartGrpcServer /\ UNCHANGED <<configVars, redisVars, workerVars, journal>>
     \/ journal /\ RunNext /\ UNCHANGED <<configVars, grpcVars, workerVars, journal>>

Spec == Init /\ [][Next]_vars

(***************************************************************************)
(* Fairness.  The goroutines go on, the configurator answers each request  *)
(* in the end, the timers fire.                                            *)
(***************************************************************************)
FairSpec ==
  /\ Spec
  /\ WF_vars(~portTaken /\ (Decode \/ Notify) /\ UNCHANGED <<grpcVars, redisVars, workerVars, journal>>)
  /\ \A kind \in {"settings", "heartbeat"} :
       WF_vars(~portTaken /\ Answer(kind) /\ UNCHANGED <<grpcVars, redisVars, workerVars, journal>>)
  /\ WF_vars(~portTaken /\ Retry /\ UNCHANGED <<grpcVars, redisVars, workerVars, journal>>)
  /\ WF_vars(~portTaken /\ SendHeartbeat /\ UNCHANGED <<grpcVars, redisVars, workerVars, journal>>)
  /\ WF_vars(Worker /\ ~portTaken) /\ WF_vars(ChannelsTake /\ ~portTaken) /\ WF_vars(OldiTake /\ ~portTaken)
  /\ WF_vars(LogTake /\ ~portTaken)
  /\ WF_vars(~portTaken /\ StartGrpcServer /\ UNCHANGED <<configVars, redisVars, workerVars, journal>>)
  /\ WF_vars(~portTaken /\ journal /\ TakeSetts /\ UNCHANGED <<configVars, grpcVars, workerVars, journal>>)

\* Whatever is answered late, twice or out of order, and whatever is read while
\* ChiefCfg is cleared: in the end the chief, its channel server and its OLDI
\* controller work with what the configurator holds, for good; unless an answer
\* with settings could not be read, which is never asked for again, or the chief
\* has ended.
Settled ==
  <>[](\/ IsInitialised /\ channelSetts = version /\ grpcAddress = PortOf(version)
       \/ unread \/ portTaken \/ Free = {})
=============================================================================
