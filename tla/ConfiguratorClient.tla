-------------------------- MODULE ConfiguratorClient --------------------------
(***************************************************************************)
(* The chief's client of the configurator (configurator/                   *)
(* chief_configutaror_client.go, configutaror_client.go).  Every request   *)
(* is a POST in a goroutine of its own; their results come to one select,  *)
(* in any order.  The settings are the global ChiefCfg, which the rest of  *)
(* the chief reads without a lock.                                         *)
(*                                                                         *)
(* Settings are told apart by their timestamp only: 0 is a ChiefCfg that   *)
(* holds none, v > 0 the v-th that the configurator published.  The        *)
(* configurator is external: it answers with what it holds then, an error, *)
(* or something that cannot be read.                                       *)
(***************************************************************************)
EXTENDS Integers, FiniteSetsExt, Functions

CONSTANTS
  MaxVersion,   \* bound: settings the configurator publishes
  MaxPosts,     \* bound: requests that are out
  MaxFaults,    \* bound: answers that are errors or cannot be read, and new images
  WithDocker    \* the channels are docker containers

ASSUME ConfiguratorAssumption ==
  MaxVersion \in Nat \ {0} /\ MaxPosts \in Nat \ {0} /\ MaxFaults \in Nat /\ WithDocker \in BOOLEAN

VARIABLES
  ChiefCfg, IsInitialised,
  saved,        \* the settings in the local file, 0 if there is none
  fileTimer,    \* readLocalSettingsTimer: "running", "expired", "done"
  client,       \* where the handler is: "select", "decode", "notify"
  got,          \* the answer that is decoded
  posts,        \* how many requests of each kind, and since which version, are out
  retries,      \* calls of AfterFunc that wait
  changed,      \* ChiefSettChangedChan holds a notification
  version,      \* what the configurator holds
  faults,
  unread        \* history: an answer with settings could not be read

configVars == <<ChiefCfg, IsInitialised, saved, fileTimer, client, got, posts, retries,
                changed, version, faults, unread>>

Versions == 1..MaxVersion
Requests == {"settings", "heartbeat"} \X Versions

InitClient ==
  /\ version = 1 /\ saved \in 0..1 /\ ChiefCfg = 0 /\ IsInitialised = FALSE
  /\ posts = [r \in Requests |-> IF r = <<"settings", 1>> THEN 1 ELSE 0]    \* Start
  /\ retries = 0 /\ fileTimer = "running" /\ client = "select" /\ got = 0
  /\ changed = FALSE /\ faults = 0 /\ unread = FALSE

\* go postToConfigurator
Posted(kind) == [posts EXCEPT ![<<kind, version>>] = @ + 1]

Publish ==
  /\ version < MaxVersion /\ version' = version + 1
  /\ UNCHANGED <<ChiefCfg, IsInitialised, saved, fileTimer, client, got, posts, retries,
                 changed, faults, unread>>

(***************************************************************************)
(* The select of Work: a result of a POST.  The answer is of some moment   *)
(* between the request and now; one that waits to be taken lets others     *)
(* overtake it.                                                            *)
(***************************************************************************)
\* ChiefCfg is cleared first and filled afterwards.
TakeSettings(v) ==
  /\ ChiefCfg' = 0 /\ IsInitialised' = FALSE /\ client' = "decode" /\ got' = v
  /\ UNCHANGED retries

\* A header that is right and a body that is not.
TakeDamaged ==
  /\ ChiefCfg' = 0 /\ IsInitialised' = FALSE
  /\ UNCHANGED <<client, got, retries>>

\* The timestamp of a heartbeat's answer.
Differs(v) == v # ChiefCfg

TakeError ==
  /\ IsInitialised' = FALSE /\ retries' = retries + 1
  /\ UNCHANGED <<ChiefCfg, client, got>>

\* What a request leaves when its result is taken.
Done(r) == posts[r] > 0 /\ posts' = [posts EXCEPT ![r] = @ - 1]

Answer(kind) ==
  /\ client = "select"
  /\ \E since \in Versions, v \in Versions :
       /\ since <= v /\ v <= version /\ posts[<<kind, since>>] > 0
       /\ \/ kind = "settings" /\ Done(<<kind, since>>) /\ TakeSettings(v)
          \/ /\ kind = "heartbeat"
             /\ posts' = LET rest == [posts EXCEPT ![<<kind, since>>] = @ - 1] IN
                         IF Differs(v) THEN [rest EXCEPT ![<<"settings", version>>] = @ + 1] ELSE rest
             /\ UNCHANGED <<ChiefCfg, IsInitialised, client, got, retries>>
  /\ UNCHANGED <<saved, fileTimer, changed, version, faults, unread>>

\* An error; a readable body with "error" in it gives a second result, which is
\* still to come.  Or an answer that cannot be read, in its header or its body.
AnswerFails ==
  /\ client = "select" /\ faults < MaxFaults /\ faults' = faults + 1
  /\ \E r \in Requests :
       \/ Done(r) /\ TakeError /\ UNCHANGED unread
       \/ posts[r] > 0 /\ UNCHANGED posts /\ TakeError /\ UNCHANGED unread
       \/ Done(r) /\ unread' = (unread \/ r[1] = "settings")
          /\ \/ UNCHANGED <<ChiefCfg, IsInitialised, client, got, retries>>
             \/ r[1] = "settings" /\ TakeDamaged
  /\ UNCHANGED <<saved, fileTimer, changed, version>>

\* With docker, new images have the settings asked for again.
InitAfterGetSettings ==
  \/ UNCHANGED <<posts, faults>>
  \/ WithDocker /\ faults < MaxFaults /\ faults' = faults + 1 /\ posts' = Posted("settings")

SaveToFile(cfg) == saved' = cfg

\* IsInitialised is not in the file (json:"-"), and reading leaves it as it is.
ReadFromFile == saved # 0 /\ ChiefCfg' = saved

\* The rest of that case.
Decode ==
  /\ client = "decode" /\ client' = "notify"
  /\ ChiefCfg' = got /\ IsInitialised' = TRUE /\ SaveToFile(got) /\ got' = 0
  /\ fileTimer' = IF fileTimer = "running" THEN "done" ELSE fileTimer
  /\ InitAfterGetSettings
  /\ UNCHANGED <<retries, changed, version, unread>>

\* The push of sendSettings; the channel holds one.
Notify ==
  /\ client = "notify" /\ ~changed /\ changed' = TRUE /\ client' = "select"
  /\ UNCHANGED <<ChiefCfg, IsInitialised, saved, fileTimer, got, posts, retries, version,
                 faults, unread>>

Retry ==
  /\ retries > 0 /\ retries' = retries - 1 /\ posts' = Posted("settings")
  /\ UNCHANGED <<ChiefCfg, IsInitialised, saved, fileTimer, client, got, changed, version,
                 faults, unread>>

\* (Bound: no heartbeat while MaxPosts requests are out.)
Outstanding == SumFunctionOnSet(posts, Requests)

SendHeartbeat ==
  /\ client = "select" /\ IsInitialised /\ Outstanding < MaxPosts /\ posts' = Posted("heartbeat")
  /\ UNCHANGED <<ChiefCfg, IsInitialised, saved, fileTimer, client, got, retries, changed,
                 version, faults, unread>>

FileTimerExpires ==
  /\ fileTimer = "running" /\ fileTimer' = "expired"
  /\ UNCHANGED <<ChiefCfg, IsInitialised, saved, client, got, posts, retries, changed,
                 version, faults, unread>>

ReadLocalSettings ==
  /\ client = "select" /\ fileTimer = "expired" /\ fileTimer' = "done"
  /\ \/ ReadFromFile /\ client' = "notify"
     \/ saved = 0 /\ UNCHANGED <<ChiefCfg, client>>
  /\ UNCHANGED <<IsInitialised, saved, got, posts, retries, changed, version, faults, unread>>

ClientNext ==
  \/ Publish \/ AnswerFails \/ \E kind \in {"settings", "heartbeat"} : Answer(kind)
  \/ Decode \/ Notify \/ Retry \/ SendHeartbeat
  \/ FileTimerExpires \/ ReadLocalSettings
=============================================================================
