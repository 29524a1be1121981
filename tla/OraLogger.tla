------------------------------ MODULE OraLogger ------------------------------
(***************************************************************************)
(* The logger (ora_logger): it moves log messages from a Redis stream into *)
(* an Oracle table.  Four kinds of goroutine:                              *)
(*                                                                         *)
(*   RedisCntrl.Run    on request: deletes what it read last, reads more   *)
(*   main              relays requests and messages                        *)
(*   OraCntrlr.Run     buffers messages, makes queries, one at a time      *)
(*   executeQuery      runs them; started with each database connection,   *)
(*                     ended by a token in execTermChan                    *)
(*                                                                         *)
(* A push into a full Go channel blocks the goroutine, which is then at a  *)
(* place other than its select; one that finds room is part of the step    *)
(* that makes it.  queryQueue never keeps a batch of logs (one is put only *)
(* into the empty queue, and taken at once), so it is the number of        *)
(* maintenance queries.                                                    *)
(***************************************************************************)
EXTENDS Integers, Sequences, FiniteSets

CONSTANTS
  Cap,          \* capacity of the request channels and of SendMsgChan (10 in the code)
  ReceiveCap,   \* capacity of ReceiveMsgChan (1024 in the code)
  MaxRead,      \* MaxReadCount: messages of one read
  MaxQueryExec, \* maxQueryExec: messages of one INSERT (100 in the code)
  MaxLogs,      \* bound: log messages
  MaxSettings,  \* bound: settings received
  MaxFailures,  \* bound: Redis commands that fail
  MaxQueue      \* bound: queries in queryQueue when a periodic one comes

ASSUME LoggerAssumption ==
  /\ Cap \in Nat \ {0} /\ ReceiveCap \in Nat \ {0} /\ MaxRead \in Nat \ {0} /\ MaxQueryExec \in Nat \ {0}
  /\ MaxLogs \in Nat /\ MaxSettings \in Nat /\ MaxFailures \in Nat
  /\ MaxQueue \in Nat

VARIABLES
  added, stream,        \* log messages so far (in order), and those in the Redis stream
  redisAt,              \* place of RedisCntrl.Run
  redisHand,            \* the messages it read
  successConnect,       \* connected to Redis
  prevReadIds,          \* read and not deleted yet
  sendMsg,              \* RedisCntrl.SendMsgChan
  redisRequests,        \* RedisCntrl.RequestMsgChan
  mainHand,             \* what main relays: "none", "request" or messages
  receiveMsg,           \* OraCntrlr.ReceiveMsgChan
  oraRequests,          \* OraCntrlr.RequestMsgChan
  oraAt, oraThen,       \* place of OraCntrlr.Run, and where disconnectFromDb returns to
  storage,              \* new storage settings are to be handled
  dbSuccess, canExecute,
  open,                 \* the database handle is open
  logMsgBuffer, queryQueue,
  execQuery, execResult, execTerm,  \* the channels of the executors
  executors,            \* the executors: unused, idle, running, with a result, gone
  written, failed,      \* messages in Oracle, and those whose INSERT failed
  settings, failures,   \* counters that bound the model
  steady, deleted       \* the first connection is still up; no deletion failed (history)

redisVars  == <<stream, redisAt, redisHand, successConnect, prevReadIds>>
relayVars  == <<sendMsg, redisRequests, mainHand, receiveMsg, oraRequests>>
oraVars    == <<oraAt, oraThen, storage, dbSuccess, canExecute, open, logMsgBuffer, queryQueue>>
execVars   == <<execQuery, execResult, execTerm, executors, written, failed>>
vars == <<added, redisVars, relayVars, oraVars, execVars, settings, failures, steady, deleted>>

Logs      == 1..MaxLogs
Executors == 1..MaxSettings
Maintenance == <<>>   \* a query that is not an INSERT of messages
Elements(s) == {s[i] : i \in 1..Len(s)}
First(n, s) == IF Len(s) > n THEN SubSeq(s, 1, n) ELSE s
After(n, s) == IF Len(s) > n THEN SubSeq(s, n + 1, Len(s)) ELSE <<>>

Executor(at) == [at |-> at, query |-> <<>>, result |-> "ok"]

Query  == Seq(Logs)
Result == {"ok", "error", "closed"}

Flags ==
  /\ successConnect \in BOOLEAN /\ storage \in BOOLEAN
  /\ dbSuccess \in BOOLEAN /\ canExecute \in BOOLEAN /\ open \in BOOLEAN
  /\ steady \in BOOLEAN /\ deleted \in BOOLEAN

TypeOK ==
  /\ Flags
  /\ added \in 0..MaxLogs /\ stream \subseteq Logs
  /\ redisAt \in {"select", "del", "read", "send"} /\ redisHand \in Query
  /\ prevReadIds \subseteq Logs
  /\ sendMsg \in Seq(Query) /\ Len(sendMsg) <= Cap
  /\ receiveMsg \in Seq(Query) /\ Len(receiveMsg) <= ReceiveCap
  /\ redisRequests \in 0..Cap /\ oraRequests \in 0..Cap
  /\ mainHand \in {<<"none">>, <<"request">>} \/ (mainHand[1] = "messages" /\ mainHand[2] \in Query)
  /\ oraAt \in {"select", "term", "connect", "check", "ping", "store"}
  /\ oraThen \in {"connect", "check", "store"}
  /\ logMsgBuffer \in Query /\ queryQueue \in Nat
  /\ execQuery \in Seq(Query) /\ Len(execQuery) <= 1
  /\ execResult \in Seq(Result) /\ Len(execResult) <= 1
  /\ execTerm \in 0..1
  /\ executors \in [Executors -> [at : {"unused", "idle", "running", "result", "gone"},
                                query : Query, result : Result]]
  /\ written \in Query /\ failed \subseteq Logs
  /\ settings \in 0..MaxSettings /\ failures \in 0..MaxFailures

Init ==
  /\ added = 0 /\ stream = {}
  /\ redisAt = "select" /\ redisHand = <<>> /\ successConnect = FALSE /\ prevReadIds = {}
  /\ sendMsg = <<>> /\ redisRequests = 0 /\ mainHand = <<"none">>
  /\ receiveMsg = <<>> /\ oraRequests = 0
  /\ oraAt = "select" /\ oraThen = "connect" /\ storage = FALSE
  /\ dbSuccess = FALSE /\ canExecute = FALSE /\ open = FALSE
  /\ logMsgBuffer = <<>> /\ queryQueue = 0
  /\ execQuery = <<>> /\ execResult = <<>> /\ execTerm = 0
  /\ executors = [e \in Executors |-> Executor("unused")]
  /\ written = <<>> /\ failed = {}
  /\ settings = 0 /\ failures = 0
  /\ steady = TRUE /\ deleted = TRUE

(***************************************************************************)
(* Redis and its controller.                                               *)
(***************************************************************************)
\* The chief and the channels add a message to the stream.
AddLog ==
  /\ added < MaxLogs /\ added' = added + 1 /\ stream' = stream \cup {added'}
  /\ UNCHANGED <<redisAt, redisHand, successConnect, prevReadIds, relayVars, oraVars, execVars,
                 settings, failures, steady, deleted>>

\* New Redis settings: connected or not, until the next ones.
ConnectToServer ==
  /\ redisAt = "select"
  /\ \/ ~successConnect /\ successConnect' = TRUE /\ UNCHANGED failures
     \/ /\ successConnect /\ failures < MaxFailures
        /\ successConnect' = FALSE /\ failures' = failures + 1
  /\ UNCHANGED <<added, stream, redisAt, redisHand, prevReadIds, relayVars, oraVars, execVars,
                 settings, steady, deleted>>

RedisRequest ==
  /\ redisAt = "select" /\ redisRequests > 0 /\ redisRequests' = redisRequests - 1
  /\ redisAt' = IF prevReadIds # {} THEN "del" ELSE "read"
  /\ UNCHANGED <<added, stream, redisHand, successConnect, prevReadIds, sendMsg, mainHand, receiveMsg,
                 oraRequests, oraVars, execVars, settings, failures, steady, deleted>>

\* A mutant: the ids are forgotten, the messages stay.
DelLogsForgetting ==
  /\ redisAt = "del" /\ redisAt' = "read" /\ prevReadIds' = {}
  /\ UNCHANGED <<added, stream, redisHand, successConnect, relayVars, oraVars, execVars,
                 settings, failures, steady, deleted>>

DelLogsFromStream ==
  /\ redisAt = "del" /\ redisAt' = "read"
  /\ \/ /\ successConnect
        /\ stream' = stream \ prevReadIds /\ prevReadIds' = {}
        /\ UNCHANGED <<failures, deleted>>
     \/ /\ successConnect /\ failures < MaxFailures
        /\ failures' = failures + 1 /\ deleted' = FALSE
        /\ UNCHANGED <<stream, prevReadIds>>
     \/ ~successConnect /\ UNCHANGED <<stream, prevReadIds, failures, deleted>>
  /\ UNCHANGED <<added, redisHand, successConnect, relayVars, oraVars, execVars, settings, steady>>

\* The messages at the beginning of the stream, at most MaxRead of them.
IsRead(batch) ==
  /\ \A i, j \in 1..Len(batch) : i < j => batch[i] < batch[j]
  /\ \A i \in 1..Len(batch) : \A m \in stream \ Elements(batch) : batch[i] < m
  /\ Len(batch) = MaxRead \/ Elements(batch) = stream

\* Always from the beginning of the stream; nothing to read is an error, too.
ReadLogsFromStream ==
  /\ redisAt = "read"
  /\ \/ \E n \in 1..MaxRead : \E batch \in [1..n -> stream] :
          /\ successConnect /\ IsRead(batch)
          /\ prevReadIds' = prevReadIds \cup Elements(batch)
          /\ IF Len(sendMsg) < Cap
               THEN sendMsg' = Append(sendMsg, batch) /\ redisAt' = "select" /\ UNCHANGED redisHand
               ELSE redisHand' = batch /\ redisAt' = "send" /\ UNCHANGED sendMsg
          /\ UNCHANGED failures
     \/ /\ successConnect /\ stream # {} /\ failures < MaxFailures
        /\ failures' = failures + 1 /\ redisAt' = "select" /\ UNCHANGED <<redisHand, prevReadIds, sendMsg>>
     \/ /\ ~successConnect \/ stream = {}
        /\ redisAt' = "select" /\ UNCHANGED <<redisHand, prevReadIds, sendMsg, failures>>
  /\ UNCHANGED <<added, stream, successConnect, redisRequests, mainHand, receiveMsg, oraRequests,
                 oraVars, execVars, settings, steady, deleted>>

RedisUnblocked ==
  /\ redisAt = "send" /\ Len(sendMsg) < Cap
  /\ sendMsg' = Append(sendMsg, redisHand) /\ redisHand' = <<>> /\ redisAt' = "select"
  /\ UNCHANGED <<added, stream, successConnect, prevReadIds, redisRequests, mainHand, receiveMsg,
                 oraRequests, oraVars, execVars, settings, failures, steady, deleted>>

(***************************************************************************)
(* main.                                                                   *)
(***************************************************************************)
\* A mutant: the channel takes more than its capacity.
MainRequestUnbounded ==
  /\ mainHand = <<"none">> /\ oraRequests > 0 /\ oraRequests' = oraRequests - 1
  /\ redisRequests' = redisRequests + 1
  /\ UNCHANGED <<added, redisVars, sendMsg, mainHand, receiveMsg, oraVars, execVars, settings, failures, steady, deleted>>

MainRequest ==
  /\ mainHand = <<"none">> /\ oraRequests > 0 /\ oraRequests' = oraRequests - 1
  /\ IF redisRequests < Cap THEN redisRequests' = redisRequests + 1 /\ UNCHANGED mainHand
                            ELSE mainHand' = <<"request">> /\ UNCHANGED redisRequests
  /\ UNCHANGED <<added, redisVars, sendMsg, receiveMsg, oraVars, execVars, settings, failures, steady, deleted>>

MainMessages ==
  /\ mainHand = <<"none">> /\ sendMsg # <<>> /\ sendMsg' = Tail(sendMsg)
  /\ IF Len(receiveMsg) < ReceiveCap
       THEN receiveMsg' = Append(receiveMsg, Head(sendMsg)) /\ UNCHANGED mainHand
       ELSE mainHand' = <<"messages", Head(sendMsg)>> /\ UNCHANGED receiveMsg
  /\ UNCHANGED <<added, redisVars, redisRequests, oraRequests, oraVars, execVars,
                 settings, failures, steady, deleted>>

MainUnblocked ==
  /\ \/ /\ mainHand[1] = "request" /\ redisRequests < Cap /\ redisRequests' = redisRequests + 1
        /\ UNCHANGED receiveMsg
     \/ /\ mainHand[1] = "messages" /\ Len(receiveMsg) < ReceiveCap
        /\ receiveMsg' = Append(receiveMsg, mainHand[2]) /\ UNCHANGED redisRequests
  /\ mainHand' = <<"none">>
  /\ UNCHANGED <<added, redisVars, sendMsg, oraRequests, oraVars, execVars,
                 settings, failures, steady, deleted>>

(***************************************************************************)
(* The Oracle controller.                                                  *)
(***************************************************************************)
\* What Run does next when it is through with a change of the connection.
AfterSettings == IF storage THEN "store" ELSE "select"

\* New settings: of the database, of the storage of logs, or both.
NewSettings ==
  /\ oraAt = "select" /\ settings < MaxSettings /\ settings' = settings + 1
  /\ \/ /\ storage' \in BOOLEAN
        /\ IF dbSuccess
             THEN /\ oraAt' = "term" /\ oraThen' = "connect"
                  /\ canExecute' = FALSE /\ dbSuccess' = FALSE /\ steady' = FALSE
             ELSE oraAt' = "connect" /\ UNCHANGED <<oraThen, canExecute, dbSuccess, steady>>
     \/ storage' = TRUE /\ oraAt' = "store" /\ UNCHANGED <<oraThen, canExecute, dbSuccess, steady>>
  /\ UNCHANGED <<added, redisVars, relayVars, open, logMsgBuffer, queryQueue, execVars, failures, deleted>>

\* disconnectFromDb from its push into execTermChan on.
PushTerm ==
  /\ oraAt = "term" /\ execTerm = 0 /\ execTerm' = 1
  /\ open' = FALSE /\ oraAt' = (IF oraThen = "store" THEN AfterSettings ELSE oraThen)
  /\ UNCHANGED <<added, redisVars, relayVars, oraThen, storage, dbSuccess, canExecute, logMsgBuffer,
                 queryQueue, execQuery, execResult, executors, written, failed,
                 settings, failures, steady, deleted>>

\* connectToDb: a connection gets an executor, a failure a token.
ConnectToDb ==
  /\ oraAt = "connect" /\ open' = TRUE
  /\ \/ /\ dbSuccess' = TRUE /\ canExecute' = TRUE /\ oraAt' = "check"
        /\ \E e \in Executors :
             /\ executors[e].at = "unused" /\ \A f \in Executors : f < e => executors[f].at # "unused"
             /\ executors' = [executors EXCEPT ![e].at = "idle"]
        /\ UNCHANGED <<oraThen, steady>>
     \/ /\ dbSuccess' = FALSE /\ canExecute' = FALSE /\ oraAt' = "term" /\ oraThen' = "store"
        /\ steady' = FALSE /\ UNCHANGED executors
  /\ UNCHANGED <<added, redisVars, relayVars, storage, logMsgBuffer, queryQueue, execQuery, execResult,
                 execTerm, written, failed, settings, failures, deleted>>

\* The queue with one more query of maintenance in it.
CheckLogCount(queue) == queue + 1

\* checkLogCount and checkLogLivetime, if the storage settings are new.
Store ==
  /\ oraAt = "store" /\ storage' = FALSE
  /\ oraAt' = "check" /\ queryQueue' = CheckLogCount(queryQueue) + 1
  /\ UNCHANGED <<added, redisVars, relayVars, oraThen, dbSuccess, canExecute, open, logMsgBuffer,
                 execVars, settings, failures, steady, deleted>>

\* A mutant: canExecute is set with every batch.
ReceiveMsgExecuting ==
  /\ oraAt = "select" /\ receiveMsg # <<>>
  /\ logMsgBuffer' = logMsgBuffer \o Head(receiveMsg) /\ receiveMsg' = Tail(receiveMsg)
  /\ oraAt' = "check" /\ canExecute' = dbSuccess
  /\ UNCHANGED <<added, redisVars, sendMsg, redisRequests, mainHand, oraRequests, oraThen, storage, queryQueue,
                 dbSuccess, open, execVars, settings, failures, steady, deleted>>

\* Every 1001st batch also brings a checkLogCount.
ReceiveMsg ==
  /\ oraAt = "select" /\ receiveMsg # <<>>
  /\ logMsgBuffer' = logMsgBuffer \o Head(receiveMsg) /\ receiveMsg' = Tail(receiveMsg)
  /\ oraAt' = "check"
  /\ queryQueue' \in {queryQueue, IF queryQueue <= MaxQueue THEN CheckLogCount(queryQueue) ELSE queryQueue}
  /\ UNCHANGED <<added, redisVars, sendMsg, redisRequests, mainHand, oraRequests, oraThen, storage,
                 dbSuccess, canExecute, open, execVars, settings, failures, steady, deleted>>

\* The ticker of 12 hours.
CheckLogLivetime ==
  /\ oraAt = "select" /\ queryQueue <= MaxQueue
  /\ queryQueue' = queryQueue + 1 /\ oraAt' = "check"
  /\ UNCHANGED <<added, redisVars, relayVars, oraThen, storage, dbSuccess, canExecute, open, logMsgBuffer,
                 execVars, settings, failures, steady, deleted>>

\* A mutant: after an error no further query is allowed.
TakeResultStopping ==
  /\ oraAt = "select" /\ execResult # <<>> /\ execResult' = <<>>
  /\ IF Head(execResult) = "closed"
       THEN /\ canExecute' = FALSE /\ dbSuccess' = FALSE /\ steady' = FALSE
            /\ oraAt' = "term" /\ oraThen' = "check"
       ELSE canExecute' = (Head(execResult) = "ok") /\ oraAt' = "check" /\ UNCHANGED <<dbSuccess, steady, oraThen>>
  /\ UNCHANGED <<added, redisVars, relayVars, storage, open, logMsgBuffer, queryQueue, execQuery, execTerm,
                 executors, written, failed, settings, failures, deleted>>

\* A result that says "database is closed" or "not accepting clients" ends the
\* connection; after any other the next query may come.
TakeResult ==
  /\ oraAt = "select" /\ execResult # <<>> /\ execResult' = <<>>
  /\ IF Head(execResult) = "closed"
       THEN /\ canExecute' = FALSE /\ dbSuccess' = FALSE /\ steady' = FALSE
            /\ oraAt' = "term" /\ oraThen' = "check"
       ELSE canExecute' = TRUE /\ oraAt' = "check" /\ UNCHANGED <<dbSuccess, steady, oraThen>>
  /\ UNCHANGED <<added, redisVars, relayVars, storage, open, logMsgBuffer, queryQueue, execQuery, execTerm,
                 executors, written, failed, settings, failures, deleted>>

\* The ticker of 3 seconds, with a connection: checkHeatrbeat adds a query to an
\* empty queue, after a request (which may block) if there is nothing to write.
Ping ==
  /\ oraAt = "select" /\ dbSuccess
  /\ IF queryQueue = 0 /\ logMsgBuffer = <<>>
       THEN oraAt' = "ping" /\ UNCHANGED queryQueue
       ELSE oraAt' = "check" /\ queryQueue' = IF queryQueue = 0 THEN 1 ELSE queryQueue
  /\ UNCHANGED <<added, redisVars, relayVars, oraThen, storage, dbSuccess, canExecute, open, logMsgBuffer,
                 execVars, settings, failures, steady, deleted>>

PingRequest ==
  /\ oraAt = "ping" /\ oraAt' = "check"
  /\ oraRequests < Cap /\ oraRequests' = oraRequests + 1
  /\ queryQueue' = queryQueue + 1
  /\ UNCHANGED <<added, redisVars, sendMsg, redisRequests, mainHand, receiveMsg, oraThen, storage, dbSuccess,
                 canExecute, open, logMsgBuffer, execVars, settings, failures, steady, deleted>>

\* A mutant: the INSERT takes maxQueryExec messages, the buffer loses one more.
CheckQueryQueueSkipping ==
  /\ oraAt = "check" /\ oraAt' = AfterSettings
  /\ \/ ~canExecute /\ UNCHANGED <<canExecute, queryQueue, logMsgBuffer, execQuery, oraRequests>>
     \/ /\ canExecute /\ queryQueue > 0 /\ execQuery = <<>>
        /\ queryQueue' = queryQueue - 1 /\ execQuery' = <<Maintenance>> /\ canExecute' = FALSE
        /\ UNCHANGED <<logMsgBuffer, oraRequests>>
     \/ /\ canExecute /\ queryQueue = 0 /\ logMsgBuffer # <<>> /\ execQuery = <<>>
        /\ execQuery' = <<First(MaxQueryExec, logMsgBuffer)>>
        /\ logMsgBuffer' = After(MaxQueryExec + 1, logMsgBuffer) /\ canExecute' = FALSE
        /\ UNCHANGED <<queryQueue, oraRequests>>
     \/ /\ canExecute /\ queryQueue = 0 /\ logMsgBuffer = <<>> /\ oraRequests < Cap
        /\ oraRequests' = oraRequests + 1
        /\ UNCHANGED <<canExecute, queryQueue, logMsgBuffer, execQuery>>
  /\ UNCHANGED <<added, redisVars, sendMsg, redisRequests, mainHand, receiveMsg, oraThen, storage, dbSuccess,
                 open, execResult, execTerm, executors, written, failed, settings, failures, steady, deleted>>

\* checkQueryQueue: the next maintenance query, else the next messages, else a
\* request; it blocks while there is no room for what it pushes.
CheckQueryQueue ==
  /\ oraAt = "check" /\ oraAt' = AfterSettings
  /\ \/ ~canExecute /\ UNCHANGED <<canExecute, queryQueue, logMsgBuffer, execQuery, oraRequests>>
     \/ /\ canExecute /\ queryQueue > 0 /\ execQuery = <<>>
        /\ queryQueue' = queryQueue - 1 /\ execQuery' = <<Maintenance>> /\ canExecute' = FALSE
        /\ UNCHANGED <<logMsgBuffer, oraRequests>>
     \/ /\ canExecute /\ queryQueue = 0 /\ logMsgBuffer # <<>> /\ execQuery = <<>>
        /\ execQuery' = <<First(MaxQueryExec, logMsgBuffer)>>
        /\ logMsgBuffer' = After(MaxQueryExec, logMsgBuffer) /\ canExecute' = FALSE
        /\ UNCHANGED <<queryQueue, oraRequests>>
     \/ /\ canExecute /\ queryQueue = 0 /\ logMsgBuffer = <<>> /\ oraRequests < Cap
        /\ oraRequests' = oraRequests + 1
        /\ UNCHANGED <<canExecute, queryQueue, logMsgBuffer, execQuery>>
  /\ UNCHANGED <<added, redisVars, sendMsg, redisRequests, mainHand, receiveMsg, oraThen, storage, dbSuccess,
                 open, execResult, execTerm, executors, written, failed, settings, failures, steady, deleted>>

(***************************************************************************)
(* The executors of the connections.                                       *)
(***************************************************************************)
TakeQuery(e) ==
  /\ executors[e].at = "idle" /\ execQuery # <<>>
  /\ executors' = [executors EXCEPT ![e].at = "running", ![e].query = Head(execQuery)]
  /\ execQuery' = <<>>
  /\ UNCHANGED <<added, redisVars, relayVars, oraVars, execResult, execTerm, written, failed,
                 settings, failures, steady, deleted>>

\* The database runs the query, refuses it, or is closed.  An INSERT that does
\* not succeed is not made again.
Execute(e) ==
  /\ executors[e].at = "running"
  /\ \E r \in Result :
       /\ ~open => r = "closed"
       /\ IF execResult = <<>>
            THEN execResult' = <<r>> /\ executors' = [executors EXCEPT ![e] = Executor("idle")]
            ELSE /\ executors' = [executors EXCEPT ![e] = [Executor("result") EXCEPT !.result = r]]
                 /\ UNCHANGED execResult
       /\ IF r = "ok" THEN written' = written \o executors[e].query /\ UNCHANGED failed
                      ELSE failed' = failed \cup Elements(executors[e].query) /\ UNCHANGED written
  /\ UNCHANGED <<added, redisVars, relayVars, oraVars, execQuery, execTerm,
                 settings, failures, steady, deleted>>

ResultUnblocked(e) ==
  /\ executors[e].at = "result" /\ execResult = <<>>
  /\ execResult' = <<executors[e].result>>
  /\ executors' = [executors EXCEPT ![e] = Executor("idle")]
  /\ UNCHANGED <<added, redisVars, relayVars, oraVars, execQuery, execTerm, written, failed,
                 settings, failures, steady, deleted>>

\* Whichever executor takes the token ends.
Terminate(e) ==
  /\ executors[e].at = "idle" /\ execTerm = 1 /\ execTerm' = 0
  /\ executors' = [executors EXCEPT ![e].at = "gone"]
  /\ UNCHANGED <<added, redisVars, relayVars, oraVars, execQuery, execResult, written, failed,
                 settings, failures, steady, deleted>>

Next ==
  \/ AddLog \/ ConnectToServer \/ RedisRequest \/ DelLogsFromStream \/ ReadLogsFromStream \/ RedisUnblocked
  \/ MainRequest \/ MainMessages \/ MainUnblocked
  \/ NewSettings \/ PushTerm \/ ConnectToDb \/ Store \/ ReceiveMsg \/ TakeResult \/ CheckLogLivetime
  \/ Ping \/ PingRequest \/ CheckQueryQueue
  \/ \E e \in Executors : TakeQuery(e) \/ Execute(e) \/ ResultUnblocked(e) \/ Terminate(e)

Spec == Init /\ [][Next]_vars

\* The tickers of 3 seconds and 12 hours are slower than a maintenance query and
\* than Run, which takes a result that is there.  (A database that needs longer
\* gets nothing but maintenance queries.)
Quick ==
  /\ execResult = <<>> /\ execQuery # <<Maintenance>>
  /\ \A e \in Executors : executors[e].at = "running" => executors[e].query # Maintenance

QuickNext == Next /\ (Ping \/ CheckLogLivetime => Quick)

\* The four kinds of goroutine, Redis, the database and the ticker go on; a
\* case of a select that stays ready, or is ready again and again, is chosen.
FairSpec ==
  /\ Init /\ [][QuickNext]_vars
  /\ WF_vars(RedisRequest) /\ WF_vars(DelLogsFromStream) /\ WF_vars(ReadLogsFromStream) /\ WF_vars(RedisUnblocked)
  /\ SF_vars(MainRequest) /\ SF_vars(MainMessages) /\ WF_vars(MainUnblocked)
  /\ WF_vars(PushTerm) /\ WF_vars(ConnectToDb) /\ WF_vars(Store)
  /\ SF_vars(ReceiveMsg) /\ SF_vars(TakeResult) /\ SF_vars(Quick /\ Ping)
  /\ WF_vars(PingRequest) /\ WF_vars(CheckQueryQueue)
  /\ \A e \in Executors : SF_vars(TakeQuery(e)) /\ WF_vars(Execute(e)) /\ WF_vars(ResultUnblocked(e))

(***************************************************************************)
(* Properties.                                                             *)
(***************************************************************************)
Batches ==
  Elements(sendMsg) \cup Elements(receiveMsg) \cup {redisHand, logMsgBuffer}
    \cup (IF mainHand[1] = "messages" THEN {mainHand[2]} ELSE {})
    \cup Elements(execQuery) \cup {executors[e].query : e \in Executors}

Carried == UNION {Elements(b) : b \in Batches}

\* A message that has left Redis is carried by one of the goroutines or
\* channels, is in Oracle, or its INSERT failed.
LogsAccounted == \A m \in 1..added : m \in stream \cup Carried \cup Elements(written) \cup failed

\* As long as no deletion failed and the first connection lasts, the table gets
\* the messages in the order of the stream, each of them once.
WrittenInOrder ==
  (deleted /\ steady) => \A i, j \in 1..Len(written) : i < j => written[i] < written[j]

\* While the first connection lasts, the controller makes a query only when the
\* one before is answered.
OneQueryAtATime ==
  (steady /\ canExecute) =>
    execQuery = <<>> /\ execResult = <<>> /\ \A e \in Executors : executors[e].at \in {"unused", "idle"}

\* The controller waits with a request for main, and main waits for it with
\* messages, or with a request for Redis, which waits for main with messages.
Jam ==
  /\ oraAt \in {"check", "ping"} /\ oraRequests = Cap
  /\ \/ mainHand[1] = "messages" /\ Len(receiveMsg) = ReceiveCap
     \/ /\ mainHand[1] = "request" /\ redisRequests = Cap
        /\ redisAt = "send" /\ Len(sendMsg) = Cap

\* While the first connection and the one to Redis last, a message is tried in
\* Oracle, unless such a circle closes.
LogsWritten ==
  \A m \in Logs :
    m \in stream ~>
      (m \in Elements(written) \cup failed \/ ~(steady /\ dbSuccess /\ successConnect) \/ Jam)
=============================================================================
