-------------------------- MODULE RedisLogController --------------------------
(***************************************************************************)
(* The journal of the chief on its way to the Redis stream that the Oracle *)
(* logger reads (chief/chief_logger/redis_logger_controller.go,            *)
(* chief_logger.go).  Any goroutine of the chief logs; Run queues what it  *)
(* takes, drops it when the queue is full, and pushes at most MaxSendCount *)
(* messages per tick.  A pipeline that fails, or that is given up after a  *)
(* second, is not repeated: any first part of it may have been executed.   *)
(*                                                                         *)
(* Messages are numbered in the order in which they are logged.            *)
(***************************************************************************)
EXTENDS Integers, Sequences, FiniteSets, SequencesExt

CONSTANTS
  LogCap,        \* capacity of LogMsgChan (1024)
  QueueCap,      \* messages that msgToSend takes (10000)
  MaxSendCount,  \* of RedisLoggerSettings (1000)
  MaxLogs,       \* bound: messages logged
  MaxRedisSetts  \* bound: settings that the local file has had

ASSUME RedisLogAssumption ==
  /\ LogCap \in Nat \ {0} /\ QueueCap \in Nat \ {0} /\ MaxSendCount \in Nat \ {0}
  /\ MaxLogs \in Nat /\ MaxRedisSetts \in Nat \ {0}

VARIABLES
  logged,         \* messages logged so far
  LogMsgChan, msgToSend,
  stream,         \* the Redis stream FmtpLog
  dropped, failed,\* history: dropped at the full queue; in a batch that failed
  redisFile,      \* the settings in temp_redis_settings.json (or the default)
  SettsChan, setts,
  successConnect

redisVars == <<logged, LogMsgChan, msgToSend, stream, dropped, failed, redisFile, SettsChan, setts, successConnect>>

InitRedis ==
  /\ logged = 0 /\ LogMsgChan = <<>> /\ msgToSend = <<>> /\ stream = <<>> /\ dropped = {} /\ failed = {}
  /\ redisFile = 1 /\ SettsChan = <<>> /\ setts = 0 /\ successConnect = FALSE

\* processNewLogMsg, of whichever goroutine logs.
Logs ==
  /\ logged < MaxLogs /\ Len(LogMsgChan) < LogCap
  /\ logged' = logged + 1 /\ LogMsgChan' = Append(LogMsgChan, logged + 1)
  /\ UNCHANGED <<msgToSend, stream, dropped, failed, redisFile, SettsChan, setts, successConnect>>

TakeLog ==
  /\ LogMsgChan # <<>> /\ LogMsgChan' = Tail(LogMsgChan)
  /\ LET m == Head(LogMsgChan) IN
     IF Len(msgToSend) < QueueCap THEN msgToSend' = Append(msgToSend, m) /\ UNCHANGED dropped
     ELSE dropped' = dropped \cup {m} /\ UNCHANGED msgToSend
  /\ UNCHANGED <<logged, stream, failed, redisFile, SettsChan, setts, successConnect>>

\* ChiefLogger.Work reads the file on every notification.  (Bound: SettsChan holds one, not ten.)
EditRedisFile ==
  /\ redisFile < MaxRedisSetts /\ redisFile' = redisFile + 1
  /\ UNCHANGED <<logged, LogMsgChan, msgToSend, stream, dropped, failed, SettsChan, setts, successConnect>>

RedisSettings ==
  /\ SettsChan = <<>> /\ SettsChan' = <<redisFile>>
  /\ UNCHANGED <<logged, LogMsgChan, msgToSend, stream, dropped, failed, redisFile, setts, successConnect>>

\* The ping tells; a failed one is not tried again with the same settings.
ConnectToServer == successConnect' \in BOOLEAN

TakeSetts ==
  /\ SettsChan # <<>> /\ SettsChan' = Tail(SettsChan) /\ setts' = Head(SettsChan)
  /\ IF setts = setts' THEN UNCHANGED successConnect ELSE ConnectToServer
  /\ UNCHANGED <<logged, LogMsgChan, msgToSend, stream, dropped, failed, redisFile>>

SendCount == IF Len(msgToSend) > MaxSendCount THEN MaxSendCount ELSE Len(msgToSend)

\* A mutant: a batch that failed stays in the queue.
SendTickRepeating ==
  /\ successConnect /\ msgToSend # <<>>
  /\ \E n \in 0..SendCount, executed \in BOOLEAN :
       /\ stream' = stream \o SubSeq(msgToSend, 1, n)
       /\ msgToSend' = IF executed /\ n = SendCount THEN SubSeq(msgToSend, n + 1, Len(msgToSend)) ELSE msgToSend
  /\ Len(stream) < MaxLogs
  /\ UNCHANGED <<logged, LogMsgChan, dropped, failed, redisFile, SettsChan, setts, successConnect>>

\* The pipeline: executed, or given up with any first part of it executed.
PushLogsToStream(msgs) ==
  \/ stream' = stream \o msgs /\ UNCHANGED failed
  \/ \E n \in 0..Len(msgs) : stream' = stream \o SubSeq(msgs, 1, n) /\ failed' = failed \cup ToSet(msgs)

SendTick ==
  /\ successConnect /\ msgToSend # <<>>
  /\ msgToSend' = SubSeq(msgToSend, SendCount + 1, Len(msgToSend))
  /\ PushLogsToStream(SubSeq(msgToSend, 1, SendCount))
  /\ UNCHANGED <<logged, LogMsgChan, dropped, redisFile, SettsChan, setts, successConnect>>

RunNext == Logs \/ TakeLog \/ EditRedisFile \/ TakeSetts \/ SendTick

\* The stream has the journal in the order in which it was logged, each message
\* once; one that is missing was dropped at the full queue or with a failed batch.
JournalKept ==
  LET way == stream \o msgToSend \o LogMsgChan IN
  /\ \A i, j \in DOMAIN way : i < j => way[i] < way[j]
  /\ \A m \in 1..logged : m \in ToSet(way) \cup dropped \cup failed
=============================================================================
