-------------------------- MODULE OraLogger_proofs --------------------------
(***************************************************************************)
(* Theorems about OraLogger, for every value of its bounds and capacities. *)
(***************************************************************************)
EXTENDS OraLogger, SequenceTheorems, TLAPS

(***************************************************************************)
(* What First and After make of a sequence, and Elements of theirs.        *)
(***************************************************************************)
LEMMA FirstAfter ==
  ASSUME NEW S, NEW s \in Seq(S), NEW n \in Nat \ {0}
  PROVE  /\ First(n, s) \in Seq(S) /\ After(n, s) \in Seq(S)
         /\ \A i \in 1..Len(First(n, s)) : i \in 1..Len(s) /\ i <= n /\ First(n, s)[i] = s[i]
         /\ \A i \in 1..Len(After(n, s)) : i + n \in 1..Len(s) /\ After(n, s)[i] = s[i + n]
         /\ \A i \in 1..Len(s) : \/ i \in 1..Len(First(n, s))
                                 \/ i - n \in 1..Len(After(n, s))
  <1>1. Len(s) \in Nat /\ \A i \in 1..Len(s) : s[i] \in S
    BY LenProperties, ElementOfSeq
  <1>2. CASE Len(s) > n
    <2> DEFINE f == SubSeq(s, 1, n)
               a == SubSeq(s, n + 1, Len(s))
    <2>1. f \in Seq(S) /\ Len(f) = n /\ \A i \in 1..n : f[i] = s[i]
      BY <1>1, <1>2, SubSeqProperties
    <2>2. a \in Seq(S) /\ Len(a) = Len(s) - n /\ \A i \in 1..Len(s) - n : a[i] = s[i + n]
      <3>1. \A i \in n + 1..Len(s) : s[i] \in S
        BY <1>1
      <3>2. /\ a \in Seq(S) /\ Len(a) = IF n + 1 <= Len(s) THEN Len(s) - (n + 1) + 1 ELSE 0
            /\ \A i \in 1..Len(s) - (n + 1) + 1 : a[i] = s[n + 1 + i - 1]
        BY <1>1, <3>1, SubSeqProperties
      <3> HIDE DEF a
      <3>3. Len(a) = Len(s) - n /\ Len(s) - (n + 1) + 1 = Len(s) - n
        BY <1>1, <1>2, <3>2
      <3>4. ASSUME NEW i \in 1..Len(s) - n PROVE a[i] = s[i + n]
        <4>1. n + 1 + i - 1 = i + n
          BY <1>1
        <4> QED
          BY <3>2, <3>3, <4>1
      <3> QED
        BY <3>2, <3>3, <3>4
    <2>3. First(n, s) = f /\ After(n, s) = a
      BY <1>2 DEF First, After
    <2> HIDE DEF f, a
    <2> QED
      BY <1>1, <1>2, <2>1, <2>2, <2>3
  <1>3. CASE ~(Len(s) > n)
    <2>1. First(n, s) = s /\ After(n, s) = <<>>
      BY <1>3 DEF First, After
    <2>2. <<>> \in Seq(S) /\ Len(<<>>) = 0
      BY EmptySeq
    <2> QED
      BY <1>1, <1>3, <2>1, <2>2
  <1> QED
    BY <1>2, <1>3

LEMMA ElementsTyped ==
  ASSUME NEW S, NEW s \in Seq(S)
  PROVE  Elements(s) \subseteq S
  BY ElementOfSeq DEF Elements

LEMMA ElementsEmpty == Elements(<<>>) = {}
  BY DEF Elements

LEMMA ElementsConcat ==
  ASSUME NEW S, NEW s \in Seq(S), NEW t \in Seq(S)
  PROVE  Elements(s \o t) = Elements(s) \cup Elements(t)
  <1> DEFINE c == s \o t
  <1>1. Len(s) \in Nat /\ Len(t) \in Nat
    BY LenProperties
  <1>2. /\ Len(c) = Len(s) + Len(t)
        /\ \A i \in 1..Len(s) + Len(t) : c[i] = IF i <= Len(s) THEN s[i] ELSE t[i - Len(s)]
    BY ConcatProperties
  <1> HIDE DEF c
  <1>3. \A i \in 1..Len(s) : i \in 1..Len(c) /\ c[i] = s[i]
    BY <1>1, <1>2
  <1>4. ASSUME NEW i \in 1..Len(t) PROVE i + Len(s) \in 1..Len(c) /\ c[i + Len(s)] = t[i]
    <2>1. i + Len(s) \in 1..Len(s) + Len(t) /\ ~(i + Len(s) <= Len(s)) /\ (i + Len(s)) - Len(s) = i
      BY <1>1
    <2> QED
      BY <1>2, <2>1
  <1>5. \A i \in 1..Len(c) : i \in 1..Len(s) \/ (i - Len(s) \in 1..Len(t) /\ ~(i <= Len(s)))
    BY <1>1, <1>2
  <1>6. \A i \in 1..Len(c) : c[i] \in Elements(s) \cup Elements(t)
    BY <1>1, <1>2, <1>3, <1>5 DEF Elements
  <1>7. Elements(s) \subseteq Elements(c) /\ Elements(t) \subseteq Elements(c)
    BY <1>3, <1>4 DEF Elements
  <1>8. Elements(c) \subseteq Elements(s) \cup Elements(t)
    BY <1>6 DEF Elements
  <1> QED
    BY <1>7, <1>8 DEF c

LEMMA ElementsSplit ==
  ASSUME NEW S, NEW s \in Seq(S), NEW n \in Nat \ {0}
  PROVE  Elements(s) = Elements(First(n, s)) \cup Elements(After(n, s))
  <1> DEFINE f == First(n, s)
             a == After(n, s)
  <1>1. /\ \A i \in 1..Len(f) : i \in 1..Len(s) /\ f[i] = s[i]
        /\ \A i \in 1..Len(a) : i + n \in 1..Len(s) /\ a[i] = s[i + n]
        /\ \A i \in 1..Len(s) : i \in 1..Len(f) \/ i - n \in 1..Len(a)
    BY FirstAfter
  <1> HIDE DEF f, a
  <1>2. ASSUME NEW i \in 1..Len(s) PROVE s[i] \in Elements(f) \cup Elements(a)
    <2>1. CASE i \in 1..Len(f)
      BY <1>1, <2>1 DEF Elements
    <2>2. CASE i - n \in 1..Len(a)
      <3>1. (i - n) + n = i
        BY LenProperties
      <3> QED
        BY <1>1, <2>2, <3>1 DEF Elements
    <2> QED
      BY <1>1, <2>1, <2>2
  <1>3. Elements(f) \subseteq Elements(s) /\ Elements(a) \subseteq Elements(s)
    BY <1>1 DEF Elements
  <1>4. Elements(s) \subseteq Elements(f) \cup Elements(a)
    BY <1>2 DEF Elements
  <1> QED
    BY <1>3, <1>4 DEF f, a

(***************************************************************************)
(* The state of the four kinds of goroutine.                               *)
(***************************************************************************)
Ats == {"unused", "idle", "running", "result", "gone"}

ExecutorState == [at : Ats, query : Query, result : Result]

LEMMA ExecutorTyped ==
  /\ \A at \in Ats : Executor(at) \in ExecutorState
  /\ \A r \in Result : [Executor("result") EXCEPT !.result = r] \in ExecutorState
  <1>1. <<>> \in Query
    BY EmptySeq DEF Query
  <1> QED
    BY <1>1 DEF Executor, ExecutorState, Ats, Result

LEMMA ExecutorMoved ==
  ASSUME NEW s \in [Executors -> ExecutorState], NEW e \in Executors, NEW at \in Ats
  PROVE  [s EXCEPT ![e].at = at] \in [Executors -> ExecutorState]
  <1>1. [s[e] EXCEPT !.at = at] \in ExecutorState
    BY DEF ExecutorState
  <1> QED
    BY <1>1

\* Channels of one element, and longer ones.
LEMMA ChannelTyped ==
  ASSUME NEW S, NEW q \in Seq(S), NEW n \in Nat
  PROVE  /\ \A x \in S : <<x>> \in Seq(S) /\ Len(<<x>>) = 1
         /\ <<>> \in Seq(S) /\ Len(<<>>) = 0
         /\ \A x \in S : Append(q, x) \in Seq(S) /\ (Len(q) < n => Len(Append(q, x)) <= n)
         /\ q # <<>> => Head(q) \in S /\ Tail(q) \in Seq(S) /\ (Len(q) <= n => Len(Tail(q)) <= n)
  <1>1. Len(q) \in Nat
    BY LenProperties
  <1>2. <<>> \in Seq(S) /\ Len(<<>>) = 0
    BY EmptySeq
  <1>3. ASSUME NEW x \in S PROVE <<x>> \in Seq(S) /\ Len(<<x>>) = 1
    OBVIOUS
  <1>4. ASSUME NEW x \in S PROVE Append(q, x) \in Seq(S) /\ (Len(q) < n => Len(Append(q, x)) <= n)
    BY <1>1, AppendProperties
  <1>5. ASSUME q # <<>> PROVE Head(q) \in S /\ Tail(q) \in Seq(S) /\ (Len(q) <= n => Len(Tail(q)) <= n)
    BY <1>1, <1>5, HeadTailProperties
  <1> QED
    BY <1>2, <1>3, <1>4, <1>5

\* The variables that are TRUE or FALSE.
LEMMA FlagsKept == Flags /\ Next => Flags'
  <1> SUFFICES ASSUME Flags, Next PROVE Flags'
    OBVIOUS
  <1>1. CASE AddLog \/ RedisRequest \/ RedisUnblocked \/ ReadLogsFromStream
    BY <1>1 DEF Flags, AddLog, RedisRequest, RedisUnblocked, ReadLogsFromStream, oraVars
  <1>2. CASE ConnectToServer
    BY <1>2 DEF Flags, ConnectToServer, oraVars
  <1>3. CASE DelLogsFromStream
    BY <1>3 DEF Flags, DelLogsFromStream, oraVars
  <1>4. CASE MainRequest \/ MainMessages \/ MainUnblocked
    BY <1>4 DEF Flags, MainRequest, MainMessages, MainUnblocked, redisVars, oraVars
  <1>5. CASE NewSettings
    BY <1>5 DEF Flags, NewSettings, redisVars
  <1>6. CASE PushTerm
    BY <1>6 DEF Flags, PushTerm, redisVars
  <1>7. CASE ConnectToDb
    BY <1>7 DEF Flags, ConnectToDb, redisVars
  <1>8. CASE Store \/ ReceiveMsg \/ CheckLogLivetime \/ Ping \/ PingRequest
    BY <1>8 DEF Flags, Store, ReceiveMsg, CheckLogLivetime, Ping, PingRequest, redisVars
  <1>9. CASE TakeResult
    BY <1>9 DEF Flags, TakeResult, redisVars
  <1>10. CASE CheckQueryQueue
    BY <1>10 DEF Flags, CheckQueryQueue, redisVars
  <1>11. ASSUME NEW e \in Executors, TakeQuery(e) \/ Execute(e) \/ ResultUnblocked(e) \/ Terminate(e)
         PROVE  Flags'
    BY <1>11 DEF Flags, TakeQuery, Execute, ResultUnblocked, Terminate, redisVars, oraVars
  <1> QED
    BY <1>1, <1>2, <1>3, <1>4, <1>5, <1>6, <1>7, <1>8, <1>9, <1>10, <1>11 DEF Next

LEMMA TypeRedis ==
  ASSUME TypeOK, Flags',
         AddLog \/ ConnectToServer \/ RedisRequest \/ DelLogsFromStream \/ ReadLogsFromStream \/ RedisUnblocked
  PROVE  TypeOK'
  <1> USE LoggerAssumption
  <1>1. CASE AddLog
    BY <1>1 DEF TypeOK, AddLog, redisVars, relayVars, oraVars, execVars, Logs
  <1>2. CASE ConnectToServer
    BY <1>2 DEF TypeOK, ConnectToServer, relayVars, oraVars, execVars
  <1>3. CASE RedisRequest
    BY <1>3 DEF TypeOK, RedisRequest, oraVars, execVars
  <1>4. CASE DelLogsFromStream
    BY <1>4 DEF TypeOK, DelLogsFromStream, relayVars, oraVars, execVars
  <1>5. CASE ReadLogsFromStream
    <2>1. ASSUME NEW n \in 1..MaxRead, NEW batch \in [1..n -> stream]
          PROVE  batch \in Query /\ Elements(batch) \subseteq Logs
      <3>1. batch \in Query
        BY DEF TypeOK, Query
      <3> QED
        BY <3>1, ElementsTyped DEF Query
    <2>2. prevReadIds' \subseteq Logs /\ redisHand' \in Query /\ failures' \in 0..MaxFailures
            /\ redisAt' \in {"select", "del", "read", "send"}
      BY <1>5, <2>1 DEF TypeOK, ReadLogsFromStream
    <2>3. sendMsg' \in Seq(Query) /\ Len(sendMsg') <= Cap
      <3>1. sendMsg' = sendMsg \/ \E batch \in Query : Len(sendMsg) < Cap /\ sendMsg' = Append(sendMsg, batch)
        BY <1>5, <2>1 DEF ReadLogsFromStream
      <3>2. sendMsg \in Seq(Query) /\ Len(sendMsg) <= Cap
        BY DEF TypeOK
      <3>3. \A b \in Query : /\ Append(sendMsg, b) \in Seq(Query)
                             /\ Len(sendMsg) < Cap => Len(Append(sendMsg, b)) <= Cap
        BY <3>2, ChannelTyped
      <3> QED
        BY <3>1, <3>2, <3>3
    <2> QED
      BY <1>5, <2>2, <2>3 DEF TypeOK, ReadLogsFromStream, oraVars, execVars
  <1>6. CASE RedisUnblocked
    <2>1. sendMsg' \in Seq(Query) /\ Len(sendMsg') <= Cap /\ redisHand' \in Query
      BY <1>6, ChannelTyped DEF TypeOK, RedisUnblocked, Query
    <2> QED
      BY <1>6, <2>1 DEF TypeOK, RedisUnblocked, oraVars, execVars
  <1> QED
    BY <1>1, <1>2, <1>3, <1>4, <1>5, <1>6

LEMMA TypeMain ==
  ASSUME TypeOK, Flags', MainRequest \/ MainMessages \/ MainUnblocked
  PROVE  TypeOK'
  <1> USE LoggerAssumption
  <1>1. CASE MainRequest
    BY <1>1 DEF TypeOK, MainRequest, redisVars, oraVars, execVars
  <1>2. CASE MainMessages
    <2>1. Head(sendMsg) \in Query /\ sendMsg' \in Seq(Query) /\ Len(sendMsg') <= Cap
      BY <1>2, ChannelTyped DEF TypeOK, MainMessages
    <2>2. receiveMsg' \in Seq(Query) /\ Len(receiveMsg') <= ReceiveCap
      <3>1. \/ receiveMsg' = receiveMsg
            \/ Len(receiveMsg) < ReceiveCap /\ receiveMsg' = Append(receiveMsg, Head(sendMsg))
        BY <1>2 DEF MainMessages
      <3>2. receiveMsg \in Seq(Query) /\ Len(receiveMsg) <= ReceiveCap
        BY DEF TypeOK
      <3>3. \A b \in Query : /\ Append(receiveMsg, b) \in Seq(Query)
                             /\ Len(receiveMsg) < ReceiveCap => Len(Append(receiveMsg, b)) <= ReceiveCap
        BY <3>2, ChannelTyped
      <3> QED
        BY <2>1, <3>1, <3>2, <3>3
    <2>3. mainHand' \in {<<"none">>, <<"request">>} \/ (mainHand'[1] = "messages" /\ mainHand'[2] \in Query)
      BY <1>2, <2>1 DEF TypeOK, MainMessages
    <2> QED
      BY <1>2, <2>1, <2>2, <2>3 DEF TypeOK, MainMessages, redisVars, oraVars, execVars
  <1>3. CASE MainUnblocked
    <2>1. receiveMsg' \in Seq(Query) /\ Len(receiveMsg') <= ReceiveCap
      <3>1. CASE mainHand[1] = "messages" /\ Len(receiveMsg) < ReceiveCap /\ receiveMsg' = Append(receiveMsg, mainHand[2])
        <4>1. mainHand[2] \in Query
          BY <3>1 DEF TypeOK
        <4> QED
          BY <3>1, <4>1, ChannelTyped DEF TypeOK
      <3> QED
        BY <1>3, <3>1 DEF TypeOK, MainUnblocked
    <2>2. redisRequests' \in 0..Cap /\ mainHand' = <<"none">>
      BY <1>3 DEF TypeOK, MainUnblocked
    <2> QED
      BY <1>3, <2>1, <2>2 DEF TypeOK, MainUnblocked, redisVars, oraVars, execVars
  <1> QED
    BY <1>1, <1>2, <1>3

LEMMA TypeOra ==
  ASSUME TypeOK, Flags',
         \/ NewSettings \/ PushTerm \/ ConnectToDb \/ Store \/ ReceiveMsg \/ TakeResult \/ CheckLogLivetime
         \/ Ping \/ PingRequest \/ CheckQueryQueue
  PROVE  TypeOK'
  <1> USE LoggerAssumption
  <1>1. CASE NewSettings
    BY <1>1 DEF TypeOK, NewSettings, redisVars, relayVars, execVars
  <1>2. CASE PushTerm
    BY <1>2 DEF TypeOK, PushTerm, AfterSettings, redisVars, relayVars
  <1>3. CASE ConnectToDb
    <2>1. executors' \in [Executors -> ExecutorState]
      <3>1. executors \in [Executors -> ExecutorState] /\ "idle" \in Ats
        BY DEF TypeOK, ExecutorState, Ats
      <3>2. executors' = executors \/ \E e \in Executors : executors' = [executors EXCEPT ![e].at = "idle"]
        BY <1>3 DEF ConnectToDb
      <3> QED
        BY <3>1, <3>2, ExecutorMoved
    <2> QED
      BY <1>3, <2>1 DEF TypeOK, ConnectToDb, redisVars, relayVars, ExecutorState, Ats
  <1>4. CASE Store
    BY <1>4 DEF TypeOK, Store, CheckLogCount, redisVars, relayVars, execVars
  <1>5. CASE ReceiveMsg
    <2>1. Head(receiveMsg) \in Query /\ receiveMsg' \in Seq(Query) /\ Len(receiveMsg') <= ReceiveCap
      BY <1>5, ChannelTyped DEF TypeOK, ReceiveMsg
    <2>2. logMsgBuffer' \in Query
      BY <1>5, <2>1, ConcatProperties DEF TypeOK, ReceiveMsg, Query
    <2>3. queryQueue' \in Nat
      BY <1>5 DEF TypeOK, ReceiveMsg, CheckLogCount
    <2> QED
      BY <1>5, <2>1, <2>2, <2>3 DEF TypeOK, ReceiveMsg, redisVars, execVars
  <1>6. CASE TakeResult
    <2>1. execResult' \in Seq(Result) /\ Len(execResult') <= 1
      BY <1>6, ChannelTyped DEF TypeOK, TakeResult
    <2> QED
      BY <1>6, <2>1 DEF TypeOK, TakeResult, redisVars, relayVars
  <1>7. CASE CheckLogLivetime
    BY <1>7 DEF TypeOK, CheckLogLivetime, redisVars, relayVars, execVars
  <1>8. CASE Ping
    BY <1>8 DEF TypeOK, Ping, redisVars, relayVars, execVars
  <1>9. CASE PingRequest
    BY <1>9 DEF TypeOK, PingRequest, redisVars, execVars
  <1>10. CASE CheckQueryQueue
    <2>1. /\ First(MaxQueryExec, logMsgBuffer) \in Query /\ After(MaxQueryExec, logMsgBuffer) \in Query
          /\ Maintenance \in Query
      BY FirstAfter, EmptySeq DEF TypeOK, Query, Maintenance
    <2>2. logMsgBuffer' \in Query
      BY <1>10, <2>1 DEF TypeOK, CheckQueryQueue
    <2>3. execQuery' \in Seq(Query) /\ Len(execQuery') <= 1
      <3>1. execQuery' = execQuery \/ \E query \in Query : execQuery' = <<query>>
        BY <1>10, <2>1 DEF CheckQueryQueue
      <3>2. execQuery \in Seq(Query) /\ Len(execQuery) <= 1
        BY DEF TypeOK
      <3>3. \A query \in Query : <<query>> \in Seq(Query) /\ Len(<<query>>) <= 1
        BY <3>2, ChannelTyped
      <3> QED
        BY <3>1, <3>2, <3>3, Zenon
    <2>4. queryQueue' \in Nat /\ oraRequests' \in 0..Cap
      <3>1. queryQueue' = queryQueue \/ (queryQueue > 0 /\ queryQueue' = queryQueue - 1)
        BY <1>10 DEF CheckQueryQueue
      <3>2. oraRequests' = oraRequests \/ (oraRequests < Cap /\ oraRequests' = oraRequests + 1)
        BY <1>10 DEF CheckQueryQueue
      <3> QED
        BY <3>1, <3>2 DEF TypeOK
    <2>5. oraAt' \in {"select", "store"}
      BY <1>10 DEF CheckQueryQueue, AfterSettings
    <2> QED
      BY <1>10, <2>2, <2>3, <2>4, <2>5 DEF TypeOK, CheckQueryQueue, redisVars
  <1> QED
    BY <1>1, <1>2, <1>3, <1>4, <1>5, <1>6, <1>7, <1>8, <1>9, <1>10

LEMMA TypeExecutors ==
  ASSUME TypeOK, Flags', NEW e \in Executors, TakeQuery(e) \/ Execute(e) \/ ResultUnblocked(e) \/ Terminate(e)
  PROVE  TypeOK'
  <1> USE LoggerAssumption
  <1>0. executors \in [Executors -> ExecutorState]
    BY DEF TypeOK, ExecutorState, Ats
  <1>1. CASE TakeQuery(e)
    <2>1. Head(execQuery) \in Query /\ execQuery' \in Seq(Query) /\ Len(execQuery') <= 1
      BY <1>1, ChannelTyped DEF TypeOK, TakeQuery
    <2>2. executors' \in [Executors -> ExecutorState]
      BY <1>0, <1>1, <2>1 DEF TakeQuery, ExecutorState, Ats
    <2> QED
      BY <1>1, <2>1, <2>2 DEF TypeOK, TakeQuery, redisVars, relayVars, oraVars, ExecutorState, Ats
  <1>2. CASE Execute(e)
    <2>1. executors' \in [Executors -> ExecutorState]
      BY <1>0, <1>2, ExecutorTyped DEF Execute, Ats
    <2>2. execResult' \in Seq(Result) /\ Len(execResult') <= 1
      <3>1. execResult' = execResult \/ \E res \in Result : execResult' = <<res>>
        BY <1>2 DEF Execute
      <3>2. execResult \in Seq(Result) /\ Len(execResult) <= 1
        BY DEF TypeOK
      <3> QED
        BY <3>1, <3>2, ChannelTyped
    <2>3. executors[e].query \in Seq(Logs)
      BY <1>0 DEF ExecutorState, Query
    <2>4. written' \in Query
      <3>1. written' = written \/ written' = written \o executors[e].query
        BY <1>2 DEF Execute
      <3>2. written \in Seq(Logs)
        BY DEF TypeOK, Query
      <3> QED
        BY <2>3, <3>1, <3>2, ConcatProperties DEF Query
    <2>5. failed' \subseteq Logs
      BY <1>2, <2>3, ElementsTyped DEF TypeOK, Execute
    <2> QED
      BY <1>2, <2>1, <2>2, <2>4, <2>5 DEF TypeOK, Execute, redisVars, relayVars, oraVars, ExecutorState, Ats
  <1>3. CASE ResultUnblocked(e)
    <2>1. executors' \in [Executors -> ExecutorState]
      BY <1>0, <1>3, ExecutorTyped DEF ResultUnblocked, Ats
    <2>2. execResult' \in Seq(Result) /\ Len(execResult') <= 1
      <3>1. executors[e].result \in Result
        BY <1>0 DEF ExecutorState
      <3> QED
        BY <1>3, <3>1, ChannelTyped DEF TypeOK, ResultUnblocked
    <2> QED
      BY <1>3, <2>1, <2>2 DEF TypeOK, ResultUnblocked, redisVars, relayVars, oraVars, ExecutorState, Ats
  <1>4. CASE Terminate(e)
    <2>1. executors' \in [Executors -> ExecutorState]
      <3>1. executors' = [executors EXCEPT ![e].at = "gone"] /\ "gone" \in Ats
        BY <1>4 DEF Terminate, Ats
      <3> QED
        BY <1>0, <3>1, ExecutorMoved
    <2>2. execTerm' \in 0..1
      BY <1>4 DEF Terminate
    <2>3. UNCHANGED <<added, redisVars, relayVars, oraVars, execQuery, execResult, written, failed,
                      settings, failures>>
      BY <1>4 DEF Terminate
    <2> QED
      BY <2>1, <2>2, <2>3 DEF TypeOK, redisVars, relayVars, oraVars, ExecutorState, Ats
  <1> QED
    BY <1>1, <1>2, <1>3, <1>4

\* Every variable keeps its type, and no channel takes more than its capacity.
THEOREM TypeCorrect == Spec => []TypeOK
  <1>1. Init => TypeOK
    <2> SUFFICES ASSUME Init PROVE TypeOK
      OBVIOUS
    <2>1. <<>> \in Query /\ <<>> \in Seq(Query) /\ <<>> \in Seq(Result) /\ Len(<<>>) = 0
      BY EmptySeq DEF Query
    <2>2. executors \in [Executors -> ExecutorState]
      BY ExecutorTyped DEF Init, Ats
    <2>3. Flags
      BY DEF Init, Flags
    <2> QED
      BY <2>1, <2>2, <2>3, LoggerAssumption DEF Init, TypeOK, ExecutorState, Ats
  <1>2. TypeOK /\ [Next]_vars => TypeOK'
    <2> SUFFICES ASSUME TypeOK, [Next]_vars PROVE TypeOK'
      OBVIOUS
    <2>1. CASE UNCHANGED vars
      BY <2>1 DEF Flags, TypeOK, vars, redisVars, relayVars, oraVars, execVars
    <2>2. Next => Flags'
      BY FlagsKept DEF TypeOK
    <2> QED
      BY <2>1, <2>2, TypeRedis, TypeMain, TypeOra, TypeExecutors DEF Next
  <1> QED
    BY <1>1, <1>2, PTL DEF Spec

(***************************************************************************)
(* One query at a time.  What makes the next query wait is spread over     *)
(* canExecute, two channels and the executor: while the first connection   *)
(* lasts, at most one of the four says that a query is under way, and only *)
(* one executor has ever been started.                                     *)
(***************************************************************************)
Quiet == \A e \in Executors : executors[e].at \in {"unused", "idle"}

Single ==
  steady =>
    /\ oraAt # "term" /\ execTerm # 1
    /\ oraAt = "connect" => ~dbSuccess
    /\ ~dbSuccess => /\ ~canExecute /\ execQuery = <<>> /\ execResult = <<>>
                     /\ \A e \in Executors : executors[e].at = "unused"
    /\ canExecute => execQuery = <<>> /\ execResult = <<>> /\ Quiet
    /\ execQuery # <<>> => execResult = <<>> /\ Quiet
    /\ execResult # <<>> => Quiet
    /\ \A e, f \in Executors : executors[e].at # "unused" /\ executors[f].at # "unused" => e = f

LEMMA SingleKept == TypeOK /\ Single /\ [Next]_vars => Single'
  <1> SUFFICES ASSUME TypeOK, Single, [Next]_vars, steady' PROVE Single'
    BY DEF Single
  <1>0. executors \in [Executors -> ExecutorState]
    BY DEF TypeOK, ExecutorState, Ats
  <1>1. CASE \/ AddLog \/ ConnectToServer \/ RedisRequest \/ DelLogsFromStream \/ ReadLogsFromStream
             \/ RedisUnblocked \/ MainRequest \/ MainMessages \/ MainUnblocked \/ UNCHANGED vars
    <2>1. UNCHANGED <<oraVars, execVars, steady>>
      BY <1>1 DEF AddLog, ConnectToServer, RedisRequest, DelLogsFromStream, ReadLogsFromStream,
           RedisUnblocked, MainRequest, MainMessages, MainUnblocked, vars
    <2> QED
      BY <2>1 DEF Single, Quiet, oraVars, execVars
  <1>2. CASE NewSettings
    <2>1. /\ steady /\ UNCHANGED <<execVars, canExecute, dbSuccess>>
          /\ oraAt' \in {"connect", "store"} /\ (oraAt' = "connect" => ~dbSuccess)
      BY <1>2 DEF NewSettings
    <2> QED
      BY <2>1 DEF Single, Quiet, execVars
  <1>3. CASE PushTerm
    BY <1>3 DEF Single, PushTerm
  <1>4. CASE ConnectToDb
    <2>1. steady /\ oraAt = "connect" /\ ~dbSuccess
      BY <1>4 DEF ConnectToDb, Single
    <2>2. /\ execQuery' = <<>> /\ execResult' = <<>> /\ execTerm' # 1 /\ oraAt' = "check" /\ dbSuccess'
          /\ \A f \in Executors : executors[f].at = "unused"
      BY <1>4, <2>1 DEF ConnectToDb, Single
    <2>3. PICK e \in Executors : executors' = [executors EXCEPT ![e].at = "idle"]
      BY <1>4 DEF ConnectToDb
    <2>4. \A f \in Executors : executors'[f].at = IF f = e THEN "idle" ELSE "unused"
      BY <1>0, <2>2, <2>3 DEF ExecutorState
    <2> QED
      BY <2>2, <2>4 DEF Single, Quiet
  <1>5. CASE Store \/ ReceiveMsg \/ CheckLogLivetime \/ Ping \/ PingRequest
    <2>1. UNCHANGED <<execVars, steady, dbSuccess, canExecute>> /\ oraAt' \in {"check", "ping"}
      BY <1>5 DEF Store, ReceiveMsg, CheckLogLivetime, Ping, PingRequest
    <2> QED
      BY <2>1 DEF Single, Quiet, execVars
  <1>6. CASE TakeResult
    BY <1>6 DEF Single, TakeResult, Quiet
  <1>7. CASE CheckQueryQueue
    <2>1. oraAt' \in {"select", "store"} /\ UNCHANGED <<steady, dbSuccess, execResult, execTerm, executors>>
      BY <1>7 DEF CheckQueryQueue, AfterSettings
    <2>2. \/ UNCHANGED <<canExecute, execQuery>>
          \/ canExecute /\ ~canExecute'
      BY <1>7 DEF CheckQueryQueue
    <2> QED
      BY <2>1, <2>2 DEF Single, Quiet
  <1>8. ASSUME NEW e \in Executors, TakeQuery(e) PROVE Single'
    <2>1. /\ execQuery # <<>> /\ execQuery' = <<>> /\ executors[e].at = "idle"
          /\ UNCHANGED <<oraVars, execResult, execTerm, steady>>
      BY <1>8 DEF TakeQuery
    <2>2. \A f \in Executors : executors'[f].at = IF f = e THEN "running" ELSE executors[f].at
      BY <1>0, <1>8 DEF TakeQuery, ExecutorState
    <2> QED
      BY <2>1, <2>2 DEF Single, Quiet, oraVars
  <1>9. ASSUME NEW e \in Executors, Execute(e) PROVE Single'
    <2>1. steady /\ executors[e].at = "running" /\ UNCHANGED <<oraVars, execQuery, execTerm>>
      BY <1>9 DEF Execute
    <2>2. execResult = <<>> /\ execQuery = <<>> /\ ~canExecute /\ dbSuccess
      BY <2>1 DEF Single, Quiet
    <2>3. executors' = [executors EXCEPT ![e] = Executor("idle")]
      BY <1>9, <2>2 DEF Execute
    <2>4. \A f \in Executors : executors'[f].at = IF f = e THEN "idle" ELSE executors[f].at
      BY <1>0, <2>3 DEF ExecutorState, Executor
    <2>5. Quiet'
      BY <2>1, <2>4 DEF Quiet, Single
    <2> QED
      BY <2>1, <2>2, <2>4, <2>5 DEF Single, oraVars
  <1>10. ASSUME NEW e \in Executors, ResultUnblocked(e) PROVE Single'
    <2>1. steady /\ executors[e].at = "result" /\ UNCHANGED <<oraVars, execQuery, execTerm>>
      BY <1>10 DEF ResultUnblocked
    <2>2. executors' = [executors EXCEPT ![e] = Executor("idle")]
      BY <1>10 DEF ResultUnblocked
    <2>3. execQuery = <<>> /\ ~canExecute /\ dbSuccess
      BY <2>1 DEF Single, Quiet
    <2>4. \A f \in Executors : executors'[f].at = IF f = e THEN "idle" ELSE executors[f].at
      BY <1>0, <2>2 DEF ExecutorState, Executor
    <2>5. Quiet'
      BY <2>1, <2>4 DEF Quiet, Single
    <2> QED
      BY <2>1, <2>3, <2>4, <2>5 DEF Single, oraVars
  <1>11. ASSUME NEW e \in Executors, Terminate(e) PROVE Single'
    BY <1>11 DEF Terminate, Single
  <1> QED
    BY <1>1, <1>2, <1>3, <1>4, <1>5, <1>6, <1>7, <1>8, <1>9, <1>10, <1>11 DEF Next

LEMMA SingleInvariant == Spec => []Single
  <1>1. Init => Single
    BY DEF Init, Single, Quiet, Executor
  <1>2. Spec => []TypeOK
    BY TypeCorrect
  <1>3. TypeOK /\ Single /\ [Next]_vars => Single'
    BY SingleKept
  <1> QED
    BY <1>1, <1>2, <1>3, PTL DEF Spec

\* While the first connection lasts, OraCntrlr makes a query only
\* when the one before is answered: queries are not pipelined.
THEOREM OneQuery == Spec => []OneQueryAtATime
  <1>1. Single => OneQueryAtATime
    BY DEF Single, OneQueryAtATime, Quiet
  <1> QED
    BY <1>1, SingleInvariant, PTL

(***************************************************************************)
(* Where the messages are.  On its way to the table a message passes nine  *)
(* places; the steps of the goroutines move it from one to an earlier one  *)
(* of the list, and what lies between the two is empty then.               *)
(***************************************************************************)
InQueue(q) == UNION {Elements(q[i]) : i \in 1..Len(q)}

Running == UNION {Elements(executors[e].query) : e \in Executors}
Relayed == IF mainHand[1] = "messages" THEN Elements(mainHand[2]) ELSE {}

Places == <<Elements(written), Running, InQueue(execQuery), Elements(logMsgBuffer), InQueue(receiveMsg),
            Relayed, InQueue(sendMsg), Elements(redisHand), stream \ prevReadIds>>

\* The messages ms leave the place q for the place p.
Moves(old, new, p, q, ms) ==
  /\ \A x \in 1..9 : x # p /\ x # q => new[x] = old[x]
  /\ new[p] = old[p] \cup ms
  /\ old[q] = new[q] \cup ms
  /\ \A x \in 1..9 : p < x /\ x < q => old[x] = {}

LEMMA PlacesAre ==
  /\ Places[1] = Elements(written) /\ Places[2] = Running /\ Places[3] = InQueue(execQuery)
  /\ Places[4] = Elements(logMsgBuffer) /\ Places[5] = InQueue(receiveMsg) /\ Places[6] = Relayed
  /\ Places[7] = InQueue(sendMsg) /\ Places[8] = Elements(redisHand) /\ Places[9] = stream \ prevReadIds
  BY DEF Places

LEMMA PlacesWillBe ==
  /\ Places'[1] = Elements(written') /\ Places'[2] = Running' /\ Places'[3] = InQueue(execQuery')
  /\ Places'[4] = Elements(logMsgBuffer') /\ Places'[5] = InQueue(receiveMsg') /\ Places'[6] = Relayed'
  /\ Places'[7] = InQueue(sendMsg') /\ Places'[8] = Elements(redisHand') /\ Places'[9] = stream' \ prevReadIds'
  BY DEF Places

LEMMA NinePlaces ==
  ASSUME NEW x \in 1..9
  PROVE  x = 1 \/ x = 2 \/ x = 3 \/ x = 4 \/ x = 5 \/ x = 6 \/ x = 7 \/ x = 8 \/ x = 9
  OBVIOUS

\* The messages in a Go channel of batches.
LEMMA QueueContents ==
  ASSUME NEW S, NEW q \in Seq(Seq(S))
  PROVE  /\ InQueue(<<>>) = {}
         /\ \A b \in Seq(S) : InQueue(<<b>>) = Elements(b)
         /\ \A b \in Seq(S) : InQueue(Append(q, b)) = InQueue(q) \cup Elements(b)
         /\ q # <<>> => InQueue(q) = Elements(Head(q)) \cup InQueue(Tail(q))
  <1>0. Len(q) \in Nat /\ \A i \in 1..Len(q) : q[i] \in Seq(S)
    BY LenProperties, ElementOfSeq
  <1>1. InQueue(<<>>) = {}
    BY DEF InQueue
  <1>2. ASSUME NEW b \in Seq(S) PROVE InQueue(<<b>>) = Elements(b)
    <2> DEFINE one == <<b>>
    <2>1. Len(one) = 1 /\ one[1] = b
      OBVIOUS
    <2> HIDE DEF one
    <2>2. InQueue(one) = Elements(b)
      BY <2>1 DEF InQueue
    <2> QED
      BY <2>2 DEF one
  <1>3. ASSUME NEW b \in Seq(S) PROVE InQueue(Append(q, b)) = InQueue(q) \cup Elements(b)
    <2> DEFINE a == Append(q, b)
    <2>1. Len(a) = Len(q) + 1 /\ (\A i \in 1..Len(q) : a[i] = q[i]) /\ a[Len(q) + 1] = b
      BY AppendProperties
    <2> HIDE DEF a
    <2>2. InQueue(a) \subseteq InQueue(q) \cup Elements(b)
      BY <1>0, <2>1 DEF InQueue
    <2>3. InQueue(q) \subseteq InQueue(a)
      BY <1>0, <2>1 DEF InQueue
    <2>4. Elements(b) \subseteq InQueue(a)
      <3>1. Len(q) + 1 \in 1..Len(a)
        BY <1>0, <2>1
      <3>2. Elements(a[Len(q) + 1]) \subseteq InQueue(a)
        BY <3>1 DEF InQueue
      <3> QED
        BY <2>1, <3>2
    <2> QED
      BY <2>2, <2>3, <2>4 DEF a
  <1>4. ASSUME q # <<>> PROVE InQueue(q) = Elements(Head(q)) \cup InQueue(Tail(q))
    <2> DEFINE h == Head(q)
               t == Tail(q)
    <2>1. /\ Len(q) \in Nat \ {0} /\ Len(t) = Len(q) - 1 /\ \A i \in 1..Len(t) : t[i] = q[i + 1]
          /\ h = q[1]
      BY <1>4, HeadTailProperties, EmptySeq
    <2> HIDE DEF h, t
    <2>2. ASSUME NEW i \in 1..Len(q) PROVE Elements(q[i]) \subseteq Elements(h) \cup InQueue(t)
      <3>1. CASE i = 1
        BY <2>1, <3>1
      <3>2. CASE i # 1
        <4>1. i - 1 \in 1..Len(t) /\ t[i - 1] = q[(i - 1) + 1] /\ (i - 1) + 1 = i
          BY <2>1, <3>2
        <4> QED
          BY <4>1 DEF InQueue
      <3> QED
        BY <3>1, <3>2
    <2>3. Elements(h) \subseteq InQueue(q)
      BY <2>1 DEF InQueue
    <2>4. InQueue(t) \subseteq InQueue(q)
      <3>1. \A i \in 1..Len(t) : i + 1 \in 1..Len(q) /\ t[i] = q[i + 1]
        BY <2>1
      <3> QED
        BY <3>1 DEF InQueue
    <2>5. InQueue(q) \subseteq Elements(h) \cup InQueue(t)
      BY <2>2 DEF InQueue
    <2> QED
      BY <2>3, <2>4, <2>5 DEF h, t
  <1> QED
    BY <1>1, <1>2, <1>3, <1>4

\* A hand is empty unless its goroutine waits to push what is in it, and an
\* executor has a query only while the database runs it.
Tidy ==
  /\ redisAt # "send" => redisHand = <<>>
  /\ \A e \in Executors : executors[e].at # "running" => executors[e].query = <<>>

LEMMA TidyKept == TypeOK /\ Tidy /\ [Next]_vars => Tidy'
  <1> SUFFICES ASSUME TypeOK, Tidy, [Next]_vars PROVE Tidy'
    OBVIOUS
  <1>0. executors \in [Executors -> ExecutorState]
    BY DEF TypeOK, ExecutorState, Ats
  <1>1. CASE \/ AddLog \/ ConnectToServer \/ MainRequest \/ MainMessages \/ MainUnblocked
             \/ NewSettings \/ PushTerm \/ Store \/ ReceiveMsg \/ TakeResult \/ CheckLogLivetime
             \/ Ping \/ PingRequest \/ CheckQueryQueue \/ UNCHANGED vars
    <2>1. UNCHANGED <<redisAt, redisHand, executors>>
      BY <1>1 DEF AddLog, ConnectToServer, MainRequest, MainMessages, MainUnblocked, NewSettings, PushTerm,
           Store, ReceiveMsg, TakeResult, CheckLogLivetime, Ping, PingRequest, CheckQueryQueue, vars,
           redisVars, execVars
    <2> QED
      BY <2>1 DEF Tidy
  <1>2. CASE RedisRequest \/ DelLogsFromStream \/ ReadLogsFromStream \/ RedisUnblocked
    <2>1. executors' = executors
      BY <1>2 DEF RedisRequest, DelLogsFromStream, ReadLogsFromStream, RedisUnblocked, execVars
    <2>2. redisAt' # "send" => redisHand' = <<>>
      BY <1>2 DEF RedisRequest, DelLogsFromStream, ReadLogsFromStream, RedisUnblocked, Tidy
    <2> QED
      BY <2>1, <2>2 DEF Tidy
  <1>3. CASE ConnectToDb
    <2>1. UNCHANGED <<redisAt, redisHand>>
      BY <1>3 DEF ConnectToDb, redisVars
    <2>2. \/ executors' = executors
          \/ \E e \in Executors : executors[e].at = "unused" /\ executors' = [executors EXCEPT ![e].at = "idle"]
      BY <1>3 DEF ConnectToDb
    <2>3. \A f \in Executors : executors'[f].query = executors[f].query
            /\ (executors'[f].at # "running" => executors[f].at # "running")
      BY <1>0, <2>2 DEF ExecutorState, Ats
    <2> QED
      BY <2>1, <2>3 DEF Tidy
  <1>4. ASSUME NEW e \in Executors, TakeQuery(e) \/ Execute(e) \/ ResultUnblocked(e) \/ Terminate(e)
        PROVE  Tidy'
    <2>1. UNCHANGED <<redisAt, redisHand>>
      BY <1>4 DEF TakeQuery, Execute, ResultUnblocked, Terminate, redisVars
    <2>2. \A f \in Executors \ {e} : executors'[f] = executors[f]
      BY <1>0, <1>4 DEF TakeQuery, Execute, ResultUnblocked, Terminate
    <2>3. executors'[e].at # "running" => executors'[e].query = <<>>
      BY <1>0, <1>4 DEF TakeQuery, Execute, ResultUnblocked, Terminate, ExecutorState, Executor, Tidy
    <2> QED
      BY <2>1, <2>2, <2>3 DEF Tidy
  <1> QED
    BY <1>1, <1>2, <1>3, <1>4 DEF Next

(***************************************************************************)
(* What the steps do to the places.                                        *)
(***************************************************************************)
\* The steps that do not touch a message.
LEMMA StayingSteps ==
  ASSUME TypeOK, Tidy,
         \/ ConnectToServer \/ RedisRequest \/ DelLogsFromStream \/ MainRequest
         \/ NewSettings \/ PushTerm \/ ConnectToDb \/ Store \/ TakeResult \/ CheckLogLivetime
         \/ Ping \/ PingRequest \/ UNCHANGED vars
         \/ \E e \in Executors : ResultUnblocked(e) \/ Terminate(e)
  PROVE  /\ \A x \in 1..9 : Places'[x] = Places[x]
         /\ UNCHANGED <<added, failed, written, logMsgBuffer, execQuery, receiveMsg, sendMsg, redisHand>>
         /\ stream' \subseteq stream /\ stream \ prevReadIds \subseteq stream' /\ prevReadIds' \subseteq prevReadIds
         /\ \A e \in Executors : executors'[e].query = executors[e].query
         /\ mainHand'[1] = "messages" => mainHand'[1] = mainHand[1] /\ mainHand'[2] = mainHand[2]
  <1>0. executors \in [Executors -> ExecutorState]
    BY DEF TypeOK, ExecutorState, Ats
  <1>1. /\ UNCHANGED <<added, failed, written, logMsgBuffer, execQuery, receiveMsg, sendMsg, redisHand>>
        /\ stream' \subseteq stream /\ stream \ prevReadIds \subseteq stream' /\ prevReadIds' \subseteq prevReadIds
        /\ stream' \ prevReadIds' = stream \ prevReadIds
    BY DEF ConnectToServer, RedisRequest, DelLogsFromStream, MainRequest, NewSettings, PushTerm,
           ConnectToDb, Store, TakeResult, CheckLogLivetime, Ping, PingRequest, ResultUnblocked, Terminate,
           vars, redisVars, relayVars, oraVars, execVars
  <1>2. Relayed' = Relayed /\ (mainHand'[1] = "messages" => mainHand'[1] = mainHand[1] /\ mainHand'[2] = mainHand[2])
    <2>1. CASE MainRequest
      <3>1. mainHand[1] # "messages" /\ mainHand'[1] # "messages"
        BY <2>1 DEF MainRequest
      <3> QED
        BY <3>1 DEF Relayed
    <2>2. CASE ~MainRequest
      <3>1. mainHand' = mainHand
        BY <2>2 DEF ConnectToServer, RedisRequest, DelLogsFromStream, NewSettings, PushTerm,
           ConnectToDb, Store, TakeResult, CheckLogLivetime, Ping, PingRequest, ResultUnblocked, Terminate,
           vars, relayVars
      <3> QED
        BY <3>1 DEF Relayed
    <2> QED
      BY <2>1, <2>2
  <1>3. \A f \in Executors : executors'[f].query = executors[f].query
    <2>1. CASE ConnectToDb
      <3>1. \/ executors' = executors
            \/ \E e \in Executors : executors' = [executors EXCEPT ![e].at = "idle"]
        BY <2>1 DEF ConnectToDb
      <3> QED
        BY <1>0, <3>1 DEF ExecutorState
    <2>2. ASSUME NEW e \in Executors, ResultUnblocked(e) \/ Terminate(e)
          PROVE  \A f \in Executors : executors'[f].query = executors[f].query
      BY <1>0, <2>2 DEF ResultUnblocked, Terminate, ExecutorState, Executor, Tidy
    <2>3. CASE \/ ConnectToServer \/ RedisRequest \/ DelLogsFromStream \/ MainRequest
               \/ NewSettings \/ PushTerm \/ Store \/ TakeResult \/ CheckLogLivetime
               \/ Ping \/ PingRequest \/ UNCHANGED vars
      <3>1. executors' = executors
        BY <2>3 DEF ConnectToServer, RedisRequest, DelLogsFromStream, MainRequest, NewSettings, PushTerm,
           Store, TakeResult, CheckLogLivetime, Ping, PingRequest, vars, execVars
      <3> QED
        BY <3>1
    <2> QED
      BY <2>1, <2>2, <2>3
  <1>4. Running' = Running
    BY <1>3 DEF Running
  <1>5. ASSUME NEW x \in 1..9 PROVE Places'[x] = Places[x]
    BY <1>1, <1>2, <1>4, NinePlaces, PlacesAre, PlacesWillBe
  <1> QED
    BY <1>1, <1>2, <1>3, <1>5

LEMMA TypedPlaces ==
  ASSUME TypeOK
  PROVE  /\ written \in Seq(Logs) /\ logMsgBuffer \in Seq(Logs) /\ redisHand \in Seq(Logs)
         /\ execQuery \in Seq(Seq(Logs)) /\ receiveMsg \in Seq(Seq(Logs)) /\ sendMsg \in Seq(Seq(Logs))
         /\ \A e \in Executors : executors[e].query \in Seq(Logs)
         /\ mainHand[1] = "messages" => mainHand[2] \in Seq(Logs)
         /\ Len(execQuery) <= 1
  BY DEF TypeOK, Query

LEMMA RunningOf ==
  ASSUME NEW e \in Executors, \A f \in Executors \ {e} : executors'[f] = executors[f]
  PROVE  /\ executors[e].query = <<>> => Running' = Running \cup Elements(executors'[e].query)
         /\ executors'[e].query = <<>> => Running = Running' \cup Elements(executors[e].query)
  <1>1. Elements(executors[e].query) \subseteq Running /\ Elements(executors'[e].query) \subseteq Running'
    BY DEF Running
  <1>2. \A f \in Executors \ {e} : Elements(executors'[f].query) = Elements(executors[f].query)
    OBVIOUS
  <1>3. Running' \subseteq Running \cup Elements(executors'[e].query)
    BY <1>2 DEF Running
  <1>4. Running \subseteq Running' \cup Elements(executors[e].query)
    BY <1>2 DEF Running
  <1>5. executors[e].query = <<>> => Running \subseteq Running'
    BY <1>4, ElementsEmpty
  <1>6. executors'[e].query = <<>> => Running' \subseteq Running
    BY <1>3, ElementsEmpty
  <1> QED
    BY <1>1, <1>3, <1>4, <1>5, <1>6

LEMMA FlowTakeQuery ==
  ASSUME TypeOK, Tidy, NEW e \in Executors, TakeQuery(e)
  PROVE  /\ Moves(Places, Places', 2, 3, Elements(Head(execQuery)))
         /\ executors'[e].query = Head(execQuery) /\ execQuery' = <<>>
         /\ \A f \in Executors \ {e} : executors'[f] = executors[f]
         /\ UNCHANGED <<added, redisVars, relayVars, oraVars, execResult, execTerm, written, failed, steady, deleted>>
  <1>0. executors \in [Executors -> ExecutorState]
    BY DEF TypeOK, ExecutorState, Ats
  <1>1. /\ executors'[e].query = Head(execQuery) /\ execQuery' = <<>> /\ execQuery # <<>>
        /\ \A f \in Executors \ {e} : executors'[f] = executors[f]
        /\ executors[e].query = <<>>
        /\ UNCHANGED <<added, redisVars, relayVars, oraVars, execResult, execTerm, written, failed, steady, deleted>>
    BY <1>0 DEF TakeQuery, ExecutorState, Tidy
  <1>2. Running' = Running \cup Elements(Head(execQuery))
    BY <1>1, RunningOf
  <1>3. InQueue(execQuery) = InQueue(execQuery') \cup Elements(Head(execQuery))
    <2>1. Tail(execQuery) = <<>>
      <3>1. Tail(execQuery) \in Seq(Seq(Logs)) /\ Len(Tail(execQuery)) = Len(execQuery) - 1
        BY <1>1, TypedPlaces, HeadTailProperties
      <3>2. Len(execQuery) \in Nat /\ Len(Tail(execQuery)) \in Nat
        BY <3>1, TypedPlaces, LenProperties
      <3> QED
        BY <3>1, <3>2, TypedPlaces, EmptySeq
    <2>2. execQuery \in Seq(Seq(Logs))
      BY TypedPlaces
    <2>3. /\ InQueue(<<>>) = {}
          /\ InQueue(execQuery) = Elements(Head(execQuery)) \cup InQueue(Tail(execQuery))
      BY <1>1, <2>2, QueueContents
    <2>4. InQueue(execQuery') = {} /\ InQueue(Tail(execQuery)) = {}
      BY <1>1, <2>1, <2>3
    <2> QED
      BY <2>3, <2>4
  <1>4. Relayed' = Relayed
    BY <1>1 DEF Relayed, relayVars
  <1>5. UNCHANGED <<written, logMsgBuffer, receiveMsg, sendMsg, redisHand, stream, prevReadIds>>
    BY <1>1 DEF relayVars, oraVars, redisVars
  <1>6. Moves(Places, Places', 2, 3, Elements(Head(execQuery)))
    BY <1>2, <1>3, <1>4, <1>5, NinePlaces, PlacesAre, PlacesWillBe DEF Moves
  <1> QED
    BY <1>1, <1>6

\* The database has run the query, or its messages are among the failed ones.
LEMMA FlowExecute ==
  ASSUME TypeOK, Tidy, NEW e \in Executors, Execute(e)
  PROVE  LET ms == Elements(executors[e].query)
         IN  /\ \A x \in 3..9 : Places'[x] = Places[x]
             /\ Places[2] = Places'[2] \cup ms
             /\ \/ written' = written \o executors[e].query /\ failed' = failed /\ Places'[1] = Places[1] \cup ms
                \/ written' = written /\ failed' = failed \cup ms /\ Places'[1] = Places[1]
             /\ executors[e].at = "running" /\ executors'[e].query = <<>>
             /\ \A f \in Executors \ {e} : executors'[f] = executors[f]
             /\ UNCHANGED <<added, redisVars, relayVars, oraVars, execQuery, execTerm, steady, deleted>>
  <1> DEFINE ms == Elements(executors[e].query)
  <1>0. executors \in [Executors -> ExecutorState]
    BY DEF TypeOK, ExecutorState, Ats
  <1>1. /\ executors[e].at = "running" /\ executors'[e].query = <<>>
        /\ \A f \in Executors \ {e} : executors'[f] = executors[f]
        /\ UNCHANGED <<added, redisVars, relayVars, oraVars, execQuery, execTerm, steady, deleted>>
    BY <1>0 DEF Execute, Executor
  <1>2. \/ written' = written \o executors[e].query /\ failed' = failed
        \/ written' = written /\ failed' = failed \cup ms
    BY DEF Execute
  <1>3. Elements(written \o executors[e].query) = Elements(written) \cup ms
    BY TypedPlaces, ElementsConcat
  <1>4. Running = Running' \cup ms
    BY <1>1, RunningOf
  <1>5. UNCHANGED <<execQuery, logMsgBuffer, receiveMsg, sendMsg, redisHand, stream, prevReadIds, mainHand>>
    BY <1>1 DEF relayVars, oraVars, redisVars
  <1>6. Relayed' = Relayed
    BY <1>5 DEF Relayed
  <1> HIDE DEF ms
  <1>7. \A x \in 3..9 : Places'[x] = Places[x]
    <2>1. \A x \in 3..9 : x \in 1..9 /\ x # 1 /\ x # 2
      OBVIOUS
    <2> QED
      BY <2>1, <1>5, <1>6, NinePlaces, PlacesAre, PlacesWillBe
  <1>8. Places[2] = Places'[2] \cup ms
    BY <1>4, PlacesAre, PlacesWillBe
  <1>9. Places[1] = Elements(written) /\ Places'[1] = Elements(written')
    BY PlacesAre, PlacesWillBe
  <1> QED
    BY <1>1, <1>2, <1>3, <1>7, <1>8, <1>9, Zenon DEF ms

LEMMA FlowCheckQueryQueue ==
  ASSUME TypeOK, CheckQueryQueue
  PROVE  /\ \/ /\ \A x \in 1..9 : Places'[x] = Places[x]
               /\ logMsgBuffer' = logMsgBuffer /\ (execQuery' = execQuery \/ execQuery' = <<<<>>>>)
            \/ /\ Moves(Places, Places', 3, 4, Elements(First(MaxQueryExec, logMsgBuffer)))
               /\ execQuery' = <<First(MaxQueryExec, logMsgBuffer)>>
               /\ logMsgBuffer' = After(MaxQueryExec, logMsgBuffer)
         /\ UNCHANGED <<added, redisVars, sendMsg, mainHand, receiveMsg, executors, written, failed, steady, deleted>>
  <1>1. UNCHANGED <<added, redisVars, sendMsg, mainHand, receiveMsg, executors, written, failed, steady, deleted>>
    BY DEF CheckQueryQueue
  <1>2. Relayed' = Relayed /\ Running' = Running
    BY <1>1 DEF Relayed, Running
  <1>3. UNCHANGED <<written, receiveMsg, sendMsg, redisHand, stream, prevReadIds>>
    BY <1>1 DEF redisVars
  <1>4. /\ InQueue(<<>>) = {}
        /\ \A b \in Seq(Logs) : InQueue(<<b>>) = Elements(b)
    BY TypedPlaces, QueueContents
  <1>5. CASE UNCHANGED <<execQuery, logMsgBuffer>>
    <2>1. \A x \in 1..9 : Places'[x] = Places[x]
      BY <1>2, <1>3, <1>5, NinePlaces, PlacesAre, PlacesWillBe
    <2> QED
      BY <1>1, <1>5, <2>1
  <1>6. CASE execQuery = <<>> /\ execQuery' = <<Maintenance>> /\ logMsgBuffer' = logMsgBuffer
    <2>1. execQuery' = <<<<>>>> /\ <<>> \in Seq(Logs)
      BY <1>6, EmptySeq DEF Maintenance
    <2>2. InQueue(execQuery') = {} /\ InQueue(execQuery) = {}
      BY <1>4, <1>6, <2>1, ElementsEmpty, Zenon
    <2>3. \A x \in 1..9 : Places'[x] = Places[x]
      BY <1>2, <1>3, <1>6, <2>2, NinePlaces, PlacesAre, PlacesWillBe
    <2> QED
      BY <1>1, <1>6, <2>1, <2>3
  <1>7. CASE /\ execQuery = <<>> /\ execQuery' = <<First(MaxQueryExec, logMsgBuffer)>>
             /\ logMsgBuffer' = After(MaxQueryExec, logMsgBuffer)
    <2> DEFINE f == First(MaxQueryExec, logMsgBuffer)
    <2>1. f \in Seq(Logs) /\ Elements(logMsgBuffer) = Elements(f) \cup Elements(logMsgBuffer')
      BY <1>7, TypedPlaces, FirstAfter, ElementsSplit, LoggerAssumption
    <2> HIDE DEF f
    <2>2. execQuery' = <<f>> /\ execQuery = <<>>
      BY <1>7 DEF f
    <2>3. InQueue(execQuery') = Elements(f) /\ InQueue(execQuery) = {}
      BY <1>4, <2>1, <2>2, Zenon
    <2>4. Moves(Places, Places', 3, 4, Elements(f))
      <3>1. \A x \in 1..9 : x # 3 /\ x # 4 => Places'[x] = Places[x]
        BY <1>2, <1>3, NinePlaces, PlacesAre, PlacesWillBe
      <3>2. Places'[3] = Places[3] \cup Elements(f) /\ Places[4] = Places'[4] \cup Elements(f)
        BY <2>1, <2>3, PlacesAre, PlacesWillBe
      <3>3. \A x \in 1..9 : ~(3 < x /\ x < 4)
        OBVIOUS
      <3> QED
        BY <3>1, <3>2, <3>3 DEF Moves
    <2> QED
      BY <1>1, <1>7, <2>4 DEF f
  <1>8. \/ UNCHANGED <<execQuery, logMsgBuffer>>
        \/ execQuery = <<>> /\ execQuery' = <<Maintenance>> /\ logMsgBuffer' = logMsgBuffer
        \/ /\ execQuery = <<>> /\ execQuery' = <<First(MaxQueryExec, logMsgBuffer)>>
           /\ logMsgBuffer' = After(MaxQueryExec, logMsgBuffer)
    BY DEF CheckQueryQueue
  <1> QED
    BY <1>5, <1>6, <1>7, <1>8

LEMMA FlowReceiveMsg ==
  ASSUME TypeOK, ReceiveMsg
  PROVE  /\ Moves(Places, Places', 4, 5, Elements(Head(receiveMsg)))
         /\ receiveMsg # <<>> /\ receiveMsg' = Tail(receiveMsg)
         /\ logMsgBuffer' = logMsgBuffer \o Head(receiveMsg) /\ Head(receiveMsg) \in Seq(Logs)
         /\ UNCHANGED <<added, redisVars, sendMsg, mainHand, execVars, steady, deleted>>
  <1>1. /\ receiveMsg # <<>> /\ receiveMsg' = Tail(receiveMsg)
        /\ logMsgBuffer' = logMsgBuffer \o Head(receiveMsg)
        /\ UNCHANGED <<added, redisVars, sendMsg, mainHand, execVars, steady, deleted>>
    BY DEF ReceiveMsg
  <1>2. Head(receiveMsg) \in Seq(Logs)
    BY <1>1, TypedPlaces, HeadTailProperties
  <1>3. Elements(logMsgBuffer \o Head(receiveMsg)) = Elements(logMsgBuffer) \cup Elements(Head(receiveMsg))
    BY <1>2, TypedPlaces, ElementsConcat
  <1>4. InQueue(receiveMsg) = Elements(Head(receiveMsg)) \cup InQueue(Tail(receiveMsg))
    BY <1>1, TypedPlaces, QueueContents
  <1>5. Relayed' = Relayed /\ Running' = Running
    BY <1>1 DEF Relayed, Running, execVars
  <1>6. UNCHANGED <<written, execQuery, sendMsg, redisHand, stream, prevReadIds>>
    BY <1>1 DEF redisVars, execVars
  <1>7. /\ Elements(logMsgBuffer') = Elements(logMsgBuffer) \cup Elements(Head(receiveMsg))
        /\ InQueue(receiveMsg) = Elements(Head(receiveMsg)) \cup InQueue(receiveMsg')
    BY <1>1, <1>3, <1>4, Zenon
  <1>8. Moves(Places, Places', 4, 5, Elements(Head(receiveMsg)))
    BY <1>5, <1>6, <1>7, NinePlaces, SMTT(20), PlacesAre, PlacesWillBe DEF Moves
  <1> QED
    BY <1>1, <1>2, <1>8

LEMMA FlowMainMessages ==
  ASSUME TypeOK, MainMessages
  PROVE  LET b == Head(sendMsg)
         IN  /\ sendMsg # <<>> /\ sendMsg' = Tail(sendMsg) /\ b \in Seq(Logs)
             /\ \/ /\ Moves(Places, Places', 5, 7, Elements(b))
                   /\ receiveMsg' = Append(receiveMsg, b) /\ mainHand'[1] # "messages"
                \/ /\ Moves(Places, Places', 6, 7, Elements(b))
                   /\ receiveMsg' = receiveMsg /\ mainHand'[2] = b
             /\ UNCHANGED <<added, redisVars, oraVars, execVars, steady, deleted>>
  <1> DEFINE b == Head(sendMsg)
  <1>1. /\ sendMsg # <<>> /\ sendMsg' = Tail(sendMsg) /\ mainHand = <<"none">>
        /\ UNCHANGED <<added, redisVars, oraVars, execVars, steady, deleted>>
    BY DEF MainMessages
  <1>2. b \in Seq(Logs)
    BY <1>1, TypedPlaces, HeadTailProperties
  <1>3. InQueue(sendMsg) = Elements(b) \cup InQueue(sendMsg')
    <2>1. InQueue(sendMsg) = Elements(b) \cup InQueue(Tail(sendMsg))
      BY <1>1, TypedPlaces, QueueContents
    <2> QED
      BY <1>1, <2>1, Zenon
  <1>4. \/ receiveMsg' = Append(receiveMsg, b) /\ mainHand' = mainHand
        \/ receiveMsg' = receiveMsg /\ mainHand' = <<"messages", b>>
    BY DEF MainMessages
  <1>5. Relayed = {} /\ mainHand[1] # "messages"
    BY <1>1 DEF Relayed
  <1>6. Running' = Running /\ UNCHANGED <<written, execQuery, logMsgBuffer, redisHand, stream, prevReadIds>>
    BY <1>1 DEF Running, redisVars, oraVars, execVars
  <1>7. \A a \in Seq(Logs) : InQueue(Append(receiveMsg, a)) = InQueue(receiveMsg) \cup Elements(a)
    BY TypedPlaces, QueueContents
  <1> HIDE DEF b
  <1>8. CASE receiveMsg' = Append(receiveMsg, b) /\ mainHand' = mainHand
    <2>1. InQueue(receiveMsg') = InQueue(receiveMsg) \cup Elements(b)
      BY <1>2, <1>7, <1>8, Zenon
    <2>2. Relayed' = {} /\ mainHand'[1] # "messages"
      BY <1>5, <1>8 DEF Relayed
    <2>3. Places'[5] = Places[5] \cup Elements(b) /\ Places[7] = Places'[7] \cup Elements(b) /\ Places[6] = {}
      BY <1>3, <1>5, <2>1, PlacesAre, PlacesWillBe
    <2>4. \A x \in 1..9 : x # 5 /\ x # 7 => Places'[x] = Places[x]
      BY <1>5, <1>6, <2>2, NinePlaces, PlacesAre, PlacesWillBe
    <2>5. \A x \in 1..9 : 5 < x /\ x < 7 => x = 6
      OBVIOUS
    <2>6. Moves(Places, Places', 5, 7, Elements(b))
      BY <2>3, <2>4, <2>5 DEF Moves
    <2> QED
      BY <1>1, <1>2, <1>8, <2>2, <2>6 DEF b
  <1>9. CASE receiveMsg' = receiveMsg /\ mainHand' = <<"messages", b>>
    <2>1. Relayed' = Elements(b) /\ mainHand'[2] = b
      BY <1>9 DEF Relayed
    <2>2. Places'[6] = Places[6] \cup Elements(b) /\ Places[7] = Places'[7] \cup Elements(b)
      BY <1>3, <1>5, <2>1, PlacesAre, PlacesWillBe
    <2>3. \A x \in 1..9 : x # 6 /\ x # 7 => Places'[x] = Places[x]
      BY <1>6, <1>9, NinePlaces, PlacesAre, PlacesWillBe
    <2>4. \A x \in 1..9 : ~(6 < x /\ x < 7)
      OBVIOUS
    <2>5. Moves(Places, Places', 6, 7, Elements(b))
      BY <2>2, <2>3, <2>4 DEF Moves
    <2> QED
      BY <1>1, <1>2, <1>9, <2>1, <2>5 DEF b
  <1> QED
    BY <1>4, <1>8, <1>9

LEMMA FlowMainUnblocked ==
  ASSUME TypeOK, MainUnblocked
  PROVE  /\ mainHand'[1] # "messages"
         /\ \/ receiveMsg' = receiveMsg /\ \A x \in 1..9 : Places'[x] = Places[x]
            \/ /\ mainHand[1] = "messages" /\ receiveMsg' = Append(receiveMsg, mainHand[2])
               /\ Moves(Places, Places', 5, 6, Elements(mainHand[2]))
         /\ UNCHANGED <<added, redisVars, sendMsg, oraVars, execVars, steady, deleted>>
  <1>1. mainHand' = <<"none">> /\ UNCHANGED <<added, redisVars, sendMsg, oraVars, execVars, steady, deleted>>
    BY DEF MainUnblocked
  <1>2. Running' = Running /\ UNCHANGED <<written, execQuery, logMsgBuffer, redisHand, stream, prevReadIds>>
    BY <1>1 DEF Running, redisVars, oraVars, execVars
  <1>3. Relayed' = {} /\ mainHand'[1] # "messages"
    BY <1>1 DEF Relayed
  <1>4. CASE mainHand[1] # "messages" /\ receiveMsg' = receiveMsg
    <2>1. Relayed = {}
      BY <1>4 DEF Relayed
    <2>2. \A x \in 1..9 : Places'[x] = Places[x]
      BY <1>1, <1>2, <1>3, <1>4, <2>1, NinePlaces, PlacesAre, PlacesWillBe
    <2> QED
      BY <1>1, <1>3, <1>4, <2>2
  <1>5. CASE mainHand[1] = "messages" /\ receiveMsg' = Append(receiveMsg, mainHand[2])
    <2> DEFINE b == mainHand[2]
    <2>1. b \in Seq(Logs) /\ Relayed = Elements(b)
      BY <1>5, TypedPlaces DEF Relayed
    <2>2. InQueue(Append(receiveMsg, b)) = InQueue(receiveMsg) \cup Elements(b)
      BY <2>1, TypedPlaces, QueueContents
    <2> HIDE DEF b
    <2>3. receiveMsg' = Append(receiveMsg, b)
      BY <1>5 DEF b
    <2>4. InQueue(receiveMsg') = InQueue(receiveMsg) \cup Elements(b)
      BY <2>2, <2>3, Zenon
    <2>5. Places'[5] = Places[5] \cup Elements(b) /\ Places[6] = Places'[6] \cup Elements(b)
      BY <1>3, <2>1, <2>4, PlacesAre, PlacesWillBe
    <2>6. \A x \in 1..9 : x # 5 /\ x # 6 => Places'[x] = Places[x]
      BY <1>1, <1>2, NinePlaces, PlacesAre, PlacesWillBe
    <2>7. \A x \in 1..9 : ~(5 < x /\ x < 6)
      OBVIOUS
    <2>8. Moves(Places, Places', 5, 6, Elements(b))
      BY <2>5, <2>6, <2>7 DEF Moves
    <2> QED
      BY <1>1, <1>3, <1>5, <2>8 DEF b
  <1>6. \/ mainHand[1] # "messages" /\ receiveMsg' = receiveMsg
        \/ mainHand[1] = "messages" /\ receiveMsg' = Append(receiveMsg, mainHand[2])
    BY DEF MainUnblocked
  <1> QED
    BY <1>4, <1>5, <1>6

LEMMA FlowRedisUnblocked ==
  ASSUME TypeOK, RedisUnblocked
  PROVE  /\ Moves(Places, Places', 7, 8, Elements(redisHand))
         /\ redisAt' = "select" /\ redisHand' = <<>> /\ sendMsg' = Append(sendMsg, redisHand)
         /\ UNCHANGED <<added, stream, successConnect, prevReadIds, mainHand, receiveMsg, oraVars, execVars,
                        steady, deleted>>
  <1>1. /\ redisAt' = "select" /\ redisHand' = <<>> /\ sendMsg' = Append(sendMsg, redisHand)
        /\ UNCHANGED <<added, stream, successConnect, prevReadIds, mainHand, receiveMsg, oraVars, execVars,
                       steady, deleted>>
    BY DEF RedisUnblocked
  <1>2. /\ Running' = Running /\ Relayed' = Relayed
        /\ UNCHANGED <<written, execQuery, logMsgBuffer, receiveMsg, stream, prevReadIds>>
    BY <1>1 DEF Running, Relayed, oraVars, execVars
  <1>3. InQueue(Append(sendMsg, redisHand)) = InQueue(sendMsg) \cup Elements(redisHand)
    BY TypedPlaces, QueueContents
  <1>4. InQueue(sendMsg') = InQueue(sendMsg) \cup Elements(redisHand) /\ Elements(redisHand') = {}
    BY <1>1, <1>3, ElementsEmpty, Zenon
  <1>5. Places'[7] = Places[7] \cup Elements(redisHand) /\ Places[8] = Places'[8] \cup Elements(redisHand)
    BY <1>4, PlacesAre, PlacesWillBe
  <1>6. \A x \in 1..9 : x # 7 /\ x # 8 => Places'[x] = Places[x]
    BY <1>2, NinePlaces, PlacesAre, PlacesWillBe
  <1>7. \A x \in 1..9 : ~(7 < x /\ x < 8)
    OBVIOUS
  <1> QED
    BY <1>1, <1>5, <1>6, <1>7 DEF Moves

\* XREAD returns messages that are still in the stream, and those that were
\* read before if they have not been deleted.
LEMMA FlowReadLogs ==
  ASSUME TypeOK, Tidy, ReadLogsFromStream
  PROVE  /\ UNCHANGED <<added, stream, successConnect, mainHand, receiveMsg, oraVars, execVars, steady, deleted>>
         /\ \/ /\ redisAt' = "select" /\ UNCHANGED <<redisHand, prevReadIds, sendMsg>>
               /\ \A x \in 1..9 : Places'[x] = Places[x]
            \/ \E b \in Seq(Logs) :
                 /\ IsRead(b) /\ Elements(b) \subseteq stream /\ successConnect
                 /\ prevReadIds' = prevReadIds \cup Elements(b) /\ redisAt' \in {"select", "send"}
                 /\ \A x \in 1..6 : Places'[x] = Places[x]
                 /\ Places'[9] = Places[9] \ Elements(b)
                 /\ \/ /\ sendMsg' = Append(sendMsg, b) /\ redisHand' = redisHand
                       /\ Places'[7] = Places[7] \cup Elements(b) /\ Places'[8] = Places[8] /\ Places[8] = {}
                    \/ /\ sendMsg' = sendMsg /\ redisHand' = b
                       /\ Places'[7] = Places[7] /\ Places'[8] = Places[8] \cup Elements(b)
  <1>1. /\ redisAt = "read"
        /\ UNCHANGED <<added, stream, successConnect, mainHand, receiveMsg, oraVars, execVars, steady, deleted>>
    BY DEF ReadLogsFromStream
  <1>2. Running' = Running /\ Relayed' = Relayed /\ UNCHANGED <<written, execQuery, logMsgBuffer, receiveMsg>>
    BY <1>1 DEF Running, Relayed, oraVars, execVars
  <1>3. CASE redisAt' = "select" /\ UNCHANGED <<redisHand, prevReadIds, sendMsg>>
    <2>1. \A x \in 1..9 : Places'[x] = Places[x]
      BY <1>1, <1>2, <1>3, NinePlaces, PlacesAre, PlacesWillBe
    <2> QED
      BY <1>1, <1>3, <2>1
  <1>4. ASSUME NEW b \in Seq(stream), IsRead(b), successConnect, prevReadIds' = prevReadIds \cup Elements(b),
               \/ sendMsg' = Append(sendMsg, b) /\ redisAt' = "select" /\ redisHand' = redisHand
               \/ redisHand' = b /\ redisAt' = "send" /\ sendMsg' = sendMsg
        PROVE  \E a \in Seq(Logs) :
                 /\ IsRead(a) /\ Elements(a) \subseteq stream /\ successConnect
                 /\ prevReadIds' = prevReadIds \cup Elements(a) /\ redisAt' \in {"select", "send"}
                 /\ \A x \in 1..6 : Places'[x] = Places[x]
                 /\ Places'[9] = Places[9] \ Elements(a)
                 /\ \/ /\ sendMsg' = Append(sendMsg, a) /\ redisHand' = redisHand
                       /\ Places'[7] = Places[7] \cup Elements(a) /\ Places'[8] = Places[8] /\ Places[8] = {}
                    \/ /\ sendMsg' = sendMsg /\ redisHand' = a
                       /\ Places'[7] = Places[7] /\ Places'[8] = Places[8] \cup Elements(a)
    <2>1. Elements(b) \subseteq stream /\ b \in Seq(Logs)
      <3>1. stream \subseteq Logs
        BY DEF TypeOK
      <3> QED
        BY <3>1, ElementsTyped, SeqMonotonic
    <2>2. redisHand = <<>> /\ Elements(redisHand) = {}
      BY <1>1, ElementsEmpty DEF Tidy
    <2>3. Places'[9] = Places[9] \ Elements(b)
      BY <1>1, <1>4, PlacesAre, PlacesWillBe
    <2>4. \A x \in 1..6 : Places'[x] = Places[x]
      <3>1. \A x \in 1..6 : x = 1 \/ x = 2 \/ x = 3 \/ x = 4 \/ x = 5 \/ x = 6
        OBVIOUS
      <3> QED
        BY <1>2, <3>1, PlacesAre, PlacesWillBe
    <2>5. InQueue(Append(sendMsg, b)) = InQueue(sendMsg) \cup Elements(b)
      BY <2>1, TypedPlaces, QueueContents
    <2>6. CASE sendMsg' = Append(sendMsg, b) /\ redisAt' = "select" /\ redisHand' = redisHand
      <3>1. InQueue(sendMsg') = InQueue(sendMsg) \cup Elements(b)
        BY <2>5, <2>6, Zenon
      <3>2. Places'[7] = Places[7] \cup Elements(b) /\ Places'[8] = Places[8] /\ Places[8] = {}
        BY <2>2, <2>6, <3>1, PlacesAre, PlacesWillBe
      <3> QED
        BY <1>4, <2>1, <2>3, <2>4, <2>6, <3>2
    <2>7. CASE redisHand' = b /\ redisAt' = "send" /\ sendMsg' = sendMsg
      <3>1. Places'[7] = Places[7] /\ Places'[8] = Places[8] \cup Elements(b)
        BY <2>2, <2>7, PlacesAre, PlacesWillBe
      <3> QED
        BY <1>4, <2>1, <2>3, <2>4, <2>7, <3>1
    <2> QED
      BY <1>4, <2>6, <2>7
  <1>5. \/ redisAt' = "select" /\ UNCHANGED <<redisHand, prevReadIds, sendMsg>>
        \/ \E b \in Seq(stream) :
             /\ IsRead(b) /\ successConnect /\ prevReadIds' = prevReadIds \cup Elements(b)
             /\ \/ sendMsg' = Append(sendMsg, b) /\ redisAt' = "select" /\ redisHand' = redisHand
                \/ redisHand' = b /\ redisAt' = "send" /\ sendMsg' = sendMsg
    <2>1. \A n \in 1..MaxRead : \A b \in [1..n -> stream] : b \in Seq(stream)
      BY LoggerAssumption
    <2> QED
      BY <2>1 DEF ReadLogsFromStream
  <1> QED
    BY <1>1, <1>3, <1>4, <1>5

(***************************************************************************)
(* No message is lost without a failed INSERT.  A message that has been    *)
(* read is deleted from Redis with the next request, so that from the read *)
(* on it has to be at one of the first eight places, or has failed.        *)
(***************************************************************************)
Kept == {m \in Logs : m \in failed \/ \E x \in 1..8 : m \in Places[x]}

Accounted == stream \cup Kept = 1..added /\ prevReadIds \subseteq Kept

LEMMA PlacesTyped ==
  ASSUME TypeOK
  PROVE  \A x \in 1..9 : Places[x] \subseteq Logs
  <1>1. /\ Elements(written) \subseteq Logs /\ Elements(logMsgBuffer) \subseteq Logs
        /\ Elements(redisHand) \subseteq Logs
    BY TypedPlaces, ElementsTyped
  <1>2. \A q \in Seq(Seq(Logs)) : InQueue(q) \subseteq Logs
    <2>1. \A q \in Seq(Seq(Logs)) : \A i \in 1..Len(q) : Elements(q[i]) \subseteq Logs
      BY ElementOfSeq, ElementsTyped
    <2> QED
      BY <2>1 DEF InQueue
  <1>3. Running \subseteq Logs
    <2>1. \A e \in Executors : Elements(executors[e].query) \subseteq Logs
      BY TypedPlaces, ElementsTyped
    <2> QED
      BY <2>1 DEF Running
  <1>4. Relayed \subseteq Logs
    BY TypedPlaces, ElementsTyped DEF Relayed
  <1>5. InQueue(execQuery) \subseteq Logs /\ InQueue(receiveMsg) \subseteq Logs /\ InQueue(sendMsg) \subseteq Logs
    BY <1>2, TypedPlaces
  <1>6. stream \ prevReadIds \subseteq Logs
    BY DEF TypeOK
  <1> QED
    BY <1>1, <1>3, <1>4, <1>5, <1>6, NinePlaces, PlacesAre

LEMMA MovesKeep ==
  ASSUME NEW p \in 1..8, NEW q \in 1..8, NEW ms, Moves(Places, Places', p, q, ms), failed' = failed
  PROVE  Kept' = Kept
  <1>1. \A x \in 1..8 : Places[x] \subseteq Places'[x] \cup Places'[p]
    BY DEF Moves
  <1>2. \A x \in 1..8 : Places'[x] \subseteq Places[x] \cup Places[q]
    BY DEF Moves
  <1> QED
    BY <1>1, <1>2 DEF Kept

LEMMA AccountedStep ==
  ASSUME Accounted, Kept' = Kept, added' = added, stream' \subseteq stream,
         stream \ prevReadIds \subseteq stream', prevReadIds' \subseteq prevReadIds
  PROVE  Accounted'
  BY DEF Accounted

LEMMA AccountedKept == TypeOK /\ TypeOK' /\ Tidy /\ Accounted /\ [Next]_vars => Accounted'
  <1> SUFFICES ASSUME TypeOK, TypeOK', Tidy, Accounted, [Next]_vars PROVE Accounted'
    OBVIOUS
  <1> USE DEF redisVars
  <1>1. CASE AddLog
    <2>1. /\ \A x \in 1..8 : Places'[x] = Places[x]
          /\ failed' = failed /\ prevReadIds' = prevReadIds
          /\ stream' = stream \cup {added + 1} /\ added' = added + 1
      <3>1. Running' = Running /\ Relayed' = Relayed
        BY <1>1 DEF AddLog, Running, Relayed, relayVars, execVars
      <3>2. /\ UNCHANGED <<written, execQuery, logMsgBuffer, receiveMsg, sendMsg, redisHand>>
            /\ failed' = failed /\ prevReadIds' = prevReadIds
            /\ stream' = stream \cup {added + 1} /\ added' = added + 1
        BY <1>1 DEF AddLog, relayVars, oraVars, execVars
      <3>3. \A x \in 1..8 : x = 1 \/ x = 2 \/ x = 3 \/ x = 4 \/ x = 5 \/ x = 6 \/ x = 7 \/ x = 8
        OBVIOUS
      <3> QED
        BY <3>1, <3>2, <3>3, PlacesAre, PlacesWillBe
    <2>2. Kept' = Kept
      BY <2>1 DEF Kept
    <2>3. 1..added + 1 = (1..added) \cup {added + 1}
      <3>1. added \in Nat
        BY DEF TypeOK
      <3> QED
        BY <3>1
    <2> QED
      BY <2>1, <2>2, <2>3 DEF Accounted
  <1>2. CASE \/ ConnectToServer \/ RedisRequest \/ DelLogsFromStream \/ MainRequest
             \/ NewSettings \/ PushTerm \/ ConnectToDb \/ Store \/ TakeResult \/ CheckLogLivetime
             \/ Ping \/ PingRequest \/ UNCHANGED vars
             \/ \E e \in Executors : ResultUnblocked(e) \/ Terminate(e)
    <2>1. /\ \A x \in 1..9 : Places'[x] = Places[x]
          /\ added' = added /\ failed' = failed
          /\ stream' \subseteq stream /\ stream \ prevReadIds \subseteq stream' /\ prevReadIds' \subseteq prevReadIds
      BY <1>2, StayingSteps
    <2>2. Kept' = Kept
      BY <2>1 DEF Kept
    <2> QED
      BY <2>1, <2>2, AccountedStep
  <1>3. CASE ReadLogsFromStream
    <2>1. CASE prevReadIds' = prevReadIds /\ \A x \in 1..9 : Places'[x] = Places[x]
      <3>1. Kept' = Kept
        BY <1>3, <2>1, FlowReadLogs DEF Kept, execVars, ReadLogsFromStream
      <3> QED
        BY <1>3, <2>1, <3>1, FlowReadLogs, AccountedStep
    <2>2. ASSUME NEW b \in Seq(Logs), Elements(b) \subseteq stream, prevReadIds' = prevReadIds \cup Elements(b),
                 \A x \in 1..6 : Places'[x] = Places[x],
                 \/ Places'[7] = Places[7] \cup Elements(b) /\ Places'[8] = Places[8]
                 \/ Places'[7] = Places[7] /\ Places'[8] = Places[8] \cup Elements(b)
          PROVE  Accounted'
      <3>1. \A x \in 1..8 : x \in 1..6 \/ x = 7 \/ x = 8
        OBVIOUS
      <3>2. stream' = stream /\ added' = added /\ failed' = failed
        BY <1>3 DEF ReadLogsFromStream, execVars
      <3>3. Elements(b) \subseteq Logs
        BY ElementsTyped
      <3>4. Kept' = Kept \cup Elements(b)
        BY <2>2, <3>1, <3>2, <3>3 DEF Kept
      <3> QED
        BY <2>2, <3>2, <3>4 DEF Accounted
    <2> QED
      BY <1>3, <2>1, <2>2, FlowReadLogs
  <1>4. CASE RedisUnblocked
    <2>1. Kept' = Kept
      BY <1>4, FlowRedisUnblocked, MovesKeep DEF execVars
    <2> QED
      BY <1>4, <2>1, FlowRedisUnblocked, AccountedStep
  <1>5. CASE MainMessages
    <2>1. failed' = failed
      BY <1>5, FlowMainMessages DEF execVars
    <2>2. Kept' = Kept
      BY <1>5, <2>1, FlowMainMessages, MovesKeep
    <2> QED
      BY <1>5, <2>2, FlowMainMessages, AccountedStep
  <1>6. CASE MainUnblocked
    <2>1. failed' = failed
      BY <1>6, FlowMainUnblocked DEF execVars
    <2>2. Kept' = Kept
      <3>1. CASE \A x \in 1..9 : Places'[x] = Places[x]
        BY <2>1, <3>1 DEF Kept
      <3> QED
        BY <1>6, <2>1, <3>1, FlowMainUnblocked, MovesKeep
    <2> QED
      BY <1>6, <2>2, FlowMainUnblocked, AccountedStep
  <1>7. CASE ReceiveMsg
    <2>1. failed' = failed
      BY <1>7, FlowReceiveMsg DEF execVars
    <2>2. Kept' = Kept
      BY <1>7, <2>1, FlowReceiveMsg, MovesKeep
    <2> QED
      BY <1>7, <2>2, FlowReceiveMsg, AccountedStep
  <1>8. CASE CheckQueryQueue
    <2>1. failed' = failed
      BY <1>8, FlowCheckQueryQueue
    <2>2. Kept' = Kept
      <3>1. CASE \A x \in 1..9 : Places'[x] = Places[x]
        BY <2>1, <3>1 DEF Kept
      <3> QED
        BY <1>8, <2>1, <3>1, FlowCheckQueryQueue, MovesKeep
    <2> QED
      BY <1>8, <2>2, FlowCheckQueryQueue, AccountedStep
  <1>9. ASSUME NEW e \in Executors, TakeQuery(e) PROVE Accounted'
    <2>1. Kept' = Kept
      BY <1>9, FlowTakeQuery, MovesKeep
    <2> QED
      BY <1>9, <2>1, FlowTakeQuery, AccountedStep
  <1>10. ASSUME NEW e \in Executors, Execute(e) PROVE Accounted'
    <2> DEFINE ms == Elements(executors[e].query)
    <2>1. ms \subseteq Logs
      BY TypedPlaces, ElementsTyped
    <2>2. /\ \A x \in 3..9 : Places'[x] = Places[x]
          /\ Places[2] = Places'[2] \cup ms
          /\ \/ failed' = failed /\ Places'[1] = Places[1] \cup ms
             \/ failed' = failed \cup ms /\ Places'[1] = Places[1]
          /\ UNCHANGED <<added, stream, prevReadIds>>
      BY <1>10, FlowExecute
    <2> HIDE DEF ms
    <2>3. \A x \in 1..8 : x = 1 \/ x = 2 \/ x \in 3..9
      OBVIOUS
    <2>4. ASSUME NEW m \in Kept PROVE m \in Kept'
      <3>1. m \in failed \/ m \in Places[1] \/ m \in Places[2] \/ \E x \in 3..8 : m \in Places[x]
        BY <2>3 DEF Kept
      <3>2. m \in failed' \/ m \in Places'[1] \/ m \in Places'[2] \/ \E x \in 3..8 : m \in Places'[x]
        BY <2>2, <3>1
      <3> QED
        BY <3>2 DEF Kept
    <2>5. ASSUME NEW m \in Kept' PROVE m \in Kept
      <3>1. m \in failed' \/ m \in Places'[1] \/ m \in Places'[2] \/ \E x \in 3..8 : m \in Places'[x]
        BY <2>3 DEF Kept
      <3>2. m \in failed \/ m \in Places[1] \/ m \in Places[2] \/ \E x \in 3..8 : m \in Places[x]
        BY <2>2, <3>1
      <3> QED
        BY <3>2 DEF Kept
    <2>6. Kept' = Kept
      BY <2>4, <2>5
    <2> QED
      BY <2>2, <2>6, AccountedStep
  <1> QED
    BY <1>1, <1>2, <1>3, <1>4, <1>5, <1>6, <1>7, <1>8, <1>9, <1>10 DEF Next

LEMMA InitPlaces ==
  ASSUME Init
  PROVE  \A x \in 1..9 : Places[x] = {}
  <1>1. InQueue(<<>>) = {}
    BY DEF InQueue
  <1>2. Running = {}
    <2>1. \A e \in Executors : Elements(executors[e].query) = {}
      BY ElementsEmpty DEF Init, Executor
    <2> QED
      BY <2>1 DEF Running
  <1>3. Relayed = {}
    BY DEF Init, Relayed
  <1>4. /\ written = <<>> /\ execQuery = <<>> /\ logMsgBuffer = <<>> /\ receiveMsg = <<>> /\ sendMsg = <<>>
        /\ redisHand = <<>> /\ stream = {}
    BY DEF Init
  <1> QED
    BY <1>1, <1>2, <1>3, <1>4, ElementsEmpty, NinePlaces, PlacesAre

LEMMA AccountedInvariant == Spec => [](TypeOK /\ Tidy /\ Accounted)
  <1>1. Init => Tidy /\ Accounted
    <2> SUFFICES ASSUME Init PROVE Tidy /\ Accounted
      OBVIOUS
    <2>1. Tidy
      BY DEF Init, Tidy, Executor
    <2>2. failed = {} /\ stream = {} /\ prevReadIds = {} /\ added = 0
      BY DEF Init
    <2>3. \A x \in 1..8 : Places[x] = {}
      BY InitPlaces
    <2>4. Kept = {}
      BY <2>2, <2>3 DEF Kept
    <2> QED
      BY <2>1, <2>2, <2>4 DEF Accounted
  <1>2. TypeOK /\ Tidy /\ [Next]_vars => Tidy'
    BY TidyKept
  <1>3. TypeOK /\ TypeOK' /\ Tidy /\ Accounted /\ [Next]_vars => Accounted'
    BY AccountedKept
  <1> QED
    BY <1>1, <1>2, <1>3, TypeCorrect, PTL DEF Spec

\* A message that has left Redis is in a goroutine, in a Go channel or in
\* Oracle, unless its INSERT failed: main, the two controllers and the
\* executors lose nothing between them.
THEOREM LogsKept == Spec => []LogsAccounted
  <1>1. TypeOK /\ Accounted => LogsAccounted
    <2> SUFFICES ASSUME TypeOK, Accounted, NEW m \in 1..added, m \notin stream, m \notin failed
                 PROVE  m \in Carried \/ m \in Elements(written)
      BY DEF LogsAccounted
    <2>1. PICK x \in 1..8 : m \in Places[x]
      BY DEF Accounted, Kept
    <2>2. \A b \in Batches : Elements(b) \subseteq Carried
      BY DEF Carried
    <2>3. \/ m \in Elements(written) \/ m \in Running \/ m \in InQueue(execQuery)
          \/ m \in Elements(logMsgBuffer) \/ m \in InQueue(receiveMsg) \/ m \in Relayed
          \/ m \in InQueue(sendMsg) \/ m \in Elements(redisHand)
      BY <2>1, NinePlaces, PlacesAre
    <2>4. m \in Running => \E b \in Batches : m \in Elements(b)
      BY DEF Running, Batches
    <2>5. /\ m \in InQueue(execQuery) => \E b \in Batches : m \in Elements(b)
          /\ m \in InQueue(receiveMsg) => \E b \in Batches : m \in Elements(b)
          /\ m \in InQueue(sendMsg) => \E b \in Batches : m \in Elements(b)
      <3>1. \A q : m \in InQueue(q) => \E b \in Elements(q) : m \in Elements(b)
        BY DEF InQueue, Elements
      <3>2. /\ Elements(execQuery) \subseteq Batches /\ Elements(receiveMsg) \subseteq Batches
            /\ Elements(sendMsg) \subseteq Batches
        BY DEF Batches
      <3> QED
        BY <3>1, <3>2
    <2>6. m \in Relayed => \E b \in Batches : m \in Elements(b)
      BY DEF Relayed, Batches
    <2>7. logMsgBuffer \in Batches /\ redisHand \in Batches
      BY DEF Batches
    <2> QED
      BY <2>2, <2>3, <2>4, <2>5, <2>6, <2>7
  <1> QED
    BY <1>1, AccountedInvariant, PTL

(***************************************************************************)
(* The order of the stream.  Of two messages at different places the older *)
(* one is at the earlier place, and wherever several are together they are *)
(* in order, too.                                                          *)
(***************************************************************************)
Rising(s) == \A i, j \in 1..Len(s) : i < j => s[i] < s[j]
Below(A, B) == \A a \in A, b \in B : a < b

RisingQueue(q) ==
  /\ \A i \in 1..Len(q) : Rising(q[i])
  /\ \A i, j \in 1..Len(q) : i < j => Below(Elements(q[i]), Elements(q[j]))

Apart(places) == \A x, y \in 1..9 : x < y => Below(places[x], places[y])

RisingPlaces ==
  /\ Rising(written) /\ Rising(logMsgBuffer) /\ Rising(redisHand)
  /\ \A e \in Executors : Rising(executors[e].query)
  /\ RisingQueue(execQuery) /\ RisingQueue(receiveMsg) /\ RisingQueue(sendMsg)
  /\ mainHand[1] = "messages" => Rising(mainHand[2])

InOrder ==
  deleted /\ steady =>
    /\ redisAt = "read" /\ successConnect => prevReadIds = {}
    /\ Apart(Places) /\ RisingPlaces

LEMMA ApartMoves ==
  ASSUME NEW old, NEW new, NEW p \in 1..9, NEW q \in 1..9, p < q, NEW ms,
         Apart(old), Moves(old, new, p, q, ms), Below(ms, new[q])
  PROVE  Apart(new)
  <1>1. ASSUME NEW x \in 1..9, NEW y \in 1..9, x < y PROVE Below(new[x], new[y])
    <2>1. CASE x = p /\ y = q
      <3>1. Below(old[p], old[q])
        BY <2>1, <1>1 DEF Apart
      <3> QED
        BY <2>1, <3>1 DEF Moves, Below
    <2>2. CASE x = p /\ y # q
      <3>1. new[y] = old[y] /\ Below(old[p], old[y])
        BY <1>1, <2>2 DEF Apart, Moves
      <3>2. CASE y < q
        <4>1. new[y] = {}
          BY <1>1, <2>2, <3>1, <3>2 DEF Moves
        <4> QED
          BY <4>1 DEF Below
      <3>3. CASE q < y
        <4>1. Below(old[q], old[y])
          BY <3>3 DEF Apart
        <4> QED
          BY <2>2, <3>1, <4>1 DEF Moves, Below
      <3> QED
        BY <2>2, <3>2, <3>3
    <2>3. CASE x # p /\ y = p
      <3>0. x < p /\ x < q /\ x # q
        BY <1>1, <2>3
      <3>1. new[x] = old[x] /\ Below(old[x], old[p]) /\ Below(old[x], old[q])
        BY <2>3, <3>0 DEF Apart, Moves
      <3> QED
        BY <2>3, <3>1 DEF Moves, Below
    <2>4. CASE x # p /\ y # p
      <3>1. Below(old[x], old[y])
        BY <1>1 DEF Apart
      <3>2. new[x] \subseteq old[x] /\ new[y] \subseteq old[y]
        BY <2>4 DEF Moves
      <3> QED
        BY <3>1, <3>2 DEF Below
    <2> QED
      BY <2>1, <2>2, <2>3, <2>4
  <1> QED
    BY <1>1 DEF Apart

LEMMA ApartSubset ==
  ASSUME NEW old, NEW new, Apart(old), \A x \in 1..9 : new[x] \subseteq old[x]
  PROVE  Apart(new)
  BY DEF Apart, Below

LEMMA RisingConcat ==
  ASSUME NEW s \in Seq(Logs), NEW t \in Seq(Logs), Rising(s), Rising(t), Below(Elements(s), Elements(t))
  PROVE  Rising(s \o t)
  <1> DEFINE c == s \o t
  <1>1. Len(s) \in Nat /\ Len(t) \in Nat
    BY LenProperties
  <1>2. /\ Len(c) = Len(s) + Len(t)
        /\ \A i \in 1..Len(s) + Len(t) : c[i] = IF i <= Len(s) THEN s[i] ELSE t[i - Len(s)]
    BY ConcatProperties
  <1> HIDE DEF c
  <1>3. ASSUME NEW i \in 1..Len(c), NEW j \in 1..Len(c), i < j PROVE c[i] < c[j]
    <2>1. CASE j <= Len(s)
      <3>1. i \in 1..Len(s) /\ j \in 1..Len(s) /\ c[i] = s[i] /\ c[j] = s[j]
        BY <1>1, <1>2, <1>3, <2>1
      <3> QED
        BY <1>3, <3>1 DEF Rising
    <2>2. CASE i <= Len(s) /\ ~(j <= Len(s))
      <3>1. i \in 1..Len(s) /\ j - Len(s) \in 1..Len(t) /\ c[i] = s[i] /\ c[j] = t[j - Len(s)]
        BY <1>1, <1>2, <2>2
      <3>2. s[i] \in Elements(s) /\ t[j - Len(s)] \in Elements(t)
        BY <3>1 DEF Elements
      <3> QED
        BY <3>1, <3>2 DEF Below
    <2>3. CASE ~(i <= Len(s))
      <3>1. /\ i - Len(s) \in 1..Len(t) /\ j - Len(s) \in 1..Len(t) /\ i - Len(s) < j - Len(s)
            /\ c[i] = t[i - Len(s)] /\ c[j] = t[j - Len(s)]
        BY <1>1, <1>2, <1>3, <2>3
      <3> QED
        BY <3>1 DEF Rising
    <2> QED
      BY <1>1, <1>3, <2>1, <2>2, <2>3
  <1> QED
    BY <1>3 DEF Rising, c

LEMMA RisingSplit ==
  ASSUME NEW s \in Seq(Logs), NEW n \in Nat \ {0}, Rising(s)
  PROVE  /\ Rising(First(n, s)) /\ Rising(After(n, s))
         /\ Below(Elements(First(n, s)), Elements(After(n, s)))
  <1> DEFINE f == First(n, s)
             a == After(n, s)
  <1>1. /\ f \in Seq(Logs) /\ a \in Seq(Logs)
        /\ \A i \in 1..Len(f) : i \in 1..Len(s) /\ i <= n /\ f[i] = s[i]
        /\ \A i \in 1..Len(a) : i + n \in 1..Len(s) /\ a[i] = s[i + n]
    BY FirstAfter
  <1> HIDE DEF f, a
  <1>2. Len(f) \in Nat /\ Len(a) \in Nat
    BY <1>1, LenProperties
  <1>3. Rising(f)
    BY <1>1 DEF Rising
  <1>4. ASSUME NEW i \in 1..Len(a), NEW j \in 1..Len(a), i < j PROVE a[i] < a[j]
    <2>1. i + n < j + n
      BY <1>4
    <2> QED
      BY <1>1, <2>1 DEF Rising
  <1>5. ASSUME NEW i \in 1..Len(f), NEW j \in 1..Len(a) PROVE f[i] < a[j]
    <2>1. i < j + n
      BY <1>1
    <2> QED
      BY <1>1, <2>1 DEF Rising
  <1>6. Below(Elements(f), Elements(a))
    BY <1>5 DEF Below, Elements
  <1> QED
    BY <1>3, <1>4, <1>6 DEF Rising, f, a

LEMMA RisingQueueSteps ==
  ASSUME NEW q \in Seq(Seq(Logs)), RisingQueue(q)
  PROVE  /\ q # <<>> => /\ RisingQueue(Tail(q)) /\ Rising(Head(q))
                        /\ Below(Elements(Head(q)), InQueue(Tail(q)))
         /\ \A b \in Seq(Logs) : Rising(b) /\ Below(InQueue(q), Elements(b)) => RisingQueue(Append(q, b))
  <1>0. Len(q) \in Nat
    BY LenProperties
  <1>1. ASSUME q # <<>>
        PROVE  RisingQueue(Tail(q)) /\ Rising(Head(q)) /\ Below(Elements(Head(q)), InQueue(Tail(q)))
    <2> DEFINE h == Head(q)
               t == Tail(q)
    <2>1. /\ Len(q) \in Nat \ {0} /\ Len(t) = Len(q) - 1 /\ \A i \in 1..Len(t) : t[i] = q[i + 1]
          /\ h = q[1]
      BY <1>1, HeadTailProperties, EmptySeq
    <2> HIDE DEF h, t
    <2>2. \A i \in 1..Len(t) : i + 1 \in 1..Len(q) /\ t[i] = q[i + 1] /\ 1 < i + 1
      BY <2>1
    <2>3. RisingQueue(t)
      <3>1. \A i \in 1..Len(t) : Rising(t[i])
        BY <2>2 DEF RisingQueue
      <3>2. ASSUME NEW i \in 1..Len(t), NEW j \in 1..Len(t), i < j PROVE Below(Elements(t[i]), Elements(t[j]))
        <4>1. i + 1 < j + 1
          BY <3>2
        <4> QED
          BY <2>2, <4>1 DEF RisingQueue
      <3> QED
        BY <3>1, <3>2 DEF RisingQueue
    <2>4. 1 \in 1..Len(q)
      BY <2>1
    <2>5. Rising(h) /\ \A i \in 1..Len(t) : Below(Elements(h), Elements(t[i]))
      BY <2>1, <2>2, <2>4 DEF RisingQueue
    <2>6. Below(Elements(h), InQueue(t))
      BY <2>5 DEF Below, InQueue
    <2> QED
      BY <2>3, <2>5, <2>6 DEF h, t
  <1>2. ASSUME NEW b \in Seq(Logs), Rising(b), Below(InQueue(q), Elements(b)) PROVE RisingQueue(Append(q, b))
    <2> DEFINE a == Append(q, b)
    <2>1. Len(a) = Len(q) + 1 /\ (\A i \in 1..Len(q) : a[i] = q[i]) /\ a[Len(q) + 1] = b
      BY AppendProperties
    <2> HIDE DEF a
    <2>2. \A i \in 1..Len(a) : i \in 1..Len(q) \/ i = Len(q) + 1
      BY <1>0, <2>1
    <2>3. \A i \in 1..Len(a) : Rising(a[i])
      BY <1>2, <2>1, <2>2 DEF RisingQueue
    <2>4. ASSUME NEW i \in 1..Len(a), NEW j \in 1..Len(a), i < j PROVE Below(Elements(a[i]), Elements(a[j]))
      <3>1. i \in 1..Len(q)
        BY <1>0, <2>1, <2>4
      <3>2. CASE j \in 1..Len(q)
        BY <2>1, <2>4, <3>1, <3>2 DEF RisingQueue
      <3>3. CASE j = Len(q) + 1
        <4>1. Elements(a[i]) \subseteq InQueue(q)
          BY <2>1, <3>1 DEF InQueue
        <4>2. a[j] = b
          BY <2>1, <3>3
        <4> QED
          BY <1>2, <4>1, <4>2 DEF Below
      <3> QED
        BY <2>2, <3>2, <3>3
    <2> QED
      BY <2>3, <2>4 DEF RisingQueue, a
  <1> QED
    BY <1>1, <1>2

LEMMA RisingSmall ==
  /\ Rising(<<>>) /\ RisingQueue(<<>>)
  /\ \A b \in Seq(Logs) : Rising(b) => RisingQueue(<<b>>)
  <1>1. Rising(<<>>) /\ RisingQueue(<<>>)
    BY DEF Rising, RisingQueue
  <1>2. ASSUME NEW b \in Seq(Logs), Rising(b) PROVE RisingQueue(<<b>>)
    <2> DEFINE one == <<b>>
    <2>1. Len(one) = 1 /\ one[1] = b
      OBVIOUS
    <2> HIDE DEF one
    <2>2. RisingQueue(one)
      BY <1>2, <2>1 DEF RisingQueue
    <2> QED
      BY <2>2 DEF one
  <1> QED
    BY <1>1, <1>2

LEMMA OrderStays ==
  ASSUME TypeOK, Tidy, InOrder, [Next]_vars, deleted', steady',
         \/ ConnectToServer \/ RedisRequest \/ DelLogsFromStream \/ MainRequest
         \/ NewSettings \/ PushTerm \/ ConnectToDb \/ Store \/ TakeResult \/ CheckLogLivetime
         \/ Ping \/ PingRequest \/ UNCHANGED vars
         \/ \E e \in Executors : ResultUnblocked(e) \/ Terminate(e)
  PROVE  InOrder'
  <1>1. /\ \A x \in 1..9 : Places'[x] = Places[x]
        /\ UNCHANGED <<written, logMsgBuffer, execQuery, receiveMsg, sendMsg, redisHand>>
        /\ \A e \in Executors : executors'[e].query = executors[e].query
        /\ mainHand'[1] = "messages" => mainHand'[1] = mainHand[1] /\ mainHand'[2] = mainHand[2]
    BY StayingSteps
  <1>2. deleted /\ steady
    BY DEF ConnectToServer, RedisRequest, DelLogsFromStream, MainRequest, NewSettings, PushTerm,
           ConnectToDb, Store, TakeResult, CheckLogLivetime, Ping, PingRequest, ResultUnblocked, Terminate, vars
  <1>3. redisAt' = "read" /\ successConnect' => prevReadIds' = {}
    <2>1. CASE ConnectToServer \/ RedisRequest
      BY <2>1 DEF ConnectToServer, RedisRequest
    <2>2. CASE DelLogsFromStream
      BY <2>2 DEF DelLogsFromStream
    <2>3. CASE \/ MainRequest \/ NewSettings \/ PushTerm \/ ConnectToDb \/ Store \/ TakeResult \/ CheckLogLivetime
               \/ Ping \/ PingRequest \/ UNCHANGED vars
               \/ \E e \in Executors : ResultUnblocked(e) \/ Terminate(e)
      <3>1. UNCHANGED redisVars
        BY <2>3 DEF MainRequest, NewSettings, PushTerm, ConnectToDb, Store, TakeResult, CheckLogLivetime,
             Ping, PingRequest, ResultUnblocked, Terminate, vars
      <3> QED
        BY <1>2, <3>1 DEF redisVars, InOrder
    <2> QED
      BY <2>1, <2>2, <2>3
  <1>4. Apart(Places') /\ RisingPlaces'
    <2>1. Apart(Places) /\ RisingPlaces
      BY <1>2 DEF InOrder
    <2>2. Apart(Places')
      BY <1>1, <2>1, ApartSubset
    <2> QED
      BY <1>1, <2>1, <2>2 DEF RisingPlaces
  <1> QED
    BY <1>3, <1>4 DEF InOrder

LEMMA OrderRedis ==
  ASSUME TypeOK, TypeOK', Tidy, Accounted, InOrder, deleted', steady',
         AddLog \/ ReadLogsFromStream \/ RedisUnblocked
  PROVE  InOrder'
  <1>0. deleted /\ steady
    BY DEF AddLog, ReadLogsFromStream, RedisUnblocked
  <1>1. Apart(Places) /\ RisingPlaces /\ (redisAt = "read" /\ successConnect => prevReadIds = {})
    BY <1>0 DEF InOrder
  <1>2. CASE AddLog
    <2>1. /\ UNCHANGED <<redisAt, successConnect, prevReadIds>>
          /\ RisingPlaces' /\ \A x \in 1..8 : Places'[x] = Places[x]
      <3>1. Running' = Running /\ Relayed' = Relayed
        BY <1>2 DEF AddLog, Running, Relayed, relayVars, execVars
      <3>2. UNCHANGED <<written, execQuery, logMsgBuffer, receiveMsg, sendMsg, redisHand, executors, mainHand,
                        redisAt, successConnect, prevReadIds>>
        BY <1>2 DEF AddLog, relayVars, oraVars, execVars
      <3>3. \A x \in 1..8 : x = 1 \/ x = 2 \/ x = 3 \/ x = 4 \/ x = 5 \/ x = 6 \/ x = 7 \/ x = 8
        OBVIOUS
      <3> QED
        BY <1>1, <3>1, <3>2, <3>3, PlacesAre, PlacesWillBe DEF RisingPlaces
    <2>2. Places'[9] \subseteq Places[9] \cup {added + 1}
      BY <1>2, <2>1, PlacesAre, PlacesWillBe DEF AddLog
    <2>3. \A x \in 1..8 : Below(Places[x], {added + 1})
      <3>1. \A x \in 1..8 : Places[x] \subseteq 1..added
        <4>1. \A x \in 1..8 : Places[x] \subseteq Logs
          BY PlacesTyped
        <4> QED
          BY <4>1 DEF Accounted, Kept
      <3>2. \A m \in 1..added : m < added + 1
        BY DEF TypeOK
      <3> QED
        BY <3>1, <3>2 DEF Below
    <2>4. ASSUME NEW x \in 1..9, NEW y \in 1..9, x < y PROVE Below(Places'[x], Places'[y])
      <3>1. x \in 1..8 /\ (y \in 1..8 \/ y = 9) /\ Below(Places[x], Places[y])
        BY <1>1, <2>4 DEF Apart
      <3> QED
        BY <2>1, <2>2, <2>3, <3>1 DEF Below
    <2>5. Apart(Places')
      BY <2>4 DEF Apart
    <2> QED
      BY <1>1, <2>1, <2>5 DEF InOrder
  <1>3. CASE RedisUnblocked
    <2>1. /\ Moves(Places, Places', 7, 8, Elements(redisHand))
          /\ redisAt' = "select" /\ redisHand' = <<>> /\ sendMsg' = Append(sendMsg, redisHand)
          /\ UNCHANGED <<written, execQuery, logMsgBuffer, receiveMsg, executors, mainHand>>
      BY <1>3, FlowRedisUnblocked DEF oraVars, execVars
    <2>2. Places'[8] = {}
      BY <2>1, ElementsEmpty, PlacesWillBe
    <2>3. Apart(Places')
      BY <1>1, <2>1, <2>2, ApartMoves DEF Below
    <2>4. Below(InQueue(sendMsg), Elements(redisHand))
      BY <1>1, PlacesAre DEF Apart
    <2>5. RisingQueue(sendMsg) /\ Rising(redisHand)
      BY <1>1 DEF RisingPlaces
    <2>6. RisingQueue(Append(sendMsg, redisHand))
      BY <2>4, <2>5, TypedPlaces, RisingQueueSteps
    <2>7. RisingQueue(sendMsg') /\ Rising(redisHand')
      BY <2>1, <2>6, RisingSmall, Zenon
    <2>8. RisingPlaces'
      BY <1>1, <2>1, <2>7 DEF RisingPlaces
    <2> QED
      BY <2>1, <2>3, <2>8 DEF InOrder
  <1>4. CASE ReadLogsFromStream
    <2>1. UNCHANGED <<written, execQuery, logMsgBuffer, receiveMsg, executors, mainHand, stream>>
      BY <1>4, FlowReadLogs DEF oraVars, execVars
    <2>2. CASE redisAt' = "select" /\ UNCHANGED <<redisHand, prevReadIds, sendMsg>>
               /\ \A x \in 1..9 : Places'[x] = Places[x]
      <3>1. Apart(Places')
        BY <1>1, <2>2, ApartSubset
      <3>2. RisingPlaces'
        BY <1>1, <2>1, <2>2 DEF RisingPlaces
      <3> QED
        BY <2>2, <3>1, <3>2 DEF InOrder
    <2>3. ASSUME NEW b \in Seq(Logs), IsRead(b), Elements(b) \subseteq stream, successConnect,
                 redisAt' \in {"select", "send"},
                 \A x \in 1..6 : Places'[x] = Places[x],
                 Places'[9] = Places[9] \ Elements(b),
                 \/ /\ sendMsg' = Append(sendMsg, b) /\ redisHand' = redisHand
                    /\ Places'[7] = Places[7] \cup Elements(b) /\ Places'[8] = Places[8] /\ Places[8] = {}
                 \/ /\ sendMsg' = sendMsg /\ redisHand' = b
                    /\ Places'[7] = Places[7] /\ Places'[8] = Places[8] \cup Elements(b)
          PROVE  InOrder'
      <3>1. prevReadIds = {} /\ Places[9] = stream
        <4>1. redisAt = "read"
          BY <1>4 DEF ReadLogsFromStream
        <4> QED
          BY <1>1, <2>3, <4>1, PlacesAre
      <3>2. Rising(b) /\ Below(Elements(b), Places'[9]) /\ Places[9] = Places'[9] \cup Elements(b)
        BY <2>3, <3>1 DEF IsRead, Rising, Below, Elements
      <3>3. Below(Places[7], Elements(b))
        <4>1. Below(Places[7], Places[9])
          BY <1>1 DEF Apart
        <4> QED
          BY <3>2, <4>1 DEF Below
      <3>4. \A x \in 1..9 : x \in 1..6 \/ x = 7 \/ x = 8 \/ x = 9
        OBVIOUS
      <3>5. CASE /\ sendMsg' = Append(sendMsg, b) /\ redisHand' = redisHand
                 /\ Places'[7] = Places[7] \cup Elements(b) /\ Places'[8] = Places[8] /\ Places[8] = {}
        <4>1. \A x \in 1..9 : 7 < x /\ x < 9 => x = 8
          OBVIOUS
        <4>2. Moves(Places, Places', 7, 9, Elements(b))
          BY <2>3, <3>2, <3>4, <3>5, <4>1 DEF Moves
        <4>3. Apart(Places')
          BY <1>1, <3>2, <4>2, ApartMoves
        <4>4. RisingQueue(sendMsg) /\ Below(InQueue(sendMsg), Elements(b))
          BY <1>1, <3>3, PlacesAre DEF RisingPlaces
        <4>5. RisingQueue(Append(sendMsg, b))
          BY <3>2, <4>4, TypedPlaces, RisingQueueSteps
        <4>6. RisingQueue(sendMsg')
          BY <3>5, <4>5, Zenon
        <4>7. RisingPlaces'
          BY <1>1, <2>1, <3>5, <4>6 DEF RisingPlaces
        <4> QED
          BY <2>3, <4>3, <4>7 DEF InOrder
      <3>6. CASE /\ sendMsg' = sendMsg /\ redisHand' = b
                 /\ Places'[7] = Places[7] /\ Places'[8] = Places[8] \cup Elements(b)
        <4>1. \A x \in 1..9 : ~(8 < x /\ x < 9)
          OBVIOUS
        <4>2. Moves(Places, Places', 8, 9, Elements(b))
          BY <2>3, <3>2, <3>4, <3>6, <4>1 DEF Moves
        <4>3. Apart(Places')
          BY <1>1, <3>2, <4>2, ApartMoves
        <4>4. RisingPlaces'
          BY <1>1, <2>1, <3>2, <3>6 DEF RisingPlaces
        <4> QED
          BY <2>3, <4>3, <4>4 DEF InOrder
      <3> QED
        BY <2>3, <3>5, <3>6
    <2> QED
      BY <1>4, <2>2, <2>3, FlowReadLogs
  <1> QED
    BY <1>2, <1>3, <1>4

LEMMA OrderMain ==
  ASSUME TypeOK, InOrder, deleted', steady', MainMessages \/ MainUnblocked
  PROVE  InOrder'
  <1>0. deleted /\ steady /\ UNCHANGED redisVars
    BY DEF MainMessages, MainUnblocked
  <1>1. Apart(Places) /\ RisingPlaces /\ (redisAt' = "read" /\ successConnect' => prevReadIds' = {})
    BY <1>0 DEF InOrder, redisVars
  <1>2. CASE MainMessages
    <2> DEFINE b == Head(sendMsg)
    <2>1. /\ sendMsg # <<>> /\ sendMsg' = Tail(sendMsg) /\ b \in Seq(Logs)
          /\ UNCHANGED <<written, execQuery, logMsgBuffer, redisHand, executors>>
      BY <1>2, FlowMainMessages DEF redisVars, oraVars, execVars
    <2>2. RisingQueue(Tail(sendMsg)) /\ Rising(b) /\ Below(Elements(b), InQueue(Tail(sendMsg)))
      <3>1. RisingQueue(sendMsg)
        BY <1>1 DEF RisingPlaces
      <3> QED
        BY <2>1, <3>1, TypedPlaces, RisingQueueSteps
    <2>3. InQueue(sendMsg) = Elements(b) \cup InQueue(Tail(sendMsg))
      BY <2>1, TypedPlaces, QueueContents
    <2>4. \/ /\ Moves(Places, Places', 5, 7, Elements(b))
             /\ receiveMsg' = Append(receiveMsg, b) /\ mainHand'[1] # "messages"
          \/ /\ Moves(Places, Places', 6, 7, Elements(b))
             /\ receiveMsg' = receiveMsg /\ mainHand'[2] = b
      BY <1>2, FlowMainMessages
    <2> HIDE DEF b
    <2>5. RisingQueue(sendMsg') /\ Below(Elements(b), Places'[7])
      BY <2>1, <2>2, PlacesWillBe, Zenon
    <2>6. Apart(Places')
      BY <1>1, <2>4, <2>5, ApartMoves
    <2>7. RisingQueue(receiveMsg)
      BY <1>1 DEF RisingPlaces
    <2>8. CASE receiveMsg' = Append(receiveMsg, b) /\ mainHand'[1] # "messages"
      <3>1. Below(Places[5], Places[7])
        BY <1>1 DEF Apart
      <3>2. Below(InQueue(receiveMsg), Elements(b))
        BY <2>3, <3>1, PlacesAre DEF Below
      <3>3. RisingQueue(Append(receiveMsg, b))
        BY <2>1, <2>2, <2>7, <3>2, TypedPlaces, RisingQueueSteps
      <3>4. RisingQueue(receiveMsg')
        BY <2>8, <3>3, Zenon
      <3>5. RisingPlaces'
        BY <1>1, <2>1, <2>5, <2>8, <3>4 DEF RisingPlaces
      <3> QED
        BY <1>1, <2>6, <3>5 DEF InOrder
    <2>9. CASE receiveMsg' = receiveMsg /\ mainHand'[2] = b
      <3>1. RisingPlaces'
        BY <1>1, <2>1, <2>2, <2>5, <2>9 DEF RisingPlaces
      <3> QED
        BY <1>1, <2>6, <3>1 DEF InOrder
    <2> QED
      BY <2>4, <2>8, <2>9
  <1>3. CASE MainUnblocked
    <2>1. /\ mainHand'[1] # "messages"
          /\ UNCHANGED <<written, execQuery, logMsgBuffer, redisHand, executors, sendMsg>>
      BY <1>3, FlowMainUnblocked DEF redisVars, oraVars, execVars
    <2>2. CASE receiveMsg' = receiveMsg /\ \A x \in 1..9 : Places'[x] = Places[x]
      <3>1. Apart(Places')
        BY <1>1, <2>2, ApartSubset
      <3>2. RisingPlaces'
        BY <1>1, <2>1, <2>2 DEF RisingPlaces
      <3> QED
        BY <1>1, <3>1, <3>2 DEF InOrder
    <2>3. CASE /\ mainHand[1] = "messages" /\ receiveMsg' = Append(receiveMsg, mainHand[2])
               /\ Moves(Places, Places', 5, 6, Elements(mainHand[2]))
      <3> DEFINE b == mainHand[2]
      <3>1. b \in Seq(Logs) /\ Rising(b) /\ RisingQueue(receiveMsg) /\ Relayed = Elements(b)
        BY <1>1, <2>3, TypedPlaces DEF RisingPlaces, Relayed
      <3> HIDE DEF b
      <3>2. Moves(Places, Places', 5, 6, Elements(b)) /\ receiveMsg' = Append(receiveMsg, b)
        BY <2>3 DEF b
      <3>3. Places'[6] = {}
        BY <2>1, PlacesWillBe DEF Relayed
      <3>4. Apart(Places')
        BY <1>1, <3>2, <3>3, ApartMoves DEF Below
      <3>5. Below(InQueue(receiveMsg), Elements(b))
        BY <1>1, <3>1, PlacesAre DEF Apart
      <3>6. RisingQueue(Append(receiveMsg, b))
        BY <3>1, <3>5, TypedPlaces, RisingQueueSteps
      <3>7. RisingQueue(receiveMsg')
        BY <3>2, <3>6, Zenon
      <3>8. RisingPlaces'
        BY <1>1, <2>1, <3>7 DEF RisingPlaces
      <3> QED
        BY <1>1, <3>4, <3>8 DEF InOrder
    <2> QED
      BY <1>3, <2>2, <2>3, FlowMainUnblocked
  <1> QED
    BY <1>2, <1>3

LEMMA OrderOra ==
  ASSUME TypeOK, InOrder, deleted', steady', ReceiveMsg \/ CheckQueryQueue
  PROVE  InOrder'
  <1>0. deleted /\ steady /\ UNCHANGED redisVars
    BY DEF ReceiveMsg, CheckQueryQueue
  <1>1. Apart(Places) /\ RisingPlaces /\ (redisAt' = "read" /\ successConnect' => prevReadIds' = {})
    BY <1>0 DEF InOrder, redisVars
  <1>2. CASE ReceiveMsg
    <2> DEFINE b == Head(receiveMsg)
    <2>1. /\ receiveMsg # <<>> /\ receiveMsg' = Tail(receiveMsg) /\ b \in Seq(Logs)
          /\ logMsgBuffer' = logMsgBuffer \o b /\ Moves(Places, Places', 4, 5, Elements(b))
          /\ UNCHANGED <<written, execQuery, sendMsg, redisHand, executors, mainHand>>
      BY <1>2, FlowReceiveMsg DEF redisVars, execVars
    <2>2. RisingQueue(Tail(receiveMsg)) /\ Rising(b) /\ Below(Elements(b), InQueue(Tail(receiveMsg)))
      <3>1. RisingQueue(receiveMsg)
        BY <1>1 DEF RisingPlaces
      <3> QED
        BY <2>1, <3>1, TypedPlaces, RisingQueueSteps
    <2>3. InQueue(receiveMsg) = Elements(b) \cup InQueue(Tail(receiveMsg))
      BY <2>1, TypedPlaces, QueueContents
    <2> HIDE DEF b
    <2>4. RisingQueue(receiveMsg') /\ Below(Elements(b), Places'[5])
      BY <2>1, <2>2, PlacesWillBe, Zenon
    <2>5. Apart(Places')
      BY <1>1, <2>1, <2>4, ApartMoves
    <2>6. Below(Elements(logMsgBuffer), Elements(b))
      <3>1. Below(Places[4], Places[5])
        BY <1>1 DEF Apart
      <3> QED
        BY <2>3, <3>1, PlacesAre DEF Below
    <2>7. Rising(logMsgBuffer \o b)
      <3>1. Rising(logMsgBuffer)
        BY <1>1 DEF RisingPlaces
      <3> QED
        BY <2>1, <2>2, <2>6, <3>1, TypedPlaces, RisingConcat
    <2>8. Rising(logMsgBuffer')
      BY <2>1, <2>7, Zenon
    <2>9. RisingPlaces'
      BY <1>1, <2>1, <2>4, <2>8 DEF RisingPlaces
    <2> QED
      BY <1>1, <2>5, <2>9 DEF InOrder
  <1>3. CASE CheckQueryQueue
    <2>1. UNCHANGED <<written, sendMsg, redisHand, executors, mainHand, receiveMsg>>
      BY <1>3, FlowCheckQueryQueue DEF redisVars
    <2>2. CASE /\ \A x \in 1..9 : Places'[x] = Places[x]
               /\ logMsgBuffer' = logMsgBuffer /\ (execQuery' = execQuery \/ execQuery' = <<<<>>>>)
      <3>1. Apart(Places')
        BY <1>1, <2>2, ApartSubset
      <3>2. RisingQueue(execQuery) /\ RisingQueue(<<<<>>>>)
        BY <1>1, RisingSmall, EmptySeq DEF RisingPlaces
      <3>3. RisingQueue(execQuery')
        BY <2>2, <3>2, Zenon
      <3>4. RisingPlaces'
        BY <1>1, <2>1, <2>2, <3>3 DEF RisingPlaces
      <3> QED
        BY <1>1, <3>1, <3>4 DEF InOrder
    <2>3. CASE /\ Moves(Places, Places', 3, 4, Elements(First(MaxQueryExec, logMsgBuffer)))
               /\ execQuery' = <<First(MaxQueryExec, logMsgBuffer)>>
               /\ logMsgBuffer' = After(MaxQueryExec, logMsgBuffer)
      <3> DEFINE f == First(MaxQueryExec, logMsgBuffer)
                 a == After(MaxQueryExec, logMsgBuffer)
      <3>1. f \in Seq(Logs) /\ Rising(f) /\ Rising(a) /\ Below(Elements(f), Elements(a))
        <4>1. Rising(logMsgBuffer) /\ MaxQueryExec \in Nat \ {0} /\ logMsgBuffer \in Seq(Logs)
          BY <1>1, TypedPlaces, LoggerAssumption DEF RisingPlaces
        <4> QED
          BY <4>1, FirstAfter, RisingSplit
      <3>2. Moves(Places, Places', 3, 4, Elements(f)) /\ execQuery' = <<f>> /\ logMsgBuffer' = a
        BY <2>3
      <3> HIDE DEF f, a
      <3>3. Below(Elements(f), Places'[4]) /\ Rising(logMsgBuffer')
        BY <3>1, <3>2, PlacesWillBe, Zenon
      <3>4. Apart(Places')
        BY <1>1, <3>2, <3>3, ApartMoves
      <3>5. RisingQueue(execQuery')
        BY <3>1, <3>2, RisingSmall, Zenon
      <3>6. RisingPlaces'
        BY <1>1, <2>1, <3>3, <3>5 DEF RisingPlaces
      <3> QED
        BY <1>1, <3>4, <3>6 DEF InOrder
    <2> QED
      BY <1>3, <2>2, <2>3, FlowCheckQueryQueue
  <1> QED
    BY <1>2, <1>3

LEMMA OrderExecutors ==
  ASSUME TypeOK, Tidy, Single, InOrder, deleted', steady', NEW e \in Executors, TakeQuery(e) \/ Execute(e)
  PROVE  InOrder'
  <1>0. deleted /\ steady /\ UNCHANGED redisVars
    BY DEF TakeQuery, Execute
  <1>1. Apart(Places) /\ RisingPlaces /\ (redisAt' = "read" /\ successConnect' => prevReadIds' = {})
    BY <1>0 DEF InOrder, redisVars
  <1>2. CASE TakeQuery(e)
    <2> DEFINE b == Head(execQuery)
    <2>1. /\ Moves(Places, Places', 2, 3, Elements(b))
          /\ executors'[e].query = b /\ execQuery' = <<>>
          /\ \A f \in Executors \ {e} : executors'[f] = executors[f]
          /\ UNCHANGED <<written, logMsgBuffer, receiveMsg, sendMsg, redisHand, mainHand>>
      BY <1>2, FlowTakeQuery DEF redisVars, relayVars, oraVars
    <2>2. Rising(b)
      <3>1. RisingQueue(execQuery) /\ execQuery # <<>>
        BY <1>1, <1>2 DEF RisingPlaces, TakeQuery
      <3> QED
        BY <3>1, TypedPlaces, RisingQueueSteps
    <2> HIDE DEF b
    <2>3. Places'[3] = {} /\ RisingQueue(execQuery')
      <3>1. InQueue(<<>>) = {}
        BY DEF InQueue
      <3> QED
        BY <2>1, <3>1, PlacesWillBe, RisingSmall, Zenon
    <2>4. Apart(Places')
      BY <1>1, <2>1, <2>3, ApartMoves DEF Below
    <2>5. \A f \in Executors : Rising(executors'[f].query)
      BY <1>1, <2>1, <2>2 DEF RisingPlaces
    <2>6. RisingPlaces'
      BY <1>1, <2>1, <2>3, <2>5 DEF RisingPlaces
    <2> QED
      BY <1>1, <2>4, <2>6 DEF InOrder
  <1>3. CASE Execute(e)
    <2> DEFINE s == executors[e].query
    <2>1. /\ \A x \in 3..9 : Places'[x] = Places[x]
          /\ Places[2] = Places'[2] \cup Elements(s)
          /\ \/ written' = written \o s /\ Places'[1] = Places[1] \cup Elements(s)
             \/ written' = written /\ Places'[1] = Places[1]
          /\ executors[e].at = "running" /\ executors'[e].query = <<>>
          /\ \A f \in Executors \ {e} : executors'[f] = executors[f]
          /\ UNCHANGED <<execQuery, logMsgBuffer, receiveMsg, sendMsg, redisHand, mainHand>>
      BY <1>3, FlowExecute DEF redisVars, relayVars, oraVars
    <2>2. s \in Seq(Logs) /\ Rising(s) /\ Rising(written) /\ written \in Seq(Logs)
      BY <1>1, TypedPlaces DEF RisingPlaces
    <2> HIDE DEF s
    <2>3. \A f \in Executors : executors'[f].query = <<>>
      <3>1. \A f \in Executors \ {e} : executors[f].at = "unused"
        BY <1>0, <2>1 DEF Single
      <3> QED
        BY <2>1, <3>1 DEF Tidy
    <2>4. Places'[2] = {}
      <3>1. \A f \in Executors : Elements(executors'[f].query) = {}
        BY <2>3, ElementsEmpty
      <3> QED
        BY <3>1, PlacesWillBe DEF Running
    <2>5. \A x \in 1..9 : x = 1 \/ x = 2 \/ x \in 3..9
      OBVIOUS
    <2>6. CASE written' = written \o s /\ Places'[1] = Places[1] \cup Elements(s)
      <3>1. \A x \in 1..9 : ~(1 < x /\ x < 2)
        OBVIOUS
      <3>2. Moves(Places, Places', 1, 2, Elements(s))
        BY <2>1, <2>5, <2>6, <3>1 DEF Moves
      <3>3. Apart(Places')
        BY <1>1, <2>4, <3>2, ApartMoves DEF Below
      <3>4. Below(Elements(written), Elements(s))
        <4>1. Below(Places[1], Places[2])
          BY <1>1 DEF Apart
        <4> QED
          BY <2>1, <4>1, PlacesAre DEF Below
      <3>5. Rising(written \o s)
        BY <2>2, <3>4, RisingConcat
      <3>6. Rising(written')
        BY <2>6, <3>5, Zenon
      <3>7. \A f \in Executors : Rising(executors'[f].query)
        BY <2>3, RisingSmall, Zenon
      <3>8. RisingPlaces'
        BY <1>1, <2>1, <3>6, <3>7 DEF RisingPlaces
      <3> QED
        BY <1>1, <3>3, <3>8 DEF InOrder
    <2>7. CASE written' = written /\ Places'[1] = Places[1]
      <3>1. \A x \in 1..9 : Places'[x] \subseteq Places[x]
        BY <2>1, <2>5, <2>7
      <3>2. Apart(Places')
        BY <1>1, <3>1, ApartSubset
      <3>3. \A f \in Executors : Rising(executors'[f].query)
        BY <2>3, RisingSmall, Zenon
      <3>4. RisingPlaces'
        BY <1>1, <2>1, <2>7, <3>3 DEF RisingPlaces
      <3> QED
        BY <1>1, <3>2, <3>4 DEF InOrder
    <2> QED
      BY <2>1, <2>6, <2>7
  <1> QED
    BY <1>2, <1>3

LEMMA OrderKept == TypeOK /\ TypeOK' /\ Tidy /\ Single /\ Accounted /\ InOrder /\ [Next]_vars => InOrder'
  <1> SUFFICES ASSUME TypeOK, TypeOK', Tidy, Single, Accounted, InOrder, [Next]_vars, deleted', steady'
               PROVE  InOrder'
    BY DEF InOrder
  <1>1. CASE AddLog \/ ReadLogsFromStream \/ RedisUnblocked
    BY <1>1, OrderRedis
  <1>2. CASE MainMessages \/ MainUnblocked
    BY <1>2, OrderMain
  <1>3. CASE ReceiveMsg \/ CheckQueryQueue
    BY <1>3, OrderOra
  <1>4. ASSUME NEW e \in Executors, TakeQuery(e) \/ Execute(e) PROVE InOrder'
    BY <1>4, OrderExecutors
  <1>5. CASE \/ ConnectToServer \/ RedisRequest \/ DelLogsFromStream \/ MainRequest
             \/ NewSettings \/ PushTerm \/ ConnectToDb \/ Store \/ TakeResult \/ CheckLogLivetime
             \/ Ping \/ PingRequest \/ UNCHANGED vars
             \/ \E e \in Executors : ResultUnblocked(e) \/ Terminate(e)
    BY <1>5, OrderStays
  <1> QED
    BY <1>1, <1>2, <1>3, <1>4, <1>5 DEF Next

\* As long as no deletion failed and the first connection to Oracle lasts, the
\* table gets the messages in the order of the stream and each of them once:
\* deleting with the next request, batches and buffers neither repeat nor
\* overtake.
THEOREM WriteOrder == Spec => []WrittenInOrder
  <1>1. Init => InOrder
    <2> SUFFICES ASSUME Init PROVE InOrder
      OBVIOUS
    <2>1. Apart(Places)
      BY InitPlaces DEF Apart, Below
    <2>2. /\ written = <<>> /\ execQuery = <<>> /\ logMsgBuffer = <<>> /\ receiveMsg = <<>> /\ sendMsg = <<>>
          /\ redisHand = <<>> /\ redisAt = "select" /\ mainHand[1] = "none"
      BY DEF Init
    <2>3. \A e \in Executors : executors[e].query = <<>>
      BY DEF Init, Executor
    <2>4. RisingPlaces
      BY <2>2, <2>3, RisingSmall DEF RisingPlaces
    <2> QED
      BY <2>1, <2>2, <2>4 DEF InOrder
  <1>2. TypeOK /\ TypeOK' /\ Tidy /\ Single /\ Accounted /\ InOrder /\ [Next]_vars => InOrder'
    BY OrderKept
  <1>3. InOrder => WrittenInOrder
    BY DEF InOrder, WrittenInOrder, RisingPlaces, Rising
  <1> QED
    BY <1>1, <1>2, <1>3, AccountedInvariant, SingleInvariant, PTL DEF Spec
=============================================================================
