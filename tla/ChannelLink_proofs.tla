------------------------- MODULE ChannelLink_proofs -------------------------
(***************************************************************************)
(* Theorems about ChannelLink, for every capacity of its channels and      *)
(* every number of faults.                                                 *)
(***************************************************************************)
EXTENDS ChannelLink, FiniteSets, SequenceTheorems, FunctionTheorems, FiniteSetTheorems, TLAPS

(***************************************************************************)
(* Marks.  The right to start the controller passes from message to        *)
(* message: the request, its answer, the call of Work.  These are counted  *)
(* wherever they may be; a step hands a mark on or loses it, and only the  *)
(* first connection, which sets requested, makes one.                      *)
(***************************************************************************)
Marks    == {"request", "settings", "bad_settings"}
Messages == Marks \cup {"heartbeat", "other", "data"}

Pushes == {p \in [chan : Channels \cup {"CloseChan", "FmtpStateChan", "Work"}, m : Messages] :
             p.chan = "Work" => p.m = "settings"}
Sent   == [m : Messages, from : Nat]

Marked(S) == {p \in S : p.m \in Marks}

Typed ==
  /\ conn \in Nat /\ conns \in Nat /\ works \in Nat /\ requested \in BOOLEAN
  /\ clientTodo \in Seq(Pushes) /\ mainTodo \in Seq(Pushes) /\ ctlTodo \in Seq(Pushes)
  /\ chans \in [Channels -> Seq(Messages)]
  /\ toChief \in Seq(Sent) /\ toChannel \in Seq(Messages)

Count(s, T) == Cardinality({i \in DOMAIN s : s[i] \in T})

TodoMarks(todo) == Count(todo, Marked(Pushes))
InChans(f) ==
  Count(f["SendChan"], Marks) + Count(f["ReceiveChan"], Marks) + Count(f["LogChan"], Marks)
    + Count(f["OutChan"], Marks) + Count(f["FmtpDataSendChan"], Marks)

\* Until it has been asked for, the right is with the client.
Unasked == IF requested THEN 0 ELSE 1
InTodos == TodoMarks(clientTodo) + TodoMarks(mainTodo) + TodoMarks(ctlTodo)
OnWires == Count(toChief, Marked(Sent)) + Count(toChannel, Marks)

Rights  == Unasked + InTodos + InChans(chans) + OnWires + works
OneMark == Rights <= 1

(***************************************************************************)
(* How many elements of a sequence are in a set, after what a goroutine    *)
(* does with the sequence.                                                 *)
(***************************************************************************)
LEMMA CountType ==
  ASSUME NEW S, NEW T, NEW s \in Seq(S)
  PROVE  IsFiniteSet({i \in DOMAIN s : s[i] \in T}) /\ Count(s, T) \in Nat
  <1>1. Len(s) \in Nat /\ DOMAIN s = 1..Len(s)
    BY LenProperties
  <1>2. IsFiniteSet(1..Len(s))
    BY <1>1, FS_Interval
  <1>3. {i \in DOMAIN s : s[i] \in T} \in SUBSET (1..Len(s))
    BY <1>1
  <1>4. IsFiniteSet({i \in DOMAIN s : s[i] \in T})
    BY <1>2, <1>3, FS_Subset
  <1> QED
    BY <1>4, FS_CardinalityType DEF Count

LEMMA CountEmpty ==
  ASSUME NEW T
  PROVE  Count(<<>>, T) = 0
  <1>1. {i \in DOMAIN <<>> : <<>>[i] \in T} = {}
    OBVIOUS
  <1> QED
    BY <1>1, FS_EmptySet DEF Count

LEMMA CountAppend ==
  ASSUME NEW S, NEW T, NEW s \in Seq(S), NEW x \in S
  PROVE  Count(Append(s, x), T) = Count(s, T) + (IF x \in T THEN 1 ELSE 0)
  <1> DEFINE u == Append(s, x)
             I == {i \in DOMAIN s : s[i] \in T}
             J == {i \in DOMAIN u : u[i] \in T}
  <1>1. /\ Len(u) = Len(s) + 1 /\ u[Len(s) + 1] = x /\ u \in Seq(S)
        /\ \A i \in 1..Len(s) : u[i] = s[i]
    BY AppendProperties
  <1>2. Len(s) \in Nat /\ DOMAIN s = 1..Len(s) /\ DOMAIN u = 1..Len(u)
    BY <1>1, LenProperties
  <1>3. IsFiniteSet(I)
    BY CountType
  <1> HIDE DEF u
  <1>4. Len(s) + 1 \notin I /\ DOMAIN u = DOMAIN s \cup {Len(s) + 1}
    BY <1>1, <1>2
  <1>5. CASE x \in T
    <2>1. J = I \cup {Len(s) + 1}
      BY <1>1, <1>2, <1>4, <1>5
    <2> QED
      BY <1>3, <1>4, <1>5, <2>1, FS_AddElement DEF Count, u
  <1>6. CASE x \notin T
    <2>1. J = I
      BY <1>1, <1>2, <1>4, <1>6
    <2>2. Count(s, T) \in Nat
      BY CountType
    <2>3. Count(u, T) = Count(s, T)
      BY <2>1 DEF Count
    <2> QED
      BY <1>6, <2>2, <2>3 DEF u
  <1> QED
    BY <1>5, <1>6

LEMMA CountHead ==
  ASSUME NEW S, NEW T, NEW s \in Seq(S), s # <<>>
  PROVE  Count(s, T) = Count(Tail(s), T) + (IF Head(s) \in T THEN 1 ELSE 0)
  <1> DEFINE t == Tail(s)
             I == {i \in DOMAIN s : s[i] \in T}
             J == {i \in DOMAIN t : t[i] \in T}
  <1>1. /\ Head(s) = s[1] /\ t \in Seq(S) /\ Len(t) = Len(s) - 1
        /\ \A i \in 1..Len(t) : t[i] = s[i + 1]
    BY HeadTailProperties
  <1>2. Len(s) \in Nat \ {0} /\ DOMAIN s = 1..Len(s) /\ DOMAIN t = 1..Len(t)
    BY <1>1, LenProperties, EmptySeq
  <1>3. IsFiniteSet(J) /\ IsFiniteSet(I)
    BY <1>1, CountType
  <1> HIDE DEF t
  <1>4. ExistsBijection(J, I \ {1})
    <2> DEFINE f == [i \in J |-> i + 1]
    <2>1. ASSUME NEW i \in J PROVE i \in Int /\ i + 1 \in I \ {1}
      BY <1>1, <1>2
    <2>2. ASSUME NEW j \in I \ {1} PROVE j - 1 \in J /\ (j - 1) + 1 = j
      <3>1. j - 1 \in 1..Len(t) /\ (j - 1) + 1 = j /\ s[j] \in T
        BY <1>1, <1>2
      <3>2. t[j - 1] = s[(j - 1) + 1]
        BY <1>1, <3>1
      <3> QED
        BY <1>2, <3>1, <3>2
    <2> HIDE DEF I, J
    <2>3. f \in [J -> I \ {1}] /\ \A i \in J : f[i] = i + 1
      BY <2>1
    <2>4. \A a, b \in J : f[a] = f[b] => a = b
      BY <2>1, <2>3
    <2>5. \A j \in I \ {1} : \E i \in J : f[i] = j
      BY <2>2, <2>3
    <2>6. f \in Bijection(J, I \ {1})
      BY <2>3, <2>4, <2>5, Fun_IsBij
    <2> QED
      BY <2>6, Fun_ExistsBij
  <1>5. Cardinality(I \ {1}) = Cardinality(J)
    BY <1>3, <1>4, FS_Bijection
  <1>6. Cardinality(I \ {1}) = IF 1 \in I THEN Cardinality(I) - 1 ELSE Cardinality(I)
    BY <1>3, FS_RemoveElement
  <1>7. 1 \in I <=> Head(s) \in T
    BY <1>1, <1>2
  <1>8. Cardinality(I) = Count(s, T) /\ Cardinality(J) = Count(t, T)
    BY DEF Count
  <1>9. Count(s, T) \in Nat /\ Count(t, T) \in Nat
    BY <1>1, CountType
  <1> HIDE DEF I, J
  <1> QED
    BY <1>5, <1>6, <1>7, <1>8, <1>9 DEF t

LEMMA CountPrefix ==
  ASSUME NEW S, NEW T, NEW s \in Seq(S), NEW n \in 0..Len(s)
  PROVE  SubSeq(s, 1, n) \in Seq(S) /\ Count(SubSeq(s, 1, n), T) <= Count(s, T)
  <1> DEFINE u == SubSeq(s, 1, n)
             I == {i \in DOMAIN s : s[i] \in T}
             J == {i \in DOMAIN u : u[i] \in T}
  <1>1. Len(s) \in Nat /\ DOMAIN s = 1..Len(s) /\ n \in Nat /\ \A i \in 1..Len(s) : s[i] \in S
    BY LenProperties, ElementOfSeq
  <1>2. u \in Seq(S) /\ Len(u) = n /\ \A i \in 1..n : u[i] = s[i]
    BY <1>1, SubSeqProperties
  <1>3. DOMAIN u = 1..n
    BY <1>2, LenProperties
  <1> HIDE DEF u
  <1>4. J \in SUBSET I
    BY <1>1, <1>2, <1>3
  <1>5. IsFiniteSet(I)
    BY CountType
  <1>6. Cardinality(J) <= Cardinality(I)
    BY <1>4, <1>5, FS_Subset
  <1> QED
    BY <1>2, <1>6 DEF Count, u

\* A handler's pushes are put together one by one.
LEMMA CountOne ==
  ASSUME NEW S, NEW T, NEW x \in S, NEW s, s = <<x>>
  PROVE  s \in Seq(S) /\ Count(s, T) = IF x \in T THEN 1 ELSE 0
  <1>1. s \in Seq(S) /\ DOMAIN s = {1} /\ s[1] = x
    OBVIOUS
  <1>2. CASE x \in T
    <2>1. {i \in DOMAIN s : s[i] \in T} = {1}
      BY <1>1, <1>2
    <2> QED
      BY <1>1, <1>2, <2>1, FS_Singleton DEF Count
  <1>3. CASE x \notin T
    <2>1. {i \in DOMAIN s : s[i] \in T} = {}
      BY <1>1, <1>3
    <2> QED
      BY <1>1, <1>3, <2>1, FS_EmptySet DEF Count
  <1> QED
    BY <1>2, <1>3

LEMMA CountBehind ==
  ASSUME NEW S, NEW T, NEW s \in Seq(S), NEW x \in S, NEW t, t = <<x>>
  PROVE  s \o t \in Seq(S) /\ Count(s \o t, T) = Count(s, T) + (IF x \in T THEN 1 ELSE 0)
  <1>1. s \o t = Append(s, x)
    BY AppendIsConcat
  <1>2. Append(s, x) \in Seq(S)
    BY AppendProperties
  <1>3. Count(Append(s, x), T) = Count(s, T) + (IF x \in T THEN 1 ELSE 0)
    BY CountAppend
  <1> QED
    BY <1>1, <1>2, <1>3, Zenon

(***************************************************************************)
(* The handlers.                                                           *)
(***************************************************************************)
LEMMA PushIsTyped ==
  ASSUME NEW c \in Channels \cup {"CloseChan", "FmtpStateChan"}, NEW m \in Messages
  PROVE  Push(c, m) \in Pushes /\ (Push(c, m) \in Marked(Pushes) <=> m \in Marks)
  BY DEF Push, Pushes, Marked, Channels

\* What the handlers of client, main and controller push beside the marks.
LEMMA LogPushes ==
  ASSUME NEW c \in Channels
  PROVE  /\ Push(c, "other") \in Pushes /\ Push(c, "other") \notin Marked(Pushes)
         /\ Log(c) = <<Push(c, "other")>>
         /\ Log(c) \in Seq(Pushes) /\ Count(Log(c), Marked(Pushes)) = 0
  <1> DEFINE p == Push(c, "other")
             l == Log(c)
  <1>1. "other" \in Messages /\ "other" \notin Marks
    BY DEF Messages, Marks
  <1>2. p \in Pushes /\ p \notin Marked(Pushes)
    BY <1>1, PushIsTyped
  <1>3. l = <<p>>
    BY DEF Log
  <1> HIDE DEF p, l
  <1>4. l \in Seq(Pushes) /\ Count(l, Marked(Pushes)) = 0
    BY <1>2, <1>3, CountOne
  <1> QED
    BY <1>2, <1>3, <1>4 DEF p, l

LEMMA ConnectedPushes ==
  /\ Startup \o Log("LogChan") \in Seq(Pushes)
  /\ Count(Startup \o Log("LogChan"), Marked(Pushes)) = IF requested THEN 0 ELSE 1
  <1> DEFINE o == Push("LogChan", "other")
             l == Log("LogChan")
             r == Push("SendChan", "request")
             q == <<r>>
             M == Marked(Pushes)
  <1>1. o \in Pushes /\ o \notin M /\ l = <<o>> /\ l \in Seq(Pushes) /\ Count(l, M) = 0
    BY LogPushes DEF Channels
  <1>2. r \in Pushes /\ r \in M
    BY PushIsTyped DEF Channels, Messages, Marks
  <1>3. Startup = IF requested THEN <<>> ELSE (l \o l) \o q
    BY DEF Startup
  <1> HIDE DEF o, l, M
  <1>4. q = <<r>>
    OBVIOUS
  <1> HIDE DEF q, r
  <1>5. ASSUME NEW s \in Seq(Pushes)
        PROVE  s \o l \in Seq(Pushes) /\ Count(s \o l, M) = Count(s, M)
    <2>1. s \o l \in Seq(Pushes) /\ Count(s \o l, M) = Count(s, M) + 0
      BY <1>1, CountBehind
    <2>2. Count(s, M) \in Nat
      BY CountType
    <2> QED
      BY <2>1, <2>2
  <1> DEFINE s2 == l \o l
  <1>6. s2 \in Seq(Pushes) /\ Count(s2, M) = 0
    BY <1>1, <1>5
  <1> HIDE DEF s2
  <1> DEFINE s3 == s2 \o q
  <1>7. s3 \in Seq(Pushes) /\ Count(s3, M) = 1
    BY <1>2, <1>4, <1>6, CountBehind
  <1> HIDE DEF s3
  <1>8. s3 \o l \in Seq(Pushes) /\ Count(s3 \o l, M) = 1
    BY <1>5, <1>7
  <1>9. <<>> \o l = l
    BY <1>1, ConcatEmptySeq
  <1>10. Startup \o l \in Seq(Pushes) /\ Count(Startup \o l, M) = IF requested THEN 0 ELSE 1
    BY <1>1, <1>3, <1>8, <1>9 DEF s2, s3
  <1> QED
    BY <1>10 DEF l, M

LEMMA OnePush ==
  ASSUME NEW c \in Channels \cup {"CloseChan", "FmtpStateChan"}, NEW m \in Messages
  PROVE  /\ <<Push(c, m)>> \in Seq(Pushes)
         /\ Count(<<Push(c, m)>>, Marked(Pushes)) = IF m \in Marks THEN 1 ELSE 0
  <1> DEFINE p == Push(c, m)
             t == <<p>>
  <1>1. p \in Pushes /\ (p \in Marked(Pushes) <=> m \in Marks)
    BY PushIsTyped
  <1>2. t = <<p>>
    OBVIOUS
  <1> HIDE DEF p, t
  <1>3. t \in Seq(Pushes) /\ Count(t, Marked(Pushes)) = IF m \in Marks THEN 1 ELSE 0
    BY <1>1, <1>2, CountOne
  <1> QED
    BY <1>3 DEF t, p

LEMMA DisconnectedPushes ==
  ASSUME NEW s, s = (IF disconnTime = "old" THEN <<Push("CloseChan", "other")>> ELSE <<>>) \o Log("LogChan")
  PROVE  s \in Seq(Pushes) /\ Count(s, Marked(Pushes)) = 0
  <1> DEFINE o == Push("LogChan", "other")
             l == Log("LogChan")
             q == <<Push("CloseChan", "other")>>
  <1>1. o \in Pushes /\ o \notin Marked(Pushes) /\ l = <<o>> /\ l \in Seq(Pushes) /\ Count(l, Marked(Pushes)) = 0
    BY LogPushes DEF Channels
  <1>2. q \in Seq(Pushes) /\ Count(q, Marked(Pushes)) = 0
    BY OnePush DEF Messages, Marks
  <1>3. s = IF disconnTime = "old" THEN q \o l ELSE <<>> \o l
    OBVIOUS
  <1> HIDE DEF o, l, q
  <1>4. q \o l \in Seq(Pushes) /\ Count(q \o l, Marked(Pushes)) = 0
    BY <1>1, <1>2, CountBehind
  <1>5. <<>> \o l = l
    BY <1>1, ConcatEmptySeq
  <1> QED
    BY <1>1, <1>3, <1>4, <1>5

\* What main pushes on has a mark only if what it took had one.
LEMMA MainHandsOn ==
  ASSUME NEW m \in Messages
  PROVE  /\ MainPushes(m) \in Seq(Pushes)
         /\ Count(MainPushes(m), Marked(Pushes)) <= IF m \in Marks THEN 1 ELSE 0
  <1>1. CASE m = "settings"
    <2> DEFINE l == Log("SendChan")
               p == Push("Work", m)
               t == <<p>>
    <2>1. l \in Seq(Pushes) /\ Count(l, Marked(Pushes)) = 0
      BY LogPushes DEF Channels
    <2>2. p \in Pushes /\ p \in Marked(Pushes)
      BY <1>1 DEF Push, Pushes, Marked, Channels, Messages, Marks
    <2>3. MainPushes(m) = l \o t /\ t = <<p>>
      BY <1>1 DEF MainPushes
    <2> HIDE DEF l, p, t
    <2>4. l \o t \in Seq(Pushes) /\ Count(l \o t, Marked(Pushes)) = 1
      BY <2>1, <2>2, <2>3, CountBehind
    <2>5. m \in Marks
      BY <1>1 DEF Marks
    <2> QED
      BY <2>3, <2>4, <2>5
  <1>2. CASE m = "bad_settings"
    <2>1. MainPushes(m) = Log("SendChan")
      BY <1>2 DEF MainPushes
    <2> QED
      BY <1>2, <2>1, LogPushes DEF Channels, Marks
  <1>3. CASE m \notin {"settings", "bad_settings"}
    <2> DEFINE p == Push(IF m = "data" THEN "FmtpDataSendChan" ELSE "SendChan", m)
               t == MainPushes(m)
    <2>1. p \in Pushes /\ (p \in Marked(Pushes) <=> m \in Marks)
      BY PushIsTyped DEF Channels
    <2>2. t = <<p>>
      BY <1>3 DEF MainPushes
    <2> HIDE DEF p, t
    <2>3. t \in Seq(Pushes) /\ Count(t, Marked(Pushes)) = IF m \in Marks THEN 1 ELSE 0
      BY <2>1, <2>2, CountOne
    <2> QED
      BY <2>3 DEF t
  <1> QED
    BY <1>1, <1>2, <1>3

LEMMA InChansType ==
  ASSUME NEW f \in [Channels -> Seq(Messages)]
  PROVE  InChans(f) \in Nat
  <1>1. ASSUME NEW d \in Channels PROVE Count(f[d], Marks) \in Nat
    BY CountType
  <1> QED
    BY <1>1 DEF InChans, Channels

\* One channel changes.
Changed(f, c, s) == [f EXCEPT ![c] = s]

LEMMA ChannelMarks ==
  ASSUME NEW f \in [Channels -> Seq(Messages)], NEW c \in Channels, NEW s \in Seq(Messages)
  PROVE  /\ Changed(f, c, s) \in [Channels -> Seq(Messages)]
         /\ InChans(Changed(f, c, s)) = InChans(f) - Count(f[c], Marks) + Count(s, Marks)
  <1> DEFINE g == Changed(f, c, s)
  <1>1. g \in [Channels -> Seq(Messages)] /\ g[c] = s /\ \A d \in Channels : d # c => g[d] = f[d]
    BY DEF Changed
  <1> HIDE DEF g
  <1>2. \A d \in Channels : Count(f[d], Marks) \in Nat
    BY CountType
  <1>3. Count(s, Marks) \in Nat
    BY CountType
  <1>4. Channels = {"SendChan", "ReceiveChan", "LogChan", "OutChan", "FmtpDataSendChan"}
    BY DEF Channels
  <1> DEFINE n  == Count(s, Marks)
             fc == Count(f[c], Marks)
             f1 == Count(f["SendChan"], Marks)
             f2 == Count(f["ReceiveChan"], Marks)
             f3 == Count(f["LogChan"], Marks)
             f4 == Count(f["OutChan"], Marks)
             f5 == Count(f["FmtpDataSendChan"], Marks)
             g1 == Count(g["SendChan"], Marks)
             g2 == Count(g["ReceiveChan"], Marks)
             g3 == Count(g["LogChan"], Marks)
             g4 == Count(g["OutChan"], Marks)
             g5 == Count(g["FmtpDataSendChan"], Marks)
  <1>5. InChans(f) = f1 + f2 + f3 + f4 + f5 /\ InChans(g) = g1 + g2 + g3 + g4 + g5
    BY DEF InChans
  <1>6. n \in Nat /\ f1 \in Nat /\ f2 \in Nat /\ f3 \in Nat /\ f4 \in Nat /\ f5 \in Nat
    BY <1>2, <1>3, <1>4
  <1>7. \/ g1 = n /\ fc = f1 /\ g2 = f2 /\ g3 = f3 /\ g4 = f4 /\ g5 = f5
        \/ g2 = n /\ fc = f2 /\ g1 = f1 /\ g3 = f3 /\ g4 = f4 /\ g5 = f5
        \/ g3 = n /\ fc = f3 /\ g1 = f1 /\ g2 = f2 /\ g4 = f4 /\ g5 = f5
        \/ g4 = n /\ fc = f4 /\ g1 = f1 /\ g2 = f2 /\ g3 = f3 /\ g5 = f5
        \/ g5 = n /\ fc = f5 /\ g1 = f1 /\ g2 = f2 /\ g3 = f3 /\ g4 = f4
    BY <1>1, <1>4
  <1> HIDE DEF n, fc, f1, f2, f3, f4, f5, g1, g2, g3, g4, g5
  <1> DEFINE gs == g1 + g2 + g3 + g4 + g5
             fs == f1 + f2 + f3 + f4 + f5
  <1>8. gs = fs - fc + n
    <2>1. CASE g1 = n /\ fc = f1 /\ g2 = f2 /\ g3 = f3 /\ g4 = f4 /\ g5 = f5
      BY <1>6, <2>1
    <2>2. CASE g2 = n /\ fc = f2 /\ g1 = f1 /\ g3 = f3 /\ g4 = f4 /\ g5 = f5
      BY <1>6, <2>2
    <2>3. CASE g3 = n /\ fc = f3 /\ g1 = f1 /\ g2 = f2 /\ g4 = f4 /\ g5 = f5
      BY <1>6, <2>3
    <2>4. CASE g4 = n /\ fc = f4 /\ g1 = f1 /\ g2 = f2 /\ g3 = f3 /\ g5 = f5
      BY <1>6, <2>4
    <2>5. CASE g5 = n /\ fc = f5 /\ g1 = f1 /\ g2 = f2 /\ g3 = f3 /\ g4 = f4
      BY <1>6, <2>5
    <2> QED
      BY <1>7, <2>1, <2>2, <2>3, <2>4, <2>5
  <1> HIDE DEF gs, fs
  <1>9. InChans(g) = gs /\ InChans(f) = fs
    BY <1>5 DEF gs, fs
  <1> QED
    BY <1>1, <1>8, <1>9 DEF g, fc, n

\* A channel is read, or written.
LEMMA HeadMarks ==
  ASSUME NEW f \in [Channels -> Seq(Messages)], NEW c \in Channels, f[c] # <<>>
  PROVE  /\ Head(f[c]) \in Messages
         /\ Changed(f, c, Tail(f[c])) \in [Channels -> Seq(Messages)]
         /\ InChans(f) = InChans(Changed(f, c, Tail(f[c]))) + (IF Head(f[c]) \in Marks THEN 1 ELSE 0)
  <1> DEFINE s == f[c]
             r == Tail(s)
             g == Changed(f, c, r)
             i == IF Head(s) \in Marks THEN 1 ELSE 0
  <1>1. s \in Seq(Messages) /\ s # <<>>
    OBVIOUS
  <1> HIDE DEF s
  <1>2. Head(s) \in Messages /\ r \in Seq(Messages)
    BY <1>1, HeadTailProperties
  <1>3. Count(s, Marks) = Count(r, Marks) + i
    BY <1>1, CountHead
  <1>4. Count(r, Marks) \in Nat
    BY <1>2, CountType
  <1> HIDE DEF r
  <1>5. g \in [Channels -> Seq(Messages)] /\ InChans(g) = InChans(f) - Count(f[c], Marks) + Count(r, Marks)
    BY <1>2, ChannelMarks
  <1>6. InChans(f) \in Nat /\ i \in Nat
    BY InChansType
  <1> HIDE DEF i, g
  <1>7. InChans(f) = InChans(g) + i
    BY <1>3, <1>4, <1>5, <1>6 DEF s
  <1> QED
    BY <1>2, <1>5, <1>7 DEF g, r, s, i

LEMMA AppendMarks ==
  ASSUME NEW f \in [Channels -> Seq(Messages)], NEW c \in Channels, NEW m \in Messages
  PROVE  /\ Changed(f, c, Append(f[c], m)) \in [Channels -> Seq(Messages)]
         /\ InChans(Changed(f, c, Append(f[c], m))) = InChans(f) + (IF m \in Marks THEN 1 ELSE 0)
  <1> DEFINE s == Append(f[c], m)
             g == Changed(f, c, s)
             i == IF m \in Marks THEN 1 ELSE 0
  <1>1. f[c] \in Seq(Messages)
    OBVIOUS
  <1>2. s \in Seq(Messages) /\ Count(s, Marks) = Count(f[c], Marks) + i
    BY <1>1, AppendProperties, CountAppend
  <1> HIDE DEF s
  <1>3. g \in [Channels -> Seq(Messages)] /\ InChans(g) = InChans(f) - Count(f[c], Marks) + Count(s, Marks)
    BY <1>2, ChannelMarks
  <1>4. Count(f[c], Marks) \in Nat /\ InChans(f) \in Nat /\ i \in Nat
    BY <1>1, CountType, InChansType
  <1> HIDE DEF i, g
  <1>5. InChans(g) = InChans(f) + i
    BY <1>2, <1>3, <1>4
  <1> QED
    BY <1>3, <1>5 DEF g, s, i

\* A push hands on what it pushes.
LEMMA PushKeepsMarks ==
  ASSUME NEW f \in [Channels -> Seq(Messages)], NEW todo \in Seq(Pushes), todo # <<>>,
         NEW c \in Channels, NEW m, m = Head(todo).m
  PROVE  /\ Changed(f, c, Append(f[c], m)) \in [Channels -> Seq(Messages)] /\ Tail(todo) \in Seq(Pushes)
         /\ InChans(Changed(f, c, Append(f[c], m))) + Count(Tail(todo), Marked(Pushes))
              = InChans(f) + Count(todo, Marked(Pushes))
  <1> DEFINE g == Changed(f, c, Append(f[c], m))
             t == Tail(todo)
             i == IF m \in Marks THEN 1 ELSE 0
  <1>1. Head(todo) \in Pushes /\ t \in Seq(Pushes)
    BY HeadTailProperties
  <1>2. m \in Messages /\ (Head(todo) \in Marked(Pushes) <=> m \in Marks)
    BY <1>1 DEF Pushes, Marked
  <1>3. g \in [Channels -> Seq(Messages)] /\ InChans(g) = InChans(f) + i
    BY <1>2, AppendMarks
  <1>4. Count(todo, Marked(Pushes)) = Count(t, Marked(Pushes)) + i
    BY <1>2, CountHead
  <1>5. Count(t, Marked(Pushes)) \in Nat /\ InChans(f) \in Nat /\ i \in Nat
    BY <1>1, CountType, InChansType
  <1> HIDE DEF t, i, g
  <1>6. InChans(g) + Count(t, Marked(Pushes)) = InChans(f) + Count(todo, Marked(Pushes))
    BY <1>3, <1>4, <1>5
  <1> QED
    BY <1>1, <1>3, <1>6 DEF t, g

(***************************************************************************)
(* The invariant.                                                          *)
(***************************************************************************)
LEMMA RightsType ==
  ASSUME Typed
  PROVE  /\ Unasked \in Nat /\ InChans(chans) \in Nat /\ works \in Nat
         /\ TodoMarks(clientTodo) \in Nat /\ TodoMarks(mainTodo) \in Nat /\ TodoMarks(ctlTodo) \in Nat
         /\ Count(toChief, Marked(Sent)) \in Nat /\ Count(toChannel, Marks) \in Nat
  <1>1. /\ clientTodo \in Seq(Pushes) /\ mainTodo \in Seq(Pushes) /\ ctlTodo \in Seq(Pushes)
        /\ toChief \in Seq(Sent) /\ toChannel \in Seq(Messages) /\ chans \in [Channels -> Seq(Messages)]
        /\ works \in Nat
    BY DEF Typed
  <1>2. InChans(chans) \in Nat
    BY <1>1, InChansType
  <1>3. TodoMarks(clientTodo) \in Nat /\ TodoMarks(mainTodo) \in Nat /\ TodoMarks(ctlTodo) \in Nat
    BY <1>1, CountType DEF TodoMarks
  <1>4. Count(toChief, Marked(Sent)) \in Nat /\ Count(toChannel, Marks) \in Nat
    BY <1>1, CountType
  <1> QED
    BY <1>1, <1>2, <1>3, <1>4 DEF Unasked

LEMMA InitGood == Init => Typed /\ OneMark
  <1> SUFFICES ASSUME Init PROVE Typed /\ OneMark
    OBVIOUS
  <1>1. \A S : <<>> \in Seq(S)
    OBVIOUS
  <1>2. chans = [c \in Channels |-> <<>>] /\ chans \in [Channels -> Seq(Messages)]
    BY <1>1 DEF Init
  <1>3. Typed
    BY <1>1, <1>2 DEF Init, Typed
  <1>4. \A T : Count(<<>>, T) = 0
    BY CountEmpty
  <1>5. InChans(chans) = 0
    BY <1>2, <1>4 DEF InChans, Channels
  <1>6. InTodos = 0 /\ OnWires = 0
    BY <1>4 DEF Init, InTodos, OnWires, TodoMarks
  <1>7. Unasked = 1 /\ works = 0
    BY DEF Init, Unasked
  <1> QED
    BY <1>3, <1>5, <1>6, <1>7 DEF OneMark, Rights

\* What a step does not touch keeps its marks.
LEMMA Untouched ==
  /\ UNCHANGED clientTodo => TodoMarks(clientTodo)' = TodoMarks(clientTodo)
  /\ UNCHANGED mainTodo => TodoMarks(mainTodo)' = TodoMarks(mainTodo)
  /\ UNCHANGED ctlTodo => TodoMarks(ctlTodo)' = TodoMarks(ctlTodo)
  /\ UNCHANGED chans => InChans(chans)' = InChans(chans)
  /\ UNCHANGED toChief => Count(toChief, Marked(Sent))' = Count(toChief, Marked(Sent))
  /\ UNCHANGED toChannel => Count(toChannel, Marks)' = Count(toChannel, Marks)
  /\ UNCHANGED requested => Unasked' = Unasked
  BY DEF TodoMarks, InChans, Unasked

\* The library, the passing of time and the end of main touch no mark, but lose some.
LEMMA LibrarySteps ==
  ASSUME Typed,
         Connect \/ ConnectFails \/ Break \/ ChiefRestart \/ MinutePasses \/ ClosePush \/ UNCHANGED vars
  PROVE  Typed' /\ Rights' <= Rights
  <1>1. UNCHANGED <<clientTodo, mainTodo, ctlTodo, chans, requested, works>> /\ conn' \in Nat /\ conns' \in Nat
    BY DEF Typed, Connect, ConnectFails, Break, ChiefRestart, MinutePasses, ClosePush, vars, net, client
  <1>2. Count(<<>>, Marked(Sent)) = 0 /\ Count(<<>>, Marks) = 0
    BY CountEmpty
  <1>3. /\ Count(toChief, Marked(Sent)) \in Nat /\ Count(toChannel, Marks) \in Nat
        /\ toChief \in Seq(Sent) /\ toChannel \in Seq(Messages)
    BY RightsType DEF Typed
  <1>4. toChief' \in Seq(Sent) /\ Count(toChief', Marked(Sent)) <= Count(toChief, Marked(Sent))
    <2>1. CASE Break
      <3>1. PICK n \in 0..Len(toChief) : toChief' = SubSeq(toChief, 1, n)
        BY <2>1 DEF Break
      <3> QED
        BY <1>3, <3>1, CountPrefix
    <2>2. CASE toChief' = <<>>
      <3>1. <<>> \in Seq(Sent)
        OBVIOUS
      <3> QED
        BY <1>2, <1>3, <2>2, <3>1
    <2>3. CASE UNCHANGED toChief
      BY <1>3, <2>3
    <2> QED
      BY <2>1, <2>2, <2>3 DEF Connect, ConnectFails, ChiefRestart, MinutePasses, ClosePush, vars, net
  <1>5. toChannel' \in Seq(Messages) /\ Count(toChannel', Marks) <= Count(toChannel, Marks)
    <2>1. toChannel' = <<>> \/ UNCHANGED toChannel
      BY DEF Connect, ConnectFails, Break, ChiefRestart, MinutePasses, ClosePush, vars, net
    <2>2. CASE toChannel' = <<>>
      <3>1. <<>> \in Seq(Messages)
        OBVIOUS
      <3> QED
        BY <1>2, <1>3, <2>2, <3>1
    <2>3. CASE UNCHANGED toChannel
      BY <1>3, <2>3
    <2> QED
      BY <2>1, <2>2, <2>3
  <1>6. Typed'
    BY <1>1, <1>4, <1>5 DEF Typed
  <1>7. InTodos' = InTodos /\ InChans(chans)' = InChans(chans) /\ Unasked' = Unasked /\ works' = works
    BY <1>1, Untouched DEF InTodos
  <1>8. OnWires \in Nat /\ OnWires' \in Nat /\ OnWires' <= OnWires
    <2>1. Count(toChief', Marked(Sent)) \in Nat /\ Count(toChannel', Marks) \in Nat
      BY <1>4, <1>5, CountType
    <2> QED
      BY <1>3, <1>4, <1>5, <2>1 DEF OnWires
  <1>9. Unasked \in Nat /\ InTodos \in Nat /\ InChans(chans) \in Nat /\ works \in Nat
    BY RightsType DEF InTodos
  <1> QED
    BY <1>6, <1>7, <1>8, <1>9 DEF Rights

\* The client hears of the library: the first connection turns the right into a request.
LEMMA ClientHears ==
  ASSUME Typed, Connected \/ Disconnected
  PROVE  Typed' /\ Rights' <= Rights
  <1>1. UNCHANGED <<mainTodo, ctlTodo, chans, toChief, toChannel, works, conn, conns>> /\ clientTodo = <<>>
    BY DEF Connected, Disconnected, Reported
  <1>2. /\ clientTodo' \in Seq(Pushes) /\ requested' \in BOOLEAN
        /\ TodoMarks(clientTodo)' + Unasked' = Unasked
    <2>1. CASE Connected
      <3>1. clientTodo' = Startup \o Log("LogChan") /\ requested' = TRUE
        BY <2>1 DEF Connected
      <3>2. /\ clientTodo' \in Seq(Pushes)
            /\ Count(clientTodo', Marked(Pushes)) = IF requested THEN 0 ELSE 1
        BY <3>1, ConnectedPushes
      <3> QED
        BY <3>1, <3>2 DEF TodoMarks, Unasked
    <2>2. CASE Disconnected
      <3>1. /\ UNCHANGED requested
            /\ clientTodo' = (IF disconnTime = "old" THEN <<Push("CloseChan", "other")>> ELSE <<>>) \o Log("LogChan")
        BY <2>2 DEF Disconnected
      <3>2. clientTodo' \in Seq(Pushes) /\ Count(clientTodo', Marked(Pushes)) = 0
        BY <3>1, DisconnectedPushes
      <3> QED
        BY <3>1, <3>2 DEF TodoMarks, Unasked, Typed
    <2> QED
      BY <2>1, <2>2
  <1>3. Typed'
    BY <1>1, <1>2 DEF Typed
  <1>4. TodoMarks(clientTodo) = 0
    BY <1>1, CountEmpty DEF TodoMarks
  <1>5. /\ TodoMarks(mainTodo)' = TodoMarks(mainTodo) /\ TodoMarks(ctlTodo)' = TodoMarks(ctlTodo)
        /\ InChans(chans)' = InChans(chans) /\ OnWires' = OnWires /\ works' = works
    BY <1>1, Untouched DEF OnWires
  <1>6. TodoMarks(clientTodo)' \in Nat /\ Unasked' \in Nat
    BY <1>2, CountType DEF TodoMarks, Unasked
  <1>7. /\ Unasked \in Nat /\ TodoMarks(mainTodo) \in Nat /\ TodoMarks(ctlTodo) \in Nat
        /\ InChans(chans) \in Nat /\ OnWires \in Nat /\ works \in Nat
    BY RightsType DEF OnWires
  <1>8. TodoMarks(clientTodo)' + Unasked' = TodoMarks(clientTodo) + Unasked
    BY <1>2, <1>4, <1>7
  <1>9. InTodos' = TodoMarks(clientTodo)' + TodoMarks(mainTodo) + TodoMarks(ctlTodo)
    BY <1>5 DEF InTodos
  <1> QED
    BY <1>3, <1>4, <1>5, <1>6, <1>7, <1>8, <1>9 DEF Rights, InTodos

\* The client sends what it reads, or drops it, and passes on what it receives.
LEMMA ClientSends ==
  ASSUME Typed, ClientSend
  PROVE  Typed' /\ Rights' <= Rights
  <1> DEFINE c == "SendChan"
             m == Head(chans[c])
             i == IF m \in Marks THEN 1 ELSE 0
             g == Changed(chans, c, Tail(chans[c]))
  <1>1. /\ UNCHANGED <<clientTodo, mainTodo, ctlTodo, requested, toChannel, works, conn, conns>>
        /\ chans[c] # <<>> /\ chans' = g /\ SentOn(m)
    BY DEF ClientSend, Changed, client
  <1>2. /\ chans \in [Channels -> Seq(Messages)] /\ c \in Channels /\ conn \in Nat
        /\ toChief \in Seq(Sent) /\ toChannel \in Seq(Messages)
    BY DEF Typed, Channels
  <1>3. m \in Messages /\ g \in [Channels -> Seq(Messages)] /\ InChans(chans) = InChans(g) + i
    BY <1>1, <1>2, HeadMarks
  <1>4. /\ toChief' \in Seq(Sent) /\ Count(toChief', Marked(Sent)) \in Nat
        /\ Count(toChief', Marked(Sent)) <= Count(toChief, Marked(Sent)) + i
    <2> HIDE DEF c, m, g
    <2> DEFINE s == [m |-> m, from |-> conn]
    <2>1. s \in Sent /\ (s \in Marked(Sent) <=> m \in Marks)
      BY <1>2, <1>3 DEF Sent, Marked
    <2>2. CASE toChief' = Append(toChief, s)
      <3> HIDE DEF s
      <3>1. Append(toChief, s) \in Seq(Sent)
        BY <1>2, <2>1, AppendProperties
      <3>2. Count(Append(toChief, s), Marked(Sent)) = Count(toChief, Marked(Sent)) + (IF s \in Marked(Sent) THEN 1 ELSE 0)
        BY <1>2, <2>1, CountAppend
      <3>3. Count(toChief, Marked(Sent)) \in Nat
        BY <1>2, CountType
      <3> QED
        BY <2>1, <2>2, <3>1, <3>2, <3>3
    <2>3. CASE UNCHANGED toChief
      <3>1. Count(toChief, Marked(Sent)) \in Nat
        BY <1>2, CountType
      <3> QED
        BY <1>2, <2>3, <3>1
    <2> QED
      BY <1>1, <2>2, <2>3 DEF SentOn
  <1> HIDE DEF g, c, m, i
  <1>5. Typed'
    BY <1>1, <1>3, <1>4 DEF Typed
  <1>6. /\ InTodos' = InTodos /\ works' = works /\ Unasked' = Unasked
        /\ Count(toChannel, Marks)' = Count(toChannel, Marks)
    BY <1>1, Untouched DEF InTodos
  <1>7. /\ Unasked \in Nat /\ InTodos \in Nat /\ works \in Nat /\ InChans(g) \in Nat
        /\ Count(toChief, Marked(Sent)) \in Nat /\ Count(toChannel, Marks) \in Nat
    BY <1>3, RightsType, InChansType DEF InTodos
  <1>8. InChans(chans)' = InChans(g)
    BY <1>1 DEF InChans
  <1>9. i \in Nat
    BY DEF i
  <1>10. InChans(chans)' + OnWires' <= InChans(chans) + OnWires /\ InChans(chans)' + OnWires' \in Nat
    BY <1>3, <1>4, <1>6, <1>7, <1>8, <1>9 DEF OnWires
  <1>11. OnWires \in Nat /\ OnWires' \in Nat /\ InChans(chans) \in Nat
    BY <1>3, <1>4, <1>6, <1>7, <1>9 DEF OnWires
  <1> QED
    BY <1>5, <1>6, <1>7, <1>8, <1>10, <1>11 DEF Rights

LEMMA ClientReceives ==
  ASSUME Typed, ClientReceive
  PROVE  Typed' /\ Rights' <= Rights
  <1> DEFINE m == Head(toChannel)
             i == IF m \in Marks THEN 1 ELSE 0
  <1>1. /\ UNCHANGED <<mainTodo, ctlTodo, chans, requested, toChief, works, conn, conns>>
        /\ clientTodo = <<>> /\ toChannel # <<>> /\ toChannel' = Tail(toChannel)
        /\ clientTodo' = <<Push("ReceiveChan", m)>>
    BY DEF ClientReceive
  <1>2. toChannel \in Seq(Messages)
    BY DEF Typed
  <1>3. m \in Messages /\ toChannel' \in Seq(Messages)
    BY <1>1, <1>2, HeadTailProperties
  <1>4. Count(toChannel, Marks) = Count(toChannel', Marks) + i
    BY <1>1, <1>2, CountHead
  <1>5. clientTodo' \in Seq(Pushes) /\ TodoMarks(clientTodo') = i
    <2> HIDE DEF m
    <2>1. "ReceiveChan" \in Channels
      BY DEF Channels
    <2> QED
      BY <1>1, <1>3, <2>1, OnePush DEF TodoMarks
  <1> HIDE DEF m, i
  <1>6. Typed'
    BY <1>1, <1>3, <1>5 DEF Typed
  <1>7. TodoMarks(clientTodo) = 0
    BY <1>1, CountEmpty DEF TodoMarks
  <1>8. /\ TodoMarks(mainTodo)' = TodoMarks(mainTodo) /\ TodoMarks(ctlTodo)' = TodoMarks(ctlTodo)
        /\ InChans(chans)' = InChans(chans) /\ Unasked' = Unasked /\ works' = works
        /\ Count(toChief, Marked(Sent))' = Count(toChief, Marked(Sent))
    BY <1>1, Untouched
  <1>9. /\ Unasked \in Nat /\ TodoMarks(mainTodo) \in Nat /\ TodoMarks(ctlTodo) \in Nat
        /\ InChans(chans) \in Nat /\ works \in Nat /\ Count(toChief, Marked(Sent)) \in Nat
    BY RightsType
  <1>10. i \in Nat /\ Count(toChannel', Marks) \in Nat
    BY <1>3, CountType DEF i
  <1>11. TodoMarks(clientTodo)' = i
    BY <1>5 DEF TodoMarks
  <1>12. InTodos' = InTodos + i /\ OnWires = OnWires' + i /\ InTodos \in Nat /\ OnWires' \in Nat
    BY <1>4, <1>7, <1>8, <1>9, <1>10, <1>11 DEF InTodos, OnWires
  <1> QED
    BY <1>6, <1>8, <1>9, <1>10, <1>12 DEF Rights

\* main takes a message and hands its mark on, or drops it.
LEMMA MainTakes ==
  ASSUME Typed, NEW c \in Cases, MainTake(c)
  PROVE  Typed' /\ Rights' <= Rights
  <1> DEFINE m == Head(chans[c])
             i == IF m \in Marks THEN 1 ELSE 0
             g == Changed(chans, c, Tail(chans[c]))
  <1>1. /\ UNCHANGED <<clientTodo, ctlTodo, requested, toChief, toChannel, works, conn, conns>>
        /\ chans[c] # <<>> /\ chans' = g /\ mainTodo = <<>> /\ mainTodo' = MainPushes(m)
    BY DEF MainTake, Changed, client, net
  <1>2. chans \in [Channels -> Seq(Messages)] /\ c \in Channels
    BY DEF Typed, Cases
  <1>3. m \in Messages /\ g \in [Channels -> Seq(Messages)] /\ InChans(chans) = InChans(g) + i
    BY <1>1, <1>2, HeadMarks
  <1> HIDE DEF m, g
  <1>4. mainTodo' \in Seq(Pushes) /\ TodoMarks(mainTodo') <= i
    BY <1>1, <1>3, MainHandsOn DEF TodoMarks
  <1> HIDE DEF i
  <1>5. Typed'
    BY <1>1, <1>3, <1>4 DEF Typed
  <1>6. TodoMarks(mainTodo) = 0
    BY <1>1, CountEmpty DEF TodoMarks
  <1>7. /\ TodoMarks(clientTodo)' = TodoMarks(clientTodo) /\ TodoMarks(ctlTodo)' = TodoMarks(ctlTodo)
        /\ OnWires' = OnWires /\ Unasked' = Unasked /\ works' = works
    BY <1>1, Untouched DEF OnWires
  <1>8. /\ Unasked \in Nat /\ TodoMarks(clientTodo) \in Nat /\ TodoMarks(ctlTodo) \in Nat
        /\ OnWires \in Nat /\ works \in Nat
    BY RightsType DEF OnWires
  <1>9. i \in Nat /\ InChans(g) \in Nat /\ TodoMarks(mainTodo') \in Nat
    BY <1>3, <1>4, InChansType, CountType DEF i, TodoMarks
  <1>10. InChans(chans)' = InChans(g) /\ TodoMarks(mainTodo)' = TodoMarks(mainTodo')
    BY <1>1 DEF InChans, TodoMarks
  <1>11. InTodos' + InChans(chans)' <= InTodos + InChans(chans)
    BY <1>3, <1>4, <1>6, <1>7, <1>8, <1>9, <1>10 DEF InTodos
  <1>12. InTodos \in Nat /\ InTodos' \in Nat /\ InChans(chans) \in Nat /\ InChans(chans)' \in Nat
    BY <1>3, <1>6, <1>7, <1>8, <1>9, <1>10 DEF InTodos
  <1> QED
    BY <1>5, <1>7, <1>8, <1>11, <1>12 DEF Rights

\* The controller takes data, or has something to tell; a state goes through main.
LEMMA ControllerSteps ==
  ASSUME Typed, CtlSend \/ CtlReceive \/ CtlTick
  PROVE  Typed' /\ Rights' <= Rights
  <1> DEFINE c == "FmtpDataSendChan"
             g == Changed(chans, c, Tail(chans[c]))
  <1>1. /\ UNCHANGED <<clientTodo, mainTodo, requested, toChief, toChannel, works, conn, conns>>
        /\ ctlTodo = <<>>
    BY DEF CtlSend, CtlReceive, CtlTick, client, net
  <1>2. chans \in [Channels -> Seq(Messages)] /\ c \in Channels
    BY DEF Typed, Channels
  <1>3. /\ chans' \in [Channels -> Seq(Messages)] /\ InChans(chans') \in Nat
        /\ InChans(chans') <= InChans(chans)
    <2>1. CASE CtlSend
      <3> DEFINE i == IF Head(chans[c]) \in Marks THEN 1 ELSE 0
      <3>1. chans[c] # <<>> /\ chans' = g
        BY <2>1 DEF CtlSend, Changed
      <3>2. g \in [Channels -> Seq(Messages)] /\ InChans(chans) = InChans(g) + i
        BY <1>2, <3>1, HeadMarks
      <3>3. InChans(g) \in Nat /\ i \in Nat
        BY <3>2, InChansType
      <3> HIDE DEF g, i
      <3> QED
        BY <3>1, <3>2, <3>3
    <2>2. CASE UNCHANGED chans
      <3>1. InChans(chans) \in Nat
        BY <1>2, InChansType
      <3> QED
        BY <1>2, <2>2, <3>1
    <2> QED
      BY <2>1, <2>2 DEF CtlReceive, CtlTick
  <1>4. ctlTodo' \in Seq(Pushes) /\ TodoMarks(ctlTodo') = 0
    <2>1. CASE ctlTodo' = Log("OutChan")
      BY <2>1, LogPushes DEF Channels, TodoMarks
    <2>2. CASE ctlTodo' = <<Push("FmtpStateChan", "heartbeat")>>
      <3>1. "heartbeat" \in Messages /\ "heartbeat" \notin Marks
        BY DEF Messages, Marks
      <3> QED
        BY <2>2, <3>1, OnePush DEF TodoMarks
    <2> QED
      BY <2>1, <2>2 DEF CtlSend, CtlReceive, CtlTick
  <1>5. Typed'
    BY <1>1, <1>3, <1>4 DEF Typed
  <1>6. TodoMarks(ctlTodo) = 0 /\ TodoMarks(ctlTodo)' = 0
    BY <1>1, <1>4, CountEmpty DEF TodoMarks
  <1>7. /\ TodoMarks(clientTodo)' = TodoMarks(clientTodo) /\ TodoMarks(mainTodo)' = TodoMarks(mainTodo)
        /\ OnWires' = OnWires /\ Unasked' = Unasked /\ works' = works
    BY <1>1, Untouched DEF OnWires
  <1>8. Unasked \in Nat /\ InTodos \in Nat /\ OnWires \in Nat /\ works \in Nat /\ InChans(chans) \in Nat
    BY RightsType DEF OnWires, InTodos
  <1>9. InTodos' = InTodos /\ InChans(chans)' = InChans(chans')
    BY <1>6, <1>7 DEF InTodos, InChans
  <1> QED
    BY <1>3, <1>5, <1>7, <1>8, <1>9 DEF Rights

\* A push moves a mark from a list into a channel.
LEMMA Pushed ==
  ASSUME Typed, NEW todo \in Seq(Pushes), Buffered(todo)
  PROVE  /\ chans' \in [Channels -> Seq(Messages)] /\ Tail(todo) \in Seq(Pushes)
         /\ InChans(chans)' + TodoMarks(Tail(todo)) = InChans(chans) + TodoMarks(todo)
         /\ InChans(chans)' \in Nat /\ TodoMarks(Tail(todo)) \in Nat
  <1> DEFINE c == Head(todo).chan
             m == Head(todo).m
             g == Changed(chans, c, Append(chans[c], m))
  <1>1. todo # <<>> /\ c \in Channels /\ chans' = g
    BY DEF Buffered, Changed
  <1>2. chans \in [Channels -> Seq(Messages)]
    BY DEF Typed
  <1> HIDE DEF c
  <1>3. /\ g \in [Channels -> Seq(Messages)] /\ Tail(todo) \in Seq(Pushes)
        /\ InChans(g) + Count(Tail(todo), Marked(Pushes)) = InChans(chans) + Count(todo, Marked(Pushes))
    BY <1>1, <1>2, PushKeepsMarks
  <1>4. InChans(g) \in Nat /\ TodoMarks(Tail(todo)) \in Nat
    BY <1>3, InChansType, CountType DEF TodoMarks
  <1>5. InChans(chans)' = InChans(g)
    BY <1>1 DEF InChans
  <1> QED
    BY <1>1, <1>3, <1>4, <1>5 DEF TodoMarks

LEMMA PushSteps ==
  ASSUME Typed, ClientPush \/ MainPush \/ CtlPush
  PROVE  Typed' /\ Rights' <= Rights
  <1>1. /\ UNCHANGED <<requested, toChief, toChannel, works, conn, conns>>
        /\ clientTodo \in Seq(Pushes) /\ mainTodo \in Seq(Pushes) /\ ctlTodo \in Seq(Pushes)
    BY DEF ClientPush, MainPush, CtlPush, net, client, Typed
  <1>2. /\ Unasked' = Unasked /\ OnWires' = OnWires /\ works' = works
        /\ Unasked \in Nat /\ OnWires \in Nat /\ works \in Nat /\ InChans(chans) \in Nat
        /\ TodoMarks(clientTodo) \in Nat /\ TodoMarks(mainTodo) \in Nat /\ TodoMarks(ctlTodo) \in Nat
    BY <1>1, Untouched, RightsType DEF OnWires
  <1>3. /\ Typed'
        /\ InTodos' + InChans(chans)' = InTodos + InChans(chans)
        /\ InTodos' \in Nat /\ InChans(chans)' \in Nat
    <2>1. CASE ClientPush
      <3>1. Buffered(clientTodo) /\ clientTodo' = Tail(clientTodo) /\ UNCHANGED <<mainTodo, ctlTodo>>
        BY <2>1 DEF ClientPush
      <3>2. /\ chans' \in [Channels -> Seq(Messages)] /\ Tail(clientTodo) \in Seq(Pushes)
            /\ InChans(chans)' + TodoMarks(Tail(clientTodo)) = InChans(chans) + TodoMarks(clientTodo)
            /\ InChans(chans)' \in Nat /\ TodoMarks(Tail(clientTodo)) \in Nat
        BY <1>1, <3>1, Pushed
      <3>3. Typed'
        BY <1>1, <3>1, <3>2 DEF Typed
      <3>4. /\ TodoMarks(clientTodo)' = TodoMarks(Tail(clientTodo))
            /\ TodoMarks(mainTodo)' = TodoMarks(mainTodo) /\ TodoMarks(ctlTodo)' = TodoMarks(ctlTodo)
        BY <3>1 DEF TodoMarks
      <3> DEFINE a == TodoMarks(clientTodo)
                 b == TodoMarks(mainTodo) + TodoMarks(ctlTodo)
                 r == TodoMarks(Tail(clientTodo))
                 h == InChans(chans)
                 n == InChans(chans)'
      <3>5. InTodos' = r + b /\ InTodos = a + b
        BY <1>2, <3>2, <3>4 DEF InTodos
      <3>6. a \in Nat /\ b \in Nat /\ r \in Nat /\ h \in Nat /\ n \in Nat /\ n + r = h + a
        BY <1>2, <3>2
      <3> HIDE DEF a, b, r, h, n
      <3>7. InTodos' + n = InTodos + h /\ InTodos' \in Nat
        BY <3>5, <3>6
      <3> QED
        BY <3>3, <3>6, <3>7 DEF h, n
    <2>2. CASE MainPush
      <3>1. Buffered(mainTodo) /\ mainTodo' = Tail(mainTodo) /\ UNCHANGED <<clientTodo, ctlTodo>>
        BY <2>2 DEF MainPush, client
      <3>2. /\ chans' \in [Channels -> Seq(Messages)] /\ Tail(mainTodo) \in Seq(Pushes)
            /\ InChans(chans)' + TodoMarks(Tail(mainTodo)) = InChans(chans) + TodoMarks(mainTodo)
            /\ InChans(chans)' \in Nat /\ TodoMarks(Tail(mainTodo)) \in Nat
        BY <1>1, <3>1, Pushed
      <3>3. Typed'
        BY <1>1, <3>1, <3>2 DEF Typed
      <3>4. /\ TodoMarks(mainTodo)' = TodoMarks(Tail(mainTodo))
            /\ TodoMarks(clientTodo)' = TodoMarks(clientTodo) /\ TodoMarks(ctlTodo)' = TodoMarks(ctlTodo)
        BY <3>1 DEF TodoMarks
      <3> DEFINE a == TodoMarks(mainTodo)
                 b == TodoMarks(clientTodo) + TodoMarks(ctlTodo)
                 r == TodoMarks(Tail(mainTodo))
                 h == InChans(chans)
                 n == InChans(chans)'
      <3>5. InTodos' = r + b /\ InTodos = a + b
        BY <1>2, <3>2, <3>4 DEF InTodos
      <3>6. a \in Nat /\ b \in Nat /\ r \in Nat /\ h \in Nat /\ n \in Nat /\ n + r = h + a
        BY <1>2, <3>2
      <3> HIDE DEF a, b, r, h, n
      <3>7. InTodos' + n = InTodos + h /\ InTodos' \in Nat
        BY <3>5, <3>6
      <3> QED
        BY <3>3, <3>6, <3>7 DEF h, n
    <2>3. CASE CtlPush
      <3>1. Buffered(ctlTodo) /\ ctlTodo' = Tail(ctlTodo) /\ UNCHANGED <<clientTodo, mainTodo>>
        BY <2>3 DEF CtlPush, client
      <3>2. /\ chans' \in [Channels -> Seq(Messages)] /\ Tail(ctlTodo) \in Seq(Pushes)
            /\ InChans(chans)' + TodoMarks(Tail(ctlTodo)) = InChans(chans) + TodoMarks(ctlTodo)
            /\ InChans(chans)' \in Nat /\ TodoMarks(Tail(ctlTodo)) \in Nat
        BY <1>1, <3>1, Pushed
      <3>3. Typed'
        BY <1>1, <3>1, <3>2 DEF Typed
      <3>4. /\ TodoMarks(ctlTodo)' = TodoMarks(Tail(ctlTodo))
            /\ TodoMarks(clientTodo)' = TodoMarks(clientTodo) /\ TodoMarks(mainTodo)' = TodoMarks(mainTodo)
        BY <3>1 DEF TodoMarks
      <3> DEFINE a == TodoMarks(ctlTodo)
                 b == TodoMarks(clientTodo) + TodoMarks(mainTodo)
                 r == TodoMarks(Tail(ctlTodo))
                 h == InChans(chans)
                 n == InChans(chans)'
      <3>5. InTodos' = r + b /\ InTodos = a + b
        BY <1>2, <3>2, <3>4 DEF InTodos
      <3>6. a \in Nat /\ b \in Nat /\ r \in Nat /\ h \in Nat /\ n \in Nat /\ n + r = h + a
        BY <1>2, <3>2
      <3> HIDE DEF a, b, r, h, n
      <3>7. InTodos' + n = InTodos + h /\ InTodos' \in Nat
        BY <3>5, <3>6
      <3> QED
        BY <3>3, <3>6, <3>7 DEF h, n
    <2> QED
      BY <2>1, <2>2, <2>3
  <1>4. InTodos \in Nat
    BY <1>2 DEF InTodos
  <1> QED
    BY <1>2, <1>3, <1>4 DEF Rights

\* main takes the state of the controller and makes a push of its own of it.
LEMMA StatePushed ==
  ASSUME Typed, StatePush
  PROVE  Typed' /\ Rights' <= Rights
  <1> DEFINE m == Head(ctlTodo).m
             i == IF m \in Marks THEN 1 ELSE 0
  <1>1. /\ UNCHANGED <<clientTodo, chans, requested, toChief, toChannel, works, conn, conns>>
        /\ ctlTodo # <<>> /\ Head(ctlTodo).chan = "FmtpStateChan"
        /\ mainTodo = <<>> /\ mainTodo' = <<Push("SendChan", m)>> /\ ctlTodo' = Tail(ctlTodo)
    BY DEF StatePush, net, client
  <1>2. ctlTodo \in Seq(Pushes)
    BY DEF Typed
  <1>3. Head(ctlTodo) \in Pushes /\ ctlTodo' \in Seq(Pushes)
    BY <1>1, <1>2, HeadTailProperties
  <1>4. m \in Messages /\ (Head(ctlTodo) \in Marked(Pushes) <=> m \in Marks)
    BY <1>3 DEF Pushes, Marked
  <1>5. TodoMarks(ctlTodo) = TodoMarks(ctlTodo') + i
    BY <1>1, <1>2, <1>4, CountHead DEF TodoMarks
  <1>6. mainTodo' \in Seq(Pushes) /\ TodoMarks(mainTodo') = i
    <2> HIDE DEF m
    <2>1. "SendChan" \in Channels
      BY DEF Channels
    <2> QED
      BY <1>1, <1>4, <2>1, OnePush DEF TodoMarks
  <1> HIDE DEF m, i
  <1>7. Typed'
    BY <1>1, <1>3, <1>6 DEF Typed
  <1>8. TodoMarks(mainTodo) = 0
    BY <1>1, CountEmpty DEF TodoMarks
  <1>9. /\ TodoMarks(clientTodo)' = TodoMarks(clientTodo) /\ Unasked' = Unasked /\ works' = works
        /\ OnWires' = OnWires /\ InChans(chans)' = InChans(chans)
    BY <1>1, Untouched DEF OnWires
  <1>10. /\ Unasked \in Nat /\ OnWires \in Nat /\ works \in Nat /\ InChans(chans) \in Nat
         /\ TodoMarks(clientTodo) \in Nat /\ TodoMarks(ctlTodo') \in Nat /\ i \in Nat
    <2>1. TodoMarks(ctlTodo') \in Nat
      BY <1>3, CountType DEF TodoMarks
    <2> QED
      BY <2>1, RightsType DEF OnWires, i
  <1>11. TodoMarks(mainTodo)' = i /\ TodoMarks(ctlTodo)' = TodoMarks(ctlTodo')
    BY <1>6 DEF TodoMarks
  <1>12. InTodos' = InTodos /\ InTodos \in Nat
    <2> DEFINE a == TodoMarks(clientTodo)
               n == TodoMarks(ctlTodo')
    <2>1. InTodos' = a + i + n /\ InTodos = a + 0 + (n + i)
      BY <1>5, <1>8, <1>9, <1>11 DEF InTodos
    <2>2. a \in Nat /\ n \in Nat /\ i \in Nat
      BY <1>10
    <2> HIDE DEF a, n
    <2> QED
      BY <2>1, <2>2
  <1> QED
    BY <1>7, <1>9, <1>10, <1>12 DEF Rights

\* The call of Work uses the right up: works counts it from now on.
LEMMA WorkStarts ==
  ASSUME Typed, StartWork
  PROVE  Typed' /\ Rights' <= Rights
  <1>1. /\ UNCHANGED <<clientTodo, ctlTodo, chans, requested, toChief, toChannel, conn, conns>>
        /\ mainTodo # <<>> /\ Head(mainTodo).chan = "Work" /\ works' = works + 1 /\ mainTodo' = Tail(mainTodo)
    BY DEF StartWork, net, client
  <1>2. mainTodo \in Seq(Pushes) /\ works \in Nat
    BY DEF Typed
  <1>3. Head(mainTodo) \in Pushes /\ mainTodo' \in Seq(Pushes)
    BY <1>1, <1>2, HeadTailProperties
  <1>4. Head(mainTodo) \in Marked(Pushes)
    BY <1>1, <1>3 DEF Pushes, Marked, Marks
  <1>5. TodoMarks(mainTodo) = TodoMarks(mainTodo') + 1
    BY <1>1, <1>2, <1>4, CountHead DEF TodoMarks
  <1>6. Typed'
    BY <1>1, <1>2, <1>3 DEF Typed
  <1>7. /\ TodoMarks(clientTodo)' = TodoMarks(clientTodo) /\ TodoMarks(ctlTodo)' = TodoMarks(ctlTodo)
        /\ Unasked' = Unasked /\ OnWires' = OnWires /\ InChans(chans)' = InChans(chans)
    BY <1>1, Untouched DEF OnWires
  <1>8. /\ Unasked \in Nat /\ OnWires \in Nat /\ works \in Nat /\ InChans(chans) \in Nat
        /\ TodoMarks(clientTodo) \in Nat /\ TodoMarks(ctlTodo) \in Nat /\ TodoMarks(mainTodo') \in Nat
    <2>1. TodoMarks(mainTodo') \in Nat
      BY <1>3, CountType DEF TodoMarks
    <2> QED
      BY <2>1, RightsType DEF OnWires
  <1>9. TodoMarks(mainTodo)' = TodoMarks(mainTodo')
    BY DEF TodoMarks
  <1>10. InTodos = InTodos' + 1 /\ InTodos' \in Nat
    <2> DEFINE a == TodoMarks(clientTodo)
               b == TodoMarks(ctlTodo)
               n == TodoMarks(mainTodo')
    <2>1. InTodos' = a + n + b /\ InTodos = a + (n + 1) + b
      BY <1>5, <1>7, <1>9 DEF InTodos
    <2>2. a \in Nat /\ b \in Nat /\ n \in Nat
      BY <1>8
    <2> HIDE DEF a, b, n
    <2> QED
      BY <2>1, <2>2
  <1> DEFINE t == InTodos'
             x == InChans(chans)
             w == OnWires
             u == Unasked
  <1>11. Rights' = u + t + x + w + (works + 1) /\ Rights = u + (t + 1) + x + w + works
    BY <1>1, <1>7, <1>10 DEF Rights
  <1>12. u \in Nat /\ t \in Nat /\ x \in Nat /\ w \in Nat /\ works \in Nat
    BY <1>8, <1>10
  <1> HIDE DEF t, x, w, u
  <1>13. Rights' <= Rights
    BY <1>11, <1>12
  <1> QED
    BY <1>6, <1>13

\* The chief answers a request once, if the connection is still there.
LEMMA ChiefSteps ==
  ASSUME Typed, ChiefTake \/ ChiefSend
  PROVE  Typed' /\ Rights' <= Rights
  <1>1. /\ UNCHANGED <<clientTodo, mainTodo, ctlTodo, chans, requested, works, conn, conns>>
        /\ toChief \in Seq(Sent) /\ toChannel \in Seq(Messages)
    BY DEF ChiefTake, ChiefSend, client, Typed
  <1>2. Count(toChief, Marked(Sent)) \in Nat /\ Count(toChannel, Marks) \in Nat
    BY RightsType
  <1>3. ASSUME NEW k, NEW a \in Messages, SendTo(k, a)
        PROVE  /\ toChannel' \in Seq(Messages) /\ Count(toChannel', Marks) \in Nat
               /\ Count(toChannel', Marks) <= Count(toChannel, Marks) + (IF a \in Marks THEN 1 ELSE 0)
    <2>1. CASE toChannel' = Append(toChannel, a)
      <3>1. Append(toChannel, a) \in Seq(Messages)
        BY <1>1, AppendProperties
      <3>2. Count(Append(toChannel, a), Marks) = Count(toChannel, Marks) + (IF a \in Marks THEN 1 ELSE 0)
        BY <1>1, CountAppend
      <3> QED
        BY <1>2, <2>1, <3>1, <3>2
    <2>2. CASE UNCHANGED toChannel
      BY <1>1, <1>2, <2>2
    <2> QED
      BY <1>3, <2>1, <2>2 DEF SendTo
  <1>4. /\ toChief' \in Seq(Sent) /\ toChannel' \in Seq(Messages)
        /\ Count(toChief', Marked(Sent)) \in Nat /\ Count(toChannel', Marks) \in Nat
        /\ Count(toChief', Marked(Sent)) + Count(toChannel', Marks)
             <= Count(toChief, Marked(Sent)) + Count(toChannel, Marks)
    <2>1. CASE ChiefTake
      <3> DEFINE h == Head(toChief)
                 i == IF h.m \in Marks THEN 1 ELSE 0
      <3>1. /\ toChief # <<>> /\ toChief' = Tail(toChief)
            /\ \/ h.m = "request" /\ \E answer \in {"settings", "bad_settings"} : SendTo(h.from, answer)
               \/ UNCHANGED toChannel
        BY <2>1 DEF ChiefTake
      <3>2. h \in Sent /\ toChief' \in Seq(Sent)
        BY <1>1, <3>1, HeadTailProperties
      <3>3. h \in Marked(Sent) <=> h.m \in Marks
        BY <3>2 DEF Sent, Marked
      <3>4. Count(toChief, Marked(Sent)) = Count(toChief', Marked(Sent)) + i
        BY <1>1, <3>1, <3>3, CountHead
      <3>5. Count(toChief', Marked(Sent)) \in Nat
        BY <3>2, CountType
      <3> HIDE DEF h
      <3>6. /\ toChannel' \in Seq(Messages) /\ Count(toChannel', Marks) \in Nat
            /\ Count(toChannel', Marks) <= Count(toChannel, Marks) + i
        <4>1. CASE UNCHANGED toChannel
          <5>1. i \in Nat
            OBVIOUS
          <5> HIDE DEF i
          <5> QED
            BY <1>1, <1>2, <4>1, <5>1
        <4>2. CASE h.m = "request" /\ \E answer \in {"settings", "bad_settings"} : SendTo(h.from, answer)
          <5>1. PICK answer \in {"settings", "bad_settings"} : SendTo(h.from, answer)
            BY <4>2
          <5>2. answer \in Messages /\ answer \in Marks /\ i = 1
            BY <4>2 DEF Messages, Marks
          <5> HIDE DEF i
          <5>3. /\ toChannel' \in Seq(Messages) /\ Count(toChannel', Marks) \in Nat
                /\ Count(toChannel', Marks) <= Count(toChannel, Marks) + (IF answer \in Marks THEN 1 ELSE 0)
            BY <1>3, <5>1, <5>2
          <5> QED
            BY <5>2, <5>3
        <4> QED
          BY <3>1, <4>1, <4>2
      <3>7. i \in Nat
        OBVIOUS
      <3> HIDE DEF i
      <3> QED
        BY <1>2, <3>2, <3>4, <3>5, <3>6, <3>7
    <2>2. CASE ChiefSend
      <3>1. UNCHANGED toChief /\ SendTo(sock, "data")
        BY <2>2 DEF ChiefSend
      <3>2. "data" \in Messages /\ "data" \notin Marks
        BY DEF Messages, Marks
      <3>3. /\ toChannel' \in Seq(Messages) /\ Count(toChannel', Marks) \in Nat
            /\ Count(toChannel', Marks) <= Count(toChannel, Marks) + (IF "data" \in Marks THEN 1 ELSE 0)
        BY <1>3, <3>1, <3>2
      <3>4. Count(toChannel', Marks) <= Count(toChannel, Marks)
        BY <1>2, <3>2, <3>3
      <3> QED
        BY <1>1, <1>2, <3>1, <3>3, <3>4
    <2> QED
      BY <2>1, <2>2
  <1>5. Typed'
    BY <1>1, <1>4 DEF Typed
  <1>6. InTodos' = InTodos /\ InChans(chans)' = InChans(chans) /\ Unasked' = Unasked /\ works' = works
    BY <1>1, Untouched DEF InTodos
  <1>7. OnWires \in Nat /\ OnWires' \in Nat /\ OnWires' <= OnWires
    BY <1>2, <1>4 DEF OnWires
  <1>8. Unasked \in Nat /\ InTodos \in Nat /\ InChans(chans) \in Nat /\ works \in Nat
    BY RightsType DEF InTodos
  <1> QED
    BY <1>5, <1>6, <1>7, <1>8 DEF Rights

LEMMA NextKeeps == Typed /\ [Next]_vars => Typed' /\ Rights' <= Rights
  <1> SUFFICES ASSUME Typed, [Next]_vars PROVE Typed' /\ Rights' <= Rights
    OBVIOUS
  <1>1. CASE Connect \/ ConnectFails \/ Break \/ ChiefRestart \/ MinutePasses \/ ClosePush \/ UNCHANGED vars
    BY <1>1, LibrarySteps
  <1>2. CASE Connected \/ Disconnected
    BY <1>2, ClientHears
  <1>3. CASE ClientSend
    BY <1>3, ClientSends
  <1>4. CASE ClientReceive
    BY <1>4, ClientReceives
  <1>5. CASE \E c \in Cases : MainTake(c)
    BY <1>5, MainTakes
  <1>6. CASE CtlSend \/ CtlReceive \/ CtlTick
    BY <1>6, ControllerSteps
  <1>7. CASE ClientPush \/ MainPush \/ CtlPush
    BY <1>7, PushSteps
  <1>8. CASE StatePush
    BY <1>8, StatePushed
  <1>9. CASE StartWork
    BY <1>9, WorkStarts
  <1>10. CASE ChiefTake \/ ChiefSend
    BY <1>10, ChiefSteps
  <1> QED
    BY <1>1, <1>2, <1>3, <1>4, <1>5, <1>6, <1>7, <1>8, <1>9, <1>10 DEF Next

(***************************************************************************)
(* Theorems.                                                               *)
(***************************************************************************)
\* However often the connection breaks, comes back or the chief restarts, and
\* whichever pushes wait meanwhile, there is one right to start the controller:
\* the request in SendChan, its answer, the call of main or the call made.
THEOREM OneRight == Spec => [](Typed /\ OneMark)
  <1>1. Init => Typed /\ OneMark
    BY InitGood
  <1>2. Typed => Rights \in Nat
    BY RightsType DEF Rights, InTodos, OnWires
  <1>3. (Typed => Rights \in Nat)'
    BY <1>2, PTL
  <1>4. (Typed /\ OneMark) /\ [Next]_vars => (Typed /\ OneMark)'
    <2> SUFFICES ASSUME Typed, OneMark, [Next]_vars PROVE Typed' /\ OneMark'
      OBVIOUS
    <2>1. Typed' /\ Rights' <= Rights
      BY NextKeeps
    <2>2. Rights \in Nat /\ Rights' \in Nat
      BY <1>2, <1>3, <2>1
    <2> QED
      BY <2>1, <2>2 DEF OneMark
  <1> QED
    BY <1>1, <1>4, PTL DEF Spec

\* Work of the one StateController is started once at most, whatever the
\* capacities and the number of faults.
THEOREM WorkOnce == Spec => []OneController
  <1>1. Typed /\ OneMark => OneController
    <2> SUFFICES ASSUME Typed, Rights <= 1 PROVE works <= 1
      BY DEF OneMark, OneController
    <2>1. Unasked \in Nat /\ InTodos \in Nat /\ InChans(chans) \in Nat /\ OnWires \in Nat /\ works \in Nat
      BY RightsType DEF InTodos, OnWires
    <2> QED
      BY <2>1 DEF Rights
  <1> QED
    BY <1>1, OneRight, PTL
=============================================================================
