------------------------- MODULE ChiefSettings_proofs -------------------------
(***************************************************************************)
(* Theorems about ChiefSettings, for every value of its bounds: the gRPC   *)
(* server of the OLDI providers (OldiGrpcServer) and the journal           *)
(* (RedisLogController), each as the chief drives it.                      *)
(***************************************************************************)
EXTENDS ChiefSettings, SequenceTheorems, TLAPS

(***************************************************************************)
(* The gRPC server.  As long as no address has changed while a start was   *)
(* under way, at most one start or server is there at a time, with a port  *)
(* from its Listen on, and from its flag on it is the c.grpcServer that    *)
(* the next settings stop.                                                 *)
(***************************************************************************)
Places == {"ended", "listen", "make", "serve", "serving"}
Ports  == {"none", "one", "other", "any"}

OfOneStart ==
  /\ grpcServer \in 0..MaxServers
  /\ grpcAddress \in Ports
  /\ servers \in [1..MaxServers -> [at : Places, port : Ports]]
  /\ \A i \in 1..MaxServers :
       /\ servers[i].at \in {"ended", "listen"} => servers[i].port = "none"
       /\ servers[i].at \in {"make", "serve", "serving"} => servers[i].port = grpcAddress
       /\ servers[i].at \in {"serve", "serving"} => grpcServer = i /\ grpsServed = TRUE
       /\ grpcAddress = "none" => servers[i].at = "ended"
  /\ \A i, j \in 1..MaxServers : i # j => servers[i].at = "ended" \/ servers[j].at = "ended"
  /\ grpcAddress # "none" => \E i \in 1..MaxServers : servers[i].at # "ended"

OneStart == ~overtaken => OfOneStart

LEMMA OneStartServes ==
  ASSUME OneStart
  PROVE  OneServer
  <1> SUFFICES ASSUME ~overtaken, Starting = {}, grpcAddress # "none"
               PROVE  \E i \in Listening : Listening = {i} /\ servers[i] = [at |-> "serving", port |-> grpcAddress]
    BY DEF OneServer
  <1>1. OfOneStart
    BY DEF OneStart
  <1>2. PICK i \in 1..MaxServers : servers[i].at # "ended"
    BY <1>1 DEF OfOneStart
  <1>3. DOMAIN servers = 1..MaxServers /\ servers[i] \in [at : Places, port : Ports]
    BY <1>1 DEF OfOneStart
  <1>4. servers[i].at = "serving"
    BY <1>2, <1>3 DEF Starting, Places
  <1>5. servers[i].port = grpcAddress
    BY <1>1, <1>4 DEF OfOneStart
  <1>6. servers[i] = [at |-> "serving", port |-> grpcAddress]
    BY <1>3, <1>4, <1>5
  <1>7. ASSUME NEW j \in 1..MaxServers, j # i
        PROVE  servers[j].port = "none"
    BY <1>1, <1>2, <1>7 DEF OfOneStart
  <1>8. Listening = {i}
    BY <1>3, <1>5, <1>7 DEF Listening
  <1> QED
    BY <1>6, <1>8

\* The settings change the port of a server at rest, which ends; the next starts.
LEMMA ChangeStartsOne ==
  ASSUME OneStart, NEW port \in Ports \ {"none"}, SettsChanged(port)
  PROVE  OneStart'
  <1> SUFFICES ASSUME ~overtaken'
               PROVE  OfOneStart'
    BY DEF OneStart
  <1>1. CASE port = grpcAddress
    BY <1>1 DEF SettsChanged, grpcVars, OneStart, OfOneStart
  <1>2. CASE port # grpcAddress
    <2>1. ~overtaken /\ Starting = {} /\ OfOneStart
      BY <1>2 DEF SettsChanged, OneStart
    <2> DEFINE f == CHOOSE i \in Free : TRUE
               left == IF grpsServed THEN StopGrpcServer ELSE servers
               start == [at |-> "listen", port |-> "none"]
    <2>2. /\ Free # {} /\ grpcAddress' = port /\ servers' = [left EXCEPT ![f] = start]
          /\ grpcServer' = IF grpsServed /\ grpcServer \in Serving THEN 0 ELSE grpcServer
      BY <1>2 DEF SettsChanged
    <2>3. f \in 1..MaxServers
      BY <2>1, <2>2 DEF Free, OfOneStart
    <2>4. \A i \in 1..MaxServers : servers[i].at \in {"ended", "serving"}
      BY <2>1 DEF OfOneStart, Starting, Places
    <2>5. left = [i \in 1..MaxServers |-> Ended]
      <3>1. \A i \in 1..MaxServers : servers[i].at = "ended" => servers[i] = Ended
        BY <2>1 DEF OfOneStart, Ended
      <3>2. \A i \in 1..MaxServers : servers[i].at = "serving" => grpcServer = i /\ grpsServed = TRUE
        BY <2>1 DEF OfOneStart
      <3>3. DOMAIN servers = 1..MaxServers /\ servers = [i \in 1..MaxServers |-> servers[i]]
        BY <2>1 DEF OfOneStart
      <3>4. CASE grpsServed = TRUE
        BY <2>4, <3>1, <3>2, <3>3, <3>4 DEF StopGrpcServer
      <3>5. CASE grpsServed # TRUE
        <4>1. \A i \in 1..MaxServers : servers[i] = Ended
          BY <2>4, <3>1, <3>2, <3>5
        <4>2. \A i \in 1..MaxServers : servers[i].at = "ended"
          BY <4>1 DEF Ended
        <4>3. StopGrpcServer = [i \in 1..MaxServers |-> Ended]
          BY <3>3, <4>1, <4>2 DEF StopGrpcServer
        <4>4. servers = [i \in 1..MaxServers |-> Ended]
          BY <3>3, <4>1
        <4> QED
          BY <4>3, <4>4
      <3> QED
        BY <3>4, <3>5
    <2>6. servers' = [i \in 1..MaxServers |-> IF i = f THEN start ELSE Ended]
      BY <2>2, <2>3, <2>5
    <2>7. grpcServer' \in 0..MaxServers
      BY <2>1, <2>2, GrpcAssumption DEF OfOneStart
    <2> HIDE DEF f
    <2>8. \A i \in 1..MaxServers : servers'[i] = IF i = f THEN [at |-> "listen", port |-> "none"]
                                                         ELSE [at |-> "ended", port |-> "none"]
      BY <2>6 DEF Ended
    <2>9. servers' \in [1..MaxServers -> [at : Places, port : Ports]]
      BY <2>6, <2>8 DEF Places, Ports
    <2> QED
      BY <2>2, <2>3, <2>7, <2>8, <2>9 DEF OfOneStart
  <1> QED
    BY <1>1, <1>2

\* The goroutine of a start: Listen, NewServer, Serve.
LEMMA StartGoesOn ==
  ASSUME OneStart, StartGrpcServer
  PROVE  OneStart'
  <1> SUFFICES ASSUME ~overtaken'
               PROVE  OfOneStart'
    BY DEF OneStart
  <1>1. PICK i \in DOMAIN servers : StartListen(i) \/ StartMake(i) \/ StartServe(i)
    BY DEF StartGrpcServer
  <1>2. OfOneStart
    BY <1>1 DEF OneStart, StartListen, StartMake, StartServe
  <1>3. i \in 1..MaxServers /\ \A j \in 1..MaxServers : servers[j] \in [at : Places, port : Ports]
    BY <1>1, <1>2 DEF OfOneStart
  <1>4. CASE StartListen(i)
    <2>1. servers[i].at = "listen" /\ grpcAddress # "none"
      BY <1>2, <1>3, <1>4 DEF StartListen, OfOneStart
    <2>2. \A j \in 1..MaxServers : j # i => servers[j].at = "ended" /\ servers[j].port = "none"
      BY <1>2, <1>3, <2>1 DEF OfOneStart
    <2>3. \A j \in DOMAIN servers : servers[j].port = "none"
      BY <1>2, <1>3, <2>1, <2>2 DEF OfOneStart
    <2>4. servers' = [servers EXCEPT ![i] = [at |-> "make", port |-> grpcAddress]]
      BY <1>4, <2>1, <2>3 DEF StartListen, Listening
    <2>5. grpcAddress' = grpcAddress /\ grpsServed' = grpsServed /\ grpcServer' = grpcServer
      BY <1>4 DEF StartListen
    <2>6. servers' \in [1..MaxServers -> [at : Places, port : Ports]]
      BY <1>2, <1>3, <2>4 DEF OfOneStart, Places
    <2> QED
      BY <1>2, <1>3, <2>1, <2>2, <2>4, <2>5, <2>6 DEF OfOneStart
  <1>5. CASE StartMake(i)
    <2>1. servers[i].at = "make" /\ servers[i].port = grpcAddress /\ grpcAddress # "none"
      BY <1>2, <1>3, <1>5 DEF StartMake, OfOneStart
    <2>2. \A j \in 1..MaxServers : j # i => servers[j].at = "ended"
      BY <1>2, <1>3, <2>1 DEF OfOneStart
    <2>3. servers' = [servers EXCEPT ![i] = [at |-> "serve", port |-> grpcAddress]]
      <3>1. servers' = [servers EXCEPT ![i].at = "serve"]
        BY <1>5, <2>1 DEF StartMake
      <3>2. [servers[i] EXCEPT !.at = "serve"] = [at |-> "serve", port |-> grpcAddress]
        BY <1>3, <2>1
      <3> QED
        BY <3>1, <3>2
    <2>4. grpcAddress' = grpcAddress /\ grpsServed' = TRUE /\ grpcServer' = i
      BY <1>5 DEF StartMake
    <2>5. servers' \in [1..MaxServers -> [at : Places, port : Ports]]
      BY <1>2, <1>3, <2>3 DEF OfOneStart, Places
    <2> QED
      BY <1>2, <1>3, <2>1, <2>2, <2>3, <2>4, <2>5 DEF OfOneStart
  <1>6. CASE StartServe(i)
    <2>1. /\ servers[i].at = "serve" /\ servers[i].port = grpcAddress /\ grpcAddress # "none"
          /\ grpcServer = i /\ grpsServed = TRUE
      BY <1>2, <1>3, <1>6 DEF StartServe, OfOneStart, Places
    <2>2. \A j \in 1..MaxServers : j # i => servers[j].at = "ended"
      BY <1>2, <1>3, <2>1 DEF OfOneStart
    <2>3. servers' = [servers EXCEPT ![i] = [at |-> "serving", port |-> grpcAddress]]
      <3>1. servers' = [servers EXCEPT ![i].at = "serving"]
        BY <1>6, <2>1 DEF StartServe
      <3>2. [servers[i] EXCEPT !.at = "serving"] = [at |-> "serving", port |-> grpcAddress]
        BY <1>3, <2>1
      <3> QED
        BY <3>1, <3>2
    <2>4. grpcAddress' = grpcAddress /\ grpsServed' = grpsServed /\ grpcServer' = grpcServer
      BY <1>6, <2>1 DEF StartServe
    <2>5. servers' \in [1..MaxServers -> [at : Places, port : Ports]]
      BY <1>2, <1>3, <2>3 DEF OfOneStart, Places
    <2> QED
      BY <1>2, <1>3, <2>1, <2>2, <2>3, <2>4, <2>5 DEF OfOneStart
  <1> QED
    BY <1>1, <1>4, <1>5, <1>6

LEMMA OneStartInit ==
  ASSUME Init
  PROVE  OneStart
  <1>1. servers = [i \in 1..MaxServers |-> [at |-> "ended", port |-> "none"]]
    BY DEF Init, InitGrpc, Ended
  <1>2. servers \in [1..MaxServers -> [at : Places, port : Ports]]
    BY <1>1 DEF Places, Ports
  <1>3. grpcServer \in 0..MaxServers /\ grpcAddress = "none"
    BY GrpcAssumption DEF Init, InitGrpc
  <1> QED
    BY <1>1, <1>2, <1>3 DEF OneStart, OfOneStart, Ports

LEMMA OneStartNext ==
  ASSUME OneStart, [Next]_vars
  PROVE  OneStart'
  <1>1. CASE OldiTake
    <2>1. PortOf(ChiefCfg) \in Ports \ {"none"}
      BY DEF PortOf, Ports
    <2> QED
      BY <1>1, <2>1, ChangeStartsOne DEF OldiTake
  <1>2. CASE StartGrpcServer
    BY <1>2, StartGoesOn
  <1>3. CASE UNCHANGED grpcVars
    BY <1>3 DEF grpcVars, OneStart, OfOneStart
  <1> QED
    BY <1>1, <1>2, <1>3
    DEF Next, vars, Worker, WorkerTake, TellOldi, TellLog, ChannelsTake, LogTake

\* The servers of the OLDI controller, whatever the settings do and in whichever
\* order they come: unless an address changed while a start was under way, exactly
\* one listens when the starts are over, on the address that the controller holds.
THEOREM ServerOfAddress == Spec => []OneServer
  <1>1. Init => OneStart
    BY OneStartInit
  <1>2. OneStart /\ [Next]_vars => OneStart'
    BY OneStartNext
  <1>3. OneStart => OneServer
    BY OneStartServes
  <1> QED
    BY <1>1, <1>2, <1>3, PTL DEF Spec

(***************************************************************************)
(* Sequences of numbers that rise, and sets of which one is below the      *)
(* other: what is said of an order is split into what is said of each part.*)
(***************************************************************************)
Rising(s)   == \A i, j \in DOMAIN s : i < j => s[i] < s[j]
Below(A, B) == \A a \in A, b \in B : a < b

LEMMA HeadThenTail ==
  ASSUME NEW S, NEW s \in Seq(S), s # <<>>
  PROVE  <<Head(s)>> \o Tail(s) = s
  <1>1. Head(s) \in S /\ Tail(s) \in Seq(S) /\ Len(Tail(s)) = Len(s) - 1
          /\ \A i \in 1..Len(Tail(s)) : Tail(s)[i] = s[i + 1]
    BY HeadTailProperties
  <1>2. Len(s) \in Nat \ {0}
    BY EmptySeq
  <1>3. <<Head(s)>> \in Seq(S) /\ Len(<<Head(s)>>) = 1 /\ <<Head(s)>>[1] = s[1]
    BY <1>1
  <1>4. /\ <<Head(s)>> \o Tail(s) \in Seq(S)
        /\ Len(<<Head(s)>> \o Tail(s)) = 1 + Len(Tail(s))
        /\ \A i \in 1..1 + Len(Tail(s)) :
             (<<Head(s)>> \o Tail(s))[i] = IF i <= 1 THEN <<Head(s)>>[i] ELSE Tail(s)[i - 1]
    BY <1>1, <1>3, ConcatProperties
  <1>5. \A i \in 1..Len(s) : (<<Head(s)>> \o Tail(s))[i] = s[i]
    BY <1>1, <1>2, <1>3, <1>4
  <1> QED
    BY <1>1, <1>2, <1>4, <1>5, SeqEqual

LEMMA RisingJoin ==
  ASSUME NEW s \in Seq(Nat), NEW t \in Seq(Nat)
  PROVE  /\ s \o t \in Seq(Nat)
         /\ ToSet(s \o t) = ToSet(s) \cup ToSet(t)
         /\ Rising(s \o t) <=> Rising(s) /\ Rising(t) /\ Below(ToSet(s), ToSet(t))
  <1> DEFINE u == s \o t
  <1>1. /\ u \in Seq(Nat) /\ Len(u) = Len(s) + Len(t)
        /\ \A i \in 1..Len(s) + Len(t) : u[i] = IF i <= Len(s) THEN s[i] ELSE t[i - Len(s)]
    BY ConcatProperties
  <1>2. /\ Len(s) \in Nat /\ Len(t) \in Nat /\ DOMAIN s = 1..Len(s) /\ DOMAIN t = 1..Len(t)
        /\ DOMAIN u = 1..Len(s) + Len(t)
    BY <1>1, LenProperties
  <1> HIDE DEF u
  <1>3. \A i \in 1..Len(s) : i \in DOMAIN u /\ u[i] = s[i]
    BY <1>1, <1>2
  <1>4. \A i \in 1..Len(t) : i + Len(s) \in DOMAIN u /\ u[i + Len(s)] = t[i]
    <2> SUFFICES ASSUME NEW i \in 1..Len(t)
                 PROVE  i + Len(s) \in DOMAIN u /\ u[i + Len(s)] = t[i]
      OBVIOUS
    <2>1. i + Len(s) \in 1..Len(s) + Len(t) /\ ~(i + Len(s) <= Len(s)) /\ (i + Len(s)) - Len(s) = i
      BY <1>2
    <2>2. u[i + Len(s)] = t[(i + Len(s)) - Len(s)]
      BY <1>1, <2>1
    <2> QED
      BY <1>2, <2>1, <2>2
  <1>5. \A i \in DOMAIN u : i \in 1..Len(s) \/ (i - Len(s) \in 1..Len(t) /\ i > Len(s))
    BY <1>2
  <1>6. ToSet(u) = ToSet(s) \cup ToSet(t)
    <2>1. ToSet(u) \subseteq ToSet(s) \cup ToSet(t)
      <3> SUFFICES ASSUME NEW i \in DOMAIN u
                   PROVE  u[i] \in ToSet(s) \cup ToSet(t)
        BY DEF ToSet
      <3>1. CASE i \in 1..Len(s)
        BY <1>2, <1>3, <3>1 DEF ToSet
      <3>2. CASE i - Len(s) \in 1..Len(t)
        <4>1. u[i] = t[i - Len(s)]
          BY <1>1, <1>2, <3>2
        <4> QED
          BY <1>2, <3>2, <4>1 DEF ToSet
      <3> QED
        BY <1>5, <3>1, <3>2
    <2>2. ToSet(s) \subseteq ToSet(u)
      BY <1>2, <1>3 DEF ToSet
    <2>3. ToSet(t) \subseteq ToSet(u)
      BY <1>2, <1>4 DEF ToSet
    <2> QED
      BY <2>1, <2>2, <2>3
  <1>7. ASSUME Rising(u)
        PROVE  Rising(s) /\ Rising(t) /\ Below(ToSet(s), ToSet(t))
    <2>1. Rising(s)
      BY <1>2, <1>3, <1>7 DEF Rising
    <2>2. Rising(t)
      <3> SUFFICES ASSUME NEW i \in 1..Len(t), NEW j \in 1..Len(t), i < j
                   PROVE  t[i] < t[j]
        BY <1>2 DEF Rising
      <3>1. i + Len(s) < j + Len(s)
        BY <1>2
      <3> QED
        BY <1>4, <1>7, <3>1 DEF Rising
    <2>3. Below(ToSet(s), ToSet(t))
      <3> SUFFICES ASSUME NEW i \in 1..Len(s), NEW j \in 1..Len(t)
                   PROVE  s[i] < t[j]
        BY <1>2 DEF Below, ToSet
      <3>1. i < j + Len(s)
        BY <1>2
      <3> QED
        BY <1>3, <1>4, <1>7, <3>1 DEF Rising
    <2> QED
      BY <2>1, <2>2, <2>3
  <1>8. ASSUME Rising(s), Rising(t), Below(ToSet(s), ToSet(t))
        PROVE  Rising(u)
    <2> SUFFICES ASSUME NEW i \in DOMAIN u, NEW j \in DOMAIN u, i < j
                 PROVE  u[i] < u[j]
      BY DEF Rising
    <2>1. CASE j \in 1..Len(s)
      <3>1. i \in 1..Len(s)
        BY <1>2, <2>1
      <3> QED
        BY <1>2, <1>3, <1>8, <2>1, <3>1 DEF Rising
    <2>2. CASE j - Len(s) \in 1..Len(t) /\ i \in 1..Len(s)
      <3>1. u[j] = t[j - Len(s)] /\ u[i] = s[i]
        BY <1>1, <1>2, <2>2
      <3>2. u[j] \in ToSet(t) /\ u[i] \in ToSet(s)
        BY <1>2, <2>2, <3>1 DEF ToSet
      <3> QED
        BY <1>8, <3>2 DEF Below
    <2>3. CASE i - Len(s) \in 1..Len(t) /\ i > Len(s)
      <3>1. j - Len(s) \in 1..Len(t) /\ i - Len(s) < j - Len(s)
        BY <1>2, <2>3
      <3>2. u[j] = t[j - Len(s)]
        BY <1>1, <1>2, <2>3, <3>1
      <3>3. u[i] = t[i - Len(s)]
        BY <1>1, <1>2, <2>3
      <3> QED
        BY <1>2, <1>8, <2>3, <3>1, <3>2, <3>3 DEF Rising
    <2> QED
      BY <1>5, <2>1, <2>2, <2>3
  <1> QED
    BY <1>1, <1>6, <1>7, <1>8 DEF u

\* A cut after n elements.
LEMMA RisingCut ==
  ASSUME NEW s \in Seq(Nat), NEW n \in 0..Len(s)
  PROVE  /\ SubSeq(s, 1, n) \in Seq(Nat) /\ SubSeq(s, n + 1, Len(s)) \in Seq(Nat)
         /\ ToSet(s) = ToSet(SubSeq(s, 1, n)) \cup ToSet(SubSeq(s, n + 1, Len(s)))
         /\ Rising(s) => /\ Rising(SubSeq(s, 1, n)) /\ Rising(SubSeq(s, n + 1, Len(s)))
                         /\ Below(ToSet(SubSeq(s, 1, n)), ToSet(SubSeq(s, n + 1, Len(s))))
  <1>1. Len(s) \in Nat /\ \A i \in 1..Len(s) : s[i] \in Nat
    BY LenProperties, ElementOfSeq
  <1> DEFINE p == SubSeq(s, 1, n)
             r == SubSeq(s, n + 1, Len(s))
  <1>2. p \in Seq(Nat) /\ r \in Seq(Nat)
    BY <1>1, SubSeqProperties
  <1>3. p \o r = s
    <2>1. 1 \in 1..Len(s) + 1 /\ n \in 1 - 1..Len(s) /\ Len(s) \in n..Len(s)
      BY <1>1
    <2>2. p \o r = SubSeq(s, 1, Len(s))
      BY <2>1, ConcatAdjacentSubSeq
    <2> QED
      BY <2>2, SubSeqFull
  <1> HIDE DEF p, r
  <1>4. /\ ToSet(s) = ToSet(p) \cup ToSet(r)
        /\ Rising(s) <=> Rising(p) /\ Rising(r) /\ Below(ToSet(p), ToSet(r))
    BY <1>2, <1>3, RisingJoin
  <1> QED
    BY <1>2, <1>4 DEF p, r

LEMMA OneElement ==
  ASSUME NEW m \in Nat
  PROVE  <<m>> \in Seq(Nat) /\ ToSet(<<m>>) = {m} /\ Rising(<<m>>)
  <1>1. <<m>> \in Seq(Nat) /\ DOMAIN <<m>> = {1} /\ <<m>>[1] = m
    OBVIOUS
  <1> QED
    BY <1>1 DEF ToSet, Rising

\* The number in front, and those behind it.
LEMMA RisingHead ==
  ASSUME NEW s \in Seq(Nat), s # <<>>
  PROVE  /\ Head(s) \in Nat /\ Tail(s) \in Seq(Nat)
         /\ ToSet(s) = {Head(s)} \cup ToSet(Tail(s))
         /\ Rising(s) => Rising(Tail(s)) /\ Below({Head(s)}, ToSet(Tail(s)))
  <1>1. Head(s) \in Nat /\ Tail(s) \in Seq(Nat) /\ <<Head(s)>> \o Tail(s) = s
    BY HeadTailProperties, HeadThenTail
  <1>2. <<Head(s)>> \in Seq(Nat) /\ ToSet(<<Head(s)>>) = {Head(s)}
    BY <1>1, OneElement
  <1>3. /\ ToSet(<<Head(s)>> \o Tail(s)) = ToSet(<<Head(s)>>) \cup ToSet(Tail(s))
        /\ Rising(<<Head(s)>> \o Tail(s)) => Rising(Tail(s)) /\ Below(ToSet(<<Head(s)>>), ToSet(Tail(s)))
    BY <1>1, <1>2, RisingJoin
  <1> QED
    BY <1>1, <1>2, <1>3

\* A later number behind them.
LEMMA RisingAppend ==
  ASSUME NEW s \in Seq(Nat), NEW m \in Nat
  PROVE  /\ Append(s, m) \in Seq(Nat) /\ ToSet(Append(s, m)) = ToSet(s) \cup {m}
         /\ Rising(Append(s, m)) <=> Rising(s) /\ Below(ToSet(s), {m})
  <1>1. Append(s, m) = s \o <<m>> /\ Append(s, m) \in Seq(Nat)
    BY AppendIsConcat, AppendProperties
  <1>2. <<m>> \in Seq(Nat) /\ ToSet(<<m>>) = {m} /\ Rising(<<m>>)
    BY OneElement
  <1>3. /\ ToSet(s \o <<m>>) = ToSet(s) \cup ToSet(<<m>>)
        /\ Rising(s \o <<m>>) <=> Rising(s) /\ Rising(<<m>>) /\ Below(ToSet(s), ToSet(<<m>>))
    BY <1>2, RisingJoin
  <1> QED
    BY <1>1, <1>2, <1>3

LEMMA EmptyRises == <<>> \in Seq(Nat) /\ ToSet(<<>>) = {} /\ Rising(<<>>)
  BY DEF ToSet, Rising

(***************************************************************************)
(* The journal.  Each of its three places rises, and all that is in one is *)
(* logged before all that is in the next.                                  *)
(***************************************************************************)
\* All that was logged is in one of the three, or lost in a way that is known.
Ordered ==
  /\ Rising(stream) /\ Rising(msgToSend) /\ Rising(LogMsgChan)
  /\ Below(ToSet(stream), ToSet(msgToSend))
  /\ Below(ToSet(stream), ToSet(LogMsgChan))
  /\ Below(ToSet(msgToSend), ToSet(LogMsgChan))

Complete ==
  /\ ToSet(stream) \cup ToSet(msgToSend) \cup ToSet(LogMsgChan) \subseteq 1..logged
  /\ 1..logged \subseteq ToSet(stream) \cup ToSet(msgToSend) \cup ToSet(LogMsgChan) \cup dropped \cup failed

Numbers ==
  /\ logged \in Nat
  /\ stream \in Seq(Nat) /\ msgToSend \in Seq(Nat) /\ LogMsgChan \in Seq(Nat)

JournalInOrder == Numbers /\ Ordered /\ Complete

LEMMA LogsInOrder ==
  ASSUME JournalInOrder, Logs
  PROVE  JournalInOrder'
  <1>1. logged \in Nat /\ logged' = logged + 1 /\ logged' \in Nat /\ 1..logged' = 1..logged \cup {logged'}
    BY DEF JournalInOrder, Numbers, Logs
  <1>2. /\ stream' = stream /\ msgToSend' = msgToSend /\ dropped' = dropped /\ failed' = failed
        /\ LogMsgChan' = Append(LogMsgChan, logged')
    BY <1>1 DEF Logs
  <1>3. /\ LogMsgChan' \in Seq(Nat) /\ ToSet(LogMsgChan') = ToSet(LogMsgChan) \cup {logged'}
        /\ Rising(LogMsgChan') <=> Rising(LogMsgChan) /\ Below(ToSet(LogMsgChan), {logged'})
    <2>1. LogMsgChan \in Seq(Nat)
      BY DEF JournalInOrder, Numbers
    <2> QED
      BY <1>1, <1>2, <2>1, RisingAppend
  <1>4. \A m \in ToSet(stream) \cup ToSet(msgToSend) \cup ToSet(LogMsgChan) : m < logged'
    BY <1>1 DEF JournalInOrder, Complete
  <1>5. Numbers'
    BY <1>1, <1>2, <1>3 DEF JournalInOrder, Numbers
  <1>6. Ordered'
    BY <1>2, <1>3, <1>4 DEF JournalInOrder, Ordered, Below
  <1>7. Complete'
    BY <1>1, <1>2, <1>3 DEF JournalInOrder, Complete
  <1> QED
    BY <1>5, <1>6, <1>7 DEF JournalInOrder

LEMMA TakeLogInOrder ==
  ASSUME JournalInOrder, TakeLog
  PROVE  JournalInOrder'
  <1> DEFINE m == Head(LogMsgChan)
  <1>1. LogMsgChan # <<>> /\ LogMsgChan' = Tail(LogMsgChan) /\ logged' = logged /\ stream' = stream /\ failed' = failed
    BY DEF TakeLog
  <1>2. /\ m \in Nat /\ LogMsgChan' \in Seq(Nat) /\ ToSet(LogMsgChan) = {m} \cup ToSet(LogMsgChan')
        /\ Rising(LogMsgChan) => Rising(LogMsgChan') /\ Below({m}, ToSet(LogMsgChan'))
    <2>1. LogMsgChan \in Seq(Nat)
      BY DEF JournalInOrder, Numbers
    <2> QED
      BY <1>1, <2>1, RisingHead
  <1>3. \/ msgToSend' = Append(msgToSend, m) /\ dropped' = dropped
        \/ msgToSend' = msgToSend /\ dropped' = dropped \cup {m}
    BY DEF TakeLog
  <1> HIDE DEF m
  <1>4. CASE msgToSend' = Append(msgToSend, m) /\ dropped' = dropped
    <2>1. /\ msgToSend' \in Seq(Nat) /\ ToSet(msgToSend') = ToSet(msgToSend) \cup {m}
          /\ Rising(msgToSend') <=> Rising(msgToSend) /\ Below(ToSet(msgToSend), {m})
      <3>1. msgToSend \in Seq(Nat)
        BY DEF JournalInOrder, Numbers
      <3> QED
        BY <1>2, <1>4, <3>1, RisingAppend
    <2>2. Numbers'
      BY <1>1, <1>2, <2>1 DEF JournalInOrder, Numbers
    <2>3. Ordered'
      BY <1>1, <1>2, <2>1 DEF JournalInOrder, Ordered, Below
    <2>4. Complete'
      BY <1>1, <1>2, <1>4, <2>1 DEF JournalInOrder, Complete
    <2> QED
      BY <2>2, <2>3, <2>4 DEF JournalInOrder
  <1>5. CASE msgToSend' = msgToSend /\ dropped' = dropped \cup {m}
    <2>1. Numbers'
      BY <1>1, <1>2, <1>5 DEF JournalInOrder, Numbers
    <2>2. Ordered'
      BY <1>1, <1>2, <1>5 DEF JournalInOrder, Ordered, Below
    <2>3. Complete'
      BY <1>1, <1>2, <1>5 DEF JournalInOrder, Complete
    <2> QED
      BY <2>1, <2>2, <2>3 DEF JournalInOrder
  <1> QED
    BY <1>3, <1>4, <1>5

LEMMA SendTickInOrder ==
  ASSUME JournalInOrder, SendTick
  PROVE  JournalInOrder'
  <1> DEFINE n == SendCount
             batch == SubSeq(msgToSend, 1, n)
             rest == SubSeq(msgToSend, n + 1, Len(msgToSend))
  <1>1. /\ msgToSend' = rest /\ PushLogsToStream(batch)
        /\ logged' = logged /\ LogMsgChan' = LogMsgChan /\ dropped' = dropped
    BY DEF SendTick
  <1>2. stream \in Seq(Nat) /\ msgToSend \in Seq(Nat) /\ Len(msgToSend) \in Nat
    BY LenProperties DEF JournalInOrder, Numbers
  <1>3. n \in 0..Len(msgToSend)
    BY <1>2, RedisLogAssumption DEF SendCount
  <1> HIDE DEF n
  <1>4. /\ batch \in Seq(Nat) /\ rest \in Seq(Nat) /\ ToSet(msgToSend) = ToSet(batch) \cup ToSet(rest)
        /\ Rising(msgToSend) => Rising(batch) /\ Rising(rest) /\ Below(ToSet(batch), ToSet(rest))
    BY <1>2, <1>3, RisingCut
  <1> HIDE DEF batch, rest
  <1>5. PICK pushed \in Seq(Nat) :
          /\ stream' = stream \o pushed /\ ToSet(pushed) \subseteq ToSet(batch) /\ (Rising(batch) => Rising(pushed))
          /\ \/ failed' = failed /\ ToSet(pushed) = ToSet(batch)
             \/ failed' = failed \cup ToSet(batch)
    <2>1. CASE stream' = stream \o batch /\ failed' = failed
      BY <1>4, <2>1
    <2>2. ASSUME NEW k \in 0..Len(batch), stream' = stream \o SubSeq(batch, 1, k), failed' = failed \cup ToSet(batch)
          PROVE  \E pushed \in Seq(Nat) :
                   /\ stream' = stream \o pushed /\ ToSet(pushed) \subseteq ToSet(batch) /\ (Rising(batch) => Rising(pushed))
                   /\ failed' = failed \cup ToSet(batch)
      <3> DEFINE part == SubSeq(batch, 1, k)
      <3>1. part \in Seq(Nat) /\ ToSet(part) \subseteq ToSet(batch) /\ (Rising(batch) => Rising(part))
        BY <1>4, RisingCut
      <3> HIDE DEF part
      <3> QED
        BY <2>2, <3>1 DEF part
    <2> QED
      BY <1>1, <2>1, <2>2 DEF PushLogsToStream
  <1>6. /\ stream' \in Seq(Nat) /\ ToSet(stream') = ToSet(stream) \cup ToSet(pushed)
        /\ Rising(stream') <=> Rising(stream) /\ Rising(pushed) /\ Below(ToSet(stream), ToSet(pushed))
    BY <1>2, <1>5, RisingJoin
  <1>7. Numbers'
    BY <1>1, <1>4, <1>6 DEF JournalInOrder, Numbers
  <1>8. Ordered'
    BY <1>1, <1>4, <1>5, <1>6 DEF JournalInOrder, Ordered, Below
  <1>9. Complete'
    BY <1>1, <1>4, <1>5, <1>6 DEF JournalInOrder, Complete
  <1> QED
    BY <1>7, <1>8, <1>9 DEF JournalInOrder

LEMMA JournalInOrderNext ==
  ASSUME JournalInOrder, [Next]_vars
  PROVE  JournalInOrder'
  <1>1. CASE UNCHANGED <<logged, stream, msgToSend, LogMsgChan, dropped, failed>>
    BY <1>1 DEF JournalInOrder, Numbers, Ordered, Complete
  <1>2. CASE LogTake
    BY <1>1, <1>2 DEF LogTake, RedisSettings
  <1>3. CASE UNCHANGED redisVars
    BY <1>1, <1>3 DEF redisVars
  <1>4. CASE RunNext
    <2>1. CASE EditRedisFile \/ TakeSetts
      BY <1>1, <2>1 DEF EditRedisFile, TakeSetts
    <2> QED
      BY <1>4, <2>1, LogsInOrder, TakeLogInOrder, SendTickInOrder DEF RunNext
  <1> QED
    BY <1>2, <1>3, <1>4
    DEF Next, vars, Worker, WorkerTake, TellOldi, TellLog, ChannelsTake, OldiTake

\* The way of the journal as one sequence.
LEMMA JournalInOrderKept ==
  ASSUME JournalInOrder
  PROVE  JournalKept
  <1> DEFINE front == stream \o msgToSend
             way == front \o LogMsgChan
  <1>1. stream \in Seq(Nat) /\ msgToSend \in Seq(Nat) /\ LogMsgChan \in Seq(Nat)
    BY DEF JournalInOrder, Numbers
  <1>2. front \in Seq(Nat) /\ ToSet(front) = ToSet(stream) \cup ToSet(msgToSend) /\ Rising(front)
    BY <1>1, RisingJoin DEF JournalInOrder, Ordered
  <1> HIDE DEF front
  <1>3. ToSet(way) = ToSet(front) \cup ToSet(LogMsgChan) /\ Rising(way)
    <2>1. Below(ToSet(front), ToSet(LogMsgChan))
      BY <1>2 DEF JournalInOrder, Ordered, Below
    <2> QED
      BY <1>1, <1>2, <2>1, RisingJoin DEF JournalInOrder, Ordered
  <1> HIDE DEF way
  <1>4. \A i, j \in DOMAIN way : i < j => way[i] < way[j]
    BY <1>3 DEF Rising
  <1>5. \A m \in 1..logged : m \in ToSet(way) \cup dropped \cup failed
    BY <1>2, <1>3 DEF JournalInOrder, Complete
  <1> QED
    BY <1>4, <1>5 DEF JournalKept, way, front

LEMMA JournalInOrderInit ==
  ASSUME Init
  PROVE  JournalInOrder
  <1>1. logged = 0 /\ stream = <<>> /\ msgToSend = <<>> /\ LogMsgChan = <<>>
    BY DEF Init, InitRedis
  <1> QED
    BY <1>1, EmptyRises DEF JournalInOrder, Numbers, Ordered, Complete, Below

\* The journal of the chief, whatever the queue, the batches, the settings and the
\* server do: what reached the stream is in the order in which it was logged, each
\* message once, and one that is nowhere was dropped at the full queue or went
\* with a batch that failed.
THEOREM JournalOrder == Spec => []JournalKept
  <1>1. Init => JournalInOrder
    BY JournalInOrderInit
  <1>2. JournalInOrder /\ [Next]_vars => JournalInOrder'
    BY JournalInOrderNext
  <1>3. JournalInOrder => JournalKept
    BY JournalInOrderKept
  <1> QED
    BY <1>1, <1>2, <1>3, PTL DEF Spec
=============================================================================
