---------------------------- MODULE TransferProofs ----------------------------
(*****************************************************************************)
(* Proofs about the transfers of MCClients, for every value of its           *)
(* constants: the sockets and requests of curl_client, and the calls of      *)
(* gRPC.  What is proved of a client by itself holds of its behaviours here, *)
(* since the others do not touch its variables.                              *)
(*****************************************************************************)
EXTENDS MCClients, SequenceTheorems, FiniteSetTheorems, TLAPS

\* A step while one client is running is a step of that client.
LEMMA StepOfPart ==
    ASSUME [Next]_vars
    PROVE  /\ part' = part
           /\ part = "curl" => [Curl!Next]_Curl!vars
           /\ part = "sockets" => [Socks!Next]_Socks!vars
           /\ part = "rpc" => [Rpc!Next]_Rpc!vars
<1> USE DEF Next, InCurl, InSocks, InPq, InLite, InStmt, InSetting, InRpc, InMysql, InRedis
<1>1. part' = part
  BY DEF OthersStay, vars
<1>2. part = "curl" => [Curl!Next]_Curl!vars
  BY DEF vars, Curl!vars
<1>3. part = "sockets" => [Socks!Next]_Socks!vars
  BY DEF vars, Socks!vars
<1>4. part = "rpc" => [Rpc!Next]_Rpc!vars
  BY DEF vars, Rpc!vars
<1> QED
  BY <1>1, <1>2, <1>3, <1>4

-----------------------------------------------------------------------------
(* The sockets of curl_client. *)

\* What socket callbacks keep, of the members they change and the handlers about to run: an entry
\* without id wants nothing, every act of an entry has its wait, and the acts of a socket that is held
\* are those curl polls it for.
Covered(o, f) ==
    /\ o.sds \in [Sockets -> [id : Nat, acts : SUBSET Socks!Acts]]
    /\ o.idSeq \in Nat
    /\ o.polled \in [Sockets -> SUBSET Socks!Acts] /\ o.unheld \in SUBSET Sockets
    /\ \A s \in Sockets : o.sds[s].id = 0 => o.sds[s].acts = {}
    /\ \A s \in Sockets : \A a \in o.sds[s].acts : <<s, o.sds[s].id, a>> \in o.waits \cup f
    /\ \A s \in Sockets : IF s \in o.unheld THEN o.sds[s].id = 0 ELSE o.polled[s] = o.sds[s].acts

SocksInv == Covered(Socks!Io, fired)

\* The members that socket callbacks change
Rec(p) == p = [sds |-> p.sds, idSeq |-> p.idSeq, waits |-> p.waits, polled |-> p.polled, unheld |-> p.unheld]

\* multi_sock_cb() keeps it, whether the socket is new, known or removed.
LEMMA SockCbCovers ==
    ASSUME NEW o, NEW f, Covered(o, f), Rec(o), NEW s \in Sockets, NEW acts \in SUBSET Socks!Acts
    PROVE  Covered(Socks!SockCb(o, s, acts), f) /\ Rec(Socks!SockCb(o, s, acts))
<1> DEFINE p == Socks!SockCb(o, s, acts)
           o2 == [o EXCEPT !.polled[s] = acts, !.unheld = @ \ {s}]
           id == IF o.sds[s].id = 0 THEN o.idSeq + 1 ELSE o.sds[s].id
           had == IF o.sds[s].id = 0 THEN {} ELSE o.sds[s].acts
<1>0. /\ Rec(o2) /\ o2.sds = o.sds /\ o2.idSeq = o.idSeq /\ o2.waits = o.waits
      /\ o2.polled = [o.polled EXCEPT ![s] = acts] /\ o2.unheld = o.unheld \ {s}
  <2> DEFINE pl == [o.polled EXCEPT ![s] = acts]
             un == o.unheld \ {s}
  <2>1. o = [sds |-> o.sds, idSeq |-> o.idSeq, waits |-> o.waits, polled |-> o.polled, unheld |-> o.unheld]
    BY DEF Rec
  <2>2. o2 = [o EXCEPT !.polled = pl, !.unheld = un]
    BY <2>1
  <2> HIDE DEF pl, un, o2
  <2>3. o2 = [sds |-> o.sds, idSeq |-> o.idSeq, waits |-> o.waits, polled |-> pl, unheld |-> un]
    BY <2>1, <2>2
  <2> QED
    BY <2>3 DEF Rec, pl, un
<1>1. CASE acts = {}
  <2>1. p = [o2 EXCEPT !.sds[s] = Socks!NoEntry, !.waits = {w \in @ : w[1] # s}]
    BY <1>1 DEF Socks!SockCb
  <2> HIDE DEF p, o2
  <2>2. /\ Rec(p)
        /\ p.sds = [o.sds EXCEPT ![s] = Socks!NoEntry]
        /\ p.idSeq = o.idSeq
        /\ p.waits = {w \in o.waits : w[1] # s}
        /\ p.polled = [o.polled EXCEPT ![s] = acts] /\ p.unheld = o.unheld \ {s}
    BY <1>0, <2>1 DEF Rec
  <2>3. Covered(p, f)
    BY <1>1, <2>2 DEF Covered, Socks!NoEntry
  <2> QED
    BY <2>2, <2>3 DEF p
<1>2. CASE acts # {}
  <2> DEFINE sd == IF o.sds[s].id = 0 THEN [Socks!NoEntry EXCEPT !.id = o.idSeq + 1] ELSE o.sds[s]
  <2>5. sd = [id |-> id, acts |-> had]
    BY DEF Socks!NoEntry, Covered
  <2>6. p = [o2 EXCEPT !.sds[s] = [sd EXCEPT !.acts = acts],
                       !.idSeq = IF o.sds[s].id = 0 THEN @ + 1 ELSE @,
                       !.waits = @ \cup {<<s, sd.id, a>> : a \in acts \ sd.acts}]
    BY <1>2 DEF Socks!SockCb
  <2>7. o.idSeq \in Nat
    BY DEF Covered
  <2> HIDE DEF sd, id, had, o2, p
  <2>8. [sd EXCEPT !.acts = acts] = [id |-> id, acts |-> acts] /\ sd.id = id /\ sd.acts = had
    BY <2>5
  <2>1. /\ Rec(p)
        /\ p.sds = [o.sds EXCEPT ![s] = [id |-> id, acts |-> acts]]
        /\ p.idSeq \in Nat
        /\ p.waits = o.waits \cup {<<s, id, a>> : a \in acts \ had}
        /\ p.polled = [o.polled EXCEPT ![s] = acts] /\ p.unheld = o.unheld \ {s}
    <3> DEFINE sq == IF o.sds[s].id = 0 THEN o2.idSeq + 1 ELSE o2.idSeq
               ws == o2.waits \cup {<<s, sd.id, a>> : a \in acts \ sd.acts}
               ss == [o2.sds EXCEPT ![s] = [sd EXCEPT !.acts = acts]]
    <3>1. o2 = [sds |-> o2.sds, idSeq |-> o2.idSeq, waits |-> o2.waits, polled |-> o2.polled, unheld |-> o2.unheld]
      BY <1>0 DEF Rec
    <3>2. p = [o2 EXCEPT !.sds = ss, !.idSeq = sq, !.waits = ws]
      BY <2>6, <3>1
    <3>3. /\ sq \in Nat /\ ss = [o.sds EXCEPT ![s] = [id |-> id, acts |-> acts]]
          /\ ws = o.waits \cup {<<s, id, a>> : a \in acts \ had}
      BY <1>0, <2>7, <2>8
    <3> HIDE DEF sq, ws, ss
    <3>4. p = [sds |-> ss, idSeq |-> sq, waits |-> ws, polled |-> o2.polled, unheld |-> o2.unheld]
      BY <3>1, <3>2
    <3> QED
      BY <1>0, <3>3, <3>4 DEF Rec
  <2>2. id \in Nat /\ id # 0
    BY DEF Covered, id
  <2>3. \A a \in had : <<s, id, a>> \in o.waits \cup f
    BY DEF Covered, id, had
  <2>4. Covered(p, f)
    BY <2>1, <2>2, <2>3 DEF Covered
  <2> QED
    BY <2>1, <2>4 DEF p
<1> QED
  BY <1>1, <1>2

\* So it does when a new socket cannot be assigned: there is no entry.
LEMMA AssignFailsCovers ==
    ASSUME NEW o, NEW f, Covered(o, f), Rec(o), NEW s \in Sockets, NEW acts \in SUBSET Socks!Acts, o.sds[s].id = 0
    PROVE  Covered(Socks!AssignFails(o, s, acts), f)
<1> DEFINE p == Socks!AssignFails(o, s, acts)
<1>1. /\ p.sds = o.sds /\ p.idSeq = o.idSeq /\ p.waits = o.waits
      /\ p.polled = [o.polled EXCEPT ![s] = acts] /\ p.unheld = o.unheld \cup {s}
  BY DEF Socks!AssignFails, Rec
<1> HIDE DEF p
<1>2. Covered(p, f)
  BY <1>1 DEF Covered
<1> QED
  BY <1>2 DEF p

\* So does any call into curl.
LEMMA SockCallsCover ==
    ASSUME SocksInv, NEW o \in Socks!SockCalls(Socks!Io)
    PROVE  Covered(o, fired)
<1> DEFINE Io == Socks!Io
<1>1. Covered(Io, fired) /\ Rec(Io)
  BY DEF SocksInv, Socks!Io, Rec
<1> HIDE DEF Io
<1>2. ASSUME NEW p, Covered(p, fired), Rec(p), NEW q \in Socks!OneSockCall(p)
      PROVE  Covered(q, fired)
  <2>1. ASSUME NEW s \in Sockets, q = Socks!SockCb(p, s, {}) PROVE Covered(q, fired)
    <3>1. {} \in SUBSET Socks!Acts
      OBVIOUS
    <3> QED
      BY <1>2, <2>1, <3>1, SockCbCovers
  <2>2. ASSUME NEW s \in Sockets, NEW acts \in SUBSET Socks!Acts, q = Socks!SockCb(p, s, acts) PROVE Covered(q, fired)
    BY <1>2, <2>2, SockCbCovers
  <2>3. ASSUME NEW s \in Sockets, p.sds[s].id = 0, NEW acts \in SUBSET Socks!Acts, q = Socks!AssignFails(p, s, acts)
        PROVE  Covered(q, fired)
    BY <1>2, <2>3, AssignFailsCovers
  <2> QED
    BY <1>2, <2>1, <2>2, <2>3 DEF Socks!OneSockCall
<1>3. ASSUME NEW s \in Sockets
      PROVE  Covered(Socks!SockCb(Io, s, {}), fired) /\ Rec(Socks!SockCb(Io, s, {}))
  <2>1. {} \in SUBSET Socks!Acts
    OBVIOUS
  <2> QED
    BY <1>1, <2>1, SockCbCovers
<1> QED
  BY <1>1, <1>2, <1>3 DEF Socks!SockCalls, Io

\* At first curl has no sockets.
LEMMA SocksInit == Socks!Init => SocksInv
  BY DEF Socks!Init, SocksInv, Covered, Socks!Io, Socks!NoEntry

\* A handler runs and waits on, gives the socket up, or leaves curl without transfers.
LEMMA SocksStep == SocksInv /\ [Socks!Next]_Socks!vars => SocksInv'
<1> SUFFICES ASSUME SocksInv, [Socks!Next]_Socks!vars PROVE SocksInv'
  OBVIOUS
<1>1. ASSUME NEW o \in Socks!SockCalls(Socks!Io), Socks!Called(o), waits' = o.waits, UNCHANGED fired
      PROVE  SocksInv'
  BY <1>1, SockCallsCover DEF SocksInv, Covered, Socks!Io, Socks!Called
<1>2. ASSUME NEW l \in BOOLEAN, Socks!AddOrRemove(l) PROVE SocksInv'
  BY <1>1, <1>2 DEF Socks!AddOrRemove
<1>3. CASE Socks!TimerAction
  BY <1>1, <1>3 DEF Socks!TimerAction
<1>4. ASSUME NEW w \in Sockets \X (1..MaxId) \X Socks!Acts, Socks!Fire(w) PROVE SocksInv'
  BY <1>4 DEF Socks!Fire, SocksInv, Covered, Socks!Io
<1>5. ASSUME NEW w \in Sockets \X (1..MaxId) \X Socks!Acts, Socks!ProcessIo(w) PROVE SocksInv'
  <2>1. PICK o \in Socks!SockCalls(Socks!Io), k \in {kick, TRUE}, l \in {live, FALSE} :
            /\ Socks!Attended(o, k, l)
            /\ Socks!Called(o)
            /\ waits' = IF l THEN Socks!Continue(o, w) ELSE o.waits
    BY <1>5 DEF Socks!ProcessIo
  <2>2. Covered(o, fired)
    BY SockCallsCover
  <2>3. fired' = fired \ {w} /\ w = <<w[1], w[2], w[3]>>
    BY <1>5 DEF Socks!ProcessIo
  <2>4. ASSUME NEW s \in Sockets, NEW a \in o.sds[s].acts
        PROVE  <<s, o.sds[s].id, a>> \in waits' \cup fired'
    <3>1. <<s, o.sds[s].id, a>> \in o.waits \cup fired
      BY <2>2 DEF Covered
    <3>2. l
      <4>1. o.polled[s] # {}
        BY <2>2 DEF Covered
      <4> QED
        BY <2>1, <4>1 DEF Socks!Attended
    <3>3. CASE <<s, o.sds[s].id, a>> = w
      BY <3>2, <3>3, <2>1 DEF Socks!Continue
    <3>4. CASE <<s, o.sds[s].id, a>> # w
      BY <3>1, <3>2, <3>4, <2>1, <2>3 DEF Socks!Continue
    <3> QED
      BY <3>3, <3>4
  <2>5. sds' = o.sds /\ idSeq' = o.idSeq /\ polled' = o.polled /\ unheld' = o.unheld
    BY <2>1 DEF Socks!Called
  <2> QED
    BY <2>2, <2>4, <2>5 DEF SocksInv, Covered, Socks!Io
<1>6. ASSUME NEW w \in Sockets \X (1..MaxId) \X Socks!Acts, Socks!ProcessIoError(w) PROVE SocksInv'
  <2>1. PICK o \in Socks!SockCalls(Socks!Io) :
            /\ o.sds[w[1]].id # w[2]
            /\ sds' = o.sds /\ idSeq' = o.idSeq /\ waits' = o.waits
            /\ polled' = o.polled /\ unheld' = o.unheld
    BY <1>6 DEF Socks!ProcessIoError, Socks!Called
  <2>2. Covered(o, fired)
    BY SockCallsCover
  <2>3. fired' = fired \ {w}
    BY <1>6 DEF Socks!ProcessIoError
  <2>4. ASSUME NEW s \in Sockets, NEW a \in o.sds[s].acts
        PROVE  <<s, o.sds[s].id, a>> # w
    BY <2>1
  <2> QED
    BY <2>1, <2>2, <2>3, <2>4 DEF SocksInv, Covered, Socks!Io
<1>7. CASE UNCHANGED Socks!vars
  BY <1>7 DEF Socks!vars, SocksInv, Covered, Socks!Io
<1> QED
  BY <1>2, <1>3, <1>4, <1>5, <1>6, <1>7 DEF Socks!Next

-----------------------------------------------------------------------------
(* Requests over curl. *)

\* A request that is stopped while it is paused may be resumed twice; reads that pause are not stopped.
PausesUnstopped == \A u \in Uses : \A a \in Requests : ~({"pieces", "stop"} \subseteq u[a].ways)

LifeStates == {"reseted", "running", "paused", "finished"}
Outcomes   == {"ok", "failed", "canceled"}
PauseKinds == {"none", "hd", "wd"}
ReadKinds  == {"hd", "wd", "hd_until_wd", "wd_until_hd", "hd_wd"}
Places     == {"idle", "register", "lock", "waiting", "resumed"}
StopStates == {"none", "armed", "called", "ran"}
Sources    == {"ioc", "done", "stop"}

ReqType ==
    [ways : SUBSET Curl!Ways, left : Nat, state : LifeStates, st : LifeStates, cont : BOOLEAN, ec : Outcomes,
     pauseType : PauseKinds, used : Nat, rt : ReadKinds, room : Nat, armed : BOOLEAN, pc : Places,
     stop : BOOLEAN, scb : StopStates, pos : Nat \ {0}, at : Nat, inOrder : BOOLEAN, odd : SUBSET Curl!Oddities]

\* The values the steps assign, for proofs that leave the sets as they are
LEMMA CurlValues ==
    /\ {"reseted", "running", "paused", "finished"} \subseteq LifeStates
    /\ {"ok", "failed", "canceled"} \subseteq Outcomes /\ {"none", "hd", "wd"} \subseteq PauseKinds
    /\ "hd_wd" \in ReadKinds /\ {"none", "armed", "called", "ran"} \subseteq StopStates
    /\ {"idle", "register", "lock", "waiting", "resumed"} \subseteq Places
    /\ {"ioc", "done", "stop"} \subseteq Sources
    /\ {"cut", "refused", "twice", "stranded"} \subseteq Curl!Oddities
  BY DEF LifeStates, Outcomes, PauseKinds, ReadKinds, Places, StopStates, Sources, Curl!Oddities

\* curl has not cut it off while it was paused.
Whole(q) == "cut" \notin q.odd

\* A chunk was paused twice, or curl would not let it go on.
Loose(q) == q.odd \cap {"twice", "cut", "refused"} # {}

\* A running transfer has an awaiter; one whose awaiter is about to act is not running, and is as it
\* was when the awaiter looked.  Only reads that are not stopped pause, in the middle of a chunk of the
\* kind they have got, and the bytes that were passed and those that were used are the same.
ReqOk(q) ==
    /\ ~({"pieces", "stop"} \subseteq q.ways)
    /\ q.stop => "stop" \in q.ways
    /\ q.scb = "called" => "stop" \in q.ways
    /\ q.state = "running" => q.pc = "waiting" /\ q.cont
    /\ q.pc \in {"register", "lock"} => q.cont /\ q.st = q.state
    /\ q.state = "paused" => "pieces" \in q.ways
    /\ "pieces" \notin q.ways => q.rt = "hd_wd" /\ ~q.armed
    /\ q.state # "paused" => q.used = 0
    /\ q.state = "paused" /\ q.used > 0 => q.pos <= Len(Stream) /\ q.pauseType = Stream[q.pos].t
    /\ q.pc \in {"register", "lock"} /\ Curl!Until(q.rt) => q.pauseType \in Curl!Wanted(q.rt) \cup {"none"}
    /\ Loose(q) \/ (q.inOrder /\ q.at = q.used)

\* A request that may be resumed
Ready(q) == q.cont /\ q.pc = "waiting" /\ q.state \in Curl!Resumable

TakenIn(td, a) == \E x \in td : x[2] = a
HasMsg(dn, a) == \E k \in 1 .. Len(dn) : dn[k][1] = a

\* One message per transfer that has ended
DoneOk(dn) ==
    /\ dn \in Seq(Requests \X {"ok", "failed"})
    /\ \A k, m \in 1 .. Len(dn) : dn[k][1] = dn[m][1] => k = m

\* Who holds a request: a message, if it runs; one thread, or _pausedReq, if it may be resumed
Held(q, a, dn, pr, td) ==
    /\ HasMsg(dn, a) => q.state = "running"
    /\ TakenIn(td, a) \/ pr = a => Ready(q)
    /\ ~(TakenIn(td, a) /\ pr = a)
    /\ \A x, y \in td : x[2] = a /\ y[2] = a => x = y

CurlOk(rq, dn, pr, td) ==
    /\ rq \in [Requests -> ReqType]
    /\ DoneOk(dn) /\ td \subseteq Sources \X Requests /\ pr \in Requests \cup {None}
    /\ \A a \in Requests : Whole(rq[a]) => ReqOk(rq[a]) /\ Held(rq[a], a, dn, pr, td)

\* The assertions of resume() meet transfers that were cut off only.
AssertOk == asserted \in BOOLEAN /\ (asserted = TRUE => \E a \in Requests : ~Whole(req[a]))

CurlInv == CurlOk(req, done, pausedReq, todo) /\ AssertOk

\* At first no request was performed.
LEMMA CurlInit == Curl!CurlAssumption /\ PausesUnstopped /\ Curl!Init => CurlInv
<1> SUFFICES ASSUME Curl!CurlAssumption, PausesUnstopped, Curl!Init PROVE CurlInv
  OBVIOUS
<1>1. PICK u \in Uses :
          req = [a \in Requests |->
                   [ways |-> u[a].ways, left |-> u[a].left, state |-> "reseted", st |-> "reseted", cont |-> FALSE,
                    ec |-> "ok", pauseType |-> "none", used |-> 0, rt |-> "hd_wd", room |-> 0, armed |-> FALSE,
                    pc |-> "idle", stop |-> FALSE, scb |-> "none", pos |-> 1, at |-> 0, inOrder |-> TRUE, odd |-> {}]]
  BY DEF Curl!Init
<1>2. done = <<>> /\ pausedReq = None /\ todo = {} /\ asserted = FALSE
  BY DEF Curl!Init
<1>3. ASSUME NEW a \in Requests PROVE req[a] \in ReqType /\ ReqOk(req[a])
  <2>1. u[a].ways \in SUBSET Curl!Ways /\ u[a].left \in Nat /\ ~({"pieces", "stop"} \subseteq u[a].ways)
    <3>1. u \in [Requests -> [ways : SUBSET Curl!Ways, left : Nat]]
      BY DEF Curl!CurlAssumption
    <3> QED
      BY <3>1 DEF PausesUnstopped
  <2> DEFINE q == req[a]
  <2>2. q = [ways |-> u[a].ways, left |-> u[a].left, state |-> "reseted", st |-> "reseted", cont |-> FALSE,
             ec |-> "ok", pauseType |-> "none", used |-> 0, rt |-> "hd_wd", room |-> 0, armed |-> FALSE,
             pc |-> "idle", stop |-> FALSE, scb |-> "none", pos |-> 1, at |-> 0, inOrder |-> TRUE, odd |-> {}]
    BY <1>1
  <2> HIDE DEF q
  <2>3. q \in ReqType
    BY <2>1, <2>2, CurlValues DEF ReqType
  <2>4. ReqOk(q)
    BY <2>1, <2>2 DEF ReqOk
  <2> QED
    BY <2>3, <2>4 DEF q
<1>4. DoneOk(done) /\ \A a : ~HasMsg(done, a)
  <2>1. Len(<<>>) = 0 /\ <<>> \in Seq(Requests \X {"ok", "failed"})
    OBVIOUS
  <2> QED
    BY <1>2, <2>1 DEF DoneOk, HasMsg
<1>5. None \notin Requests
  BY DEF Curl!CurlAssumption
<1>6. \A a \in Requests : Held(req[a], a, done, pausedReq, todo)
  BY <1>2, <1>4, <1>5 DEF Held, TakenIn
<1>7. req \in [Requests -> ReqType]
  BY <1>1, <1>3
<1> QED
  BY <1>2, <1>3, <1>4, <1>6, <1>7 DEF CurlInv, CurlOk, AssertOk

\* A request is resumed by one thread only, and its buffers get the bytes in their order.
LEMMA CurlSafe == CurlInv => Curl!ResumedByOne /\ Curl!DataInOrder
<1> SUFFICES ASSUME CurlInv PROVE Curl!ResumedByOne /\ Curl!DataInOrder
  OBVIOUS
<1>1. ASSUME NEW a \in Requests, Whole(req[a])
      PROVE  /\ Curl!Cardinality({x \in todo : x[2] = a}) <= 1
             /\ ({x \in todo : x[2] = a} # {} \/ pausedReq = a)
                   => req[a].cont /\ req[a].pc = "waiting" /\ req[a].state \in Curl!Resumable
             /\ ({x \in todo : x[2] = a} # {} => pausedReq # a)
  <2> DEFINE S == {x \in todo : x[2] = a}
  <2>1. Held(req[a], a, done, pausedReq, todo)
    BY <1>1 DEF CurlInv, CurlOk
  <2>2. S # {} <=> TakenIn(todo, a)
    BY DEF TakenIn
  <2>3. \A x, y \in S : x = y
    BY <2>1 DEF Held
  <2> HIDE DEF S
  <2>4. Curl!Cardinality(S) <= 1
    <3>1. Curl!Cardinality(S) = Cardinality(S)
      BY DEF Curl!Cardinality, Cardinality
    <3>2. CASE S = {}
      <4>1. Cardinality(S) = 0
        BY <3>2, FS_EmptySet
      <4> QED
        BY <3>1, <4>1
    <3>3. CASE S # {}
      <4>1. PICK x \in S : S = {x}
        BY <2>3, <3>3
      <4>2. Cardinality(S) = 1
        BY <4>1, FS_Singleton
      <4> QED
        BY <3>1, <4>2
    <3> QED
      BY <3>2, <3>3
  <2> QED
    BY <2>1, <2>2, <2>4 DEF Held, Ready, S
<1>2. asserted => \E a \in Requests : "cut" \in req[a].odd
  BY DEF CurlInv, AssertOk, Whole
<1>3. Curl!ResumedByOne
  BY <1>1, <1>2 DEF Curl!ResumedByOne, Whole
<1>4. Curl!DataInOrder
  <2> SUFFICES ASSUME NEW a \in Requests
               PROVE  req[a].inOrder \/ req[a].odd \cap {"twice", "cut", "refused"} # {}
    BY DEF Curl!DataInOrder
  <2>1. CASE Whole(req[a])
    BY <2>1 DEF CurlInv, CurlOk, ReqOk, Loose
  <2>2. CASE ~Whole(req[a])
    BY <2>2 DEF Whole
  <2> QED
    BY <2>1, <2>2
<1> QED
  BY <1>3, <1>4

\* The one request that changes decides.
LEMMA CurlSet ==
    ASSUME NEW rq, NEW dn, NEW pr, NEW td, CurlOk(rq, dn, pr, td),
           NEW a \in Requests, NEW q \in ReqType, NEW dn2, NEW pr2, NEW td2,
           Whole(q) => ReqOk(q) /\ Held(q, a, dn2, pr2, td2),
           DoneOk(dn2), \A s \in Requests \ {a} : HasMsg(dn2, s) => HasMsg(dn, s),
           td2 \subseteq Sources \X Requests, \A x \in td2 : x[2] = a \/ x \in td,
           pr2 \in {pr, a, None}, None \notin Requests
    PROVE  CurlOk([rq EXCEPT ![a] = q], dn2, pr2, td2)
<1> DEFINE rq2 == [rq EXCEPT ![a] = q]
<1>1. rq \in [Requests -> ReqType] /\ pr \in Requests \cup {None}
  BY DEF CurlOk
<1>2. rq2 \in [Requests -> ReqType] /\ rq2[a] = q /\ \A s \in Requests \ {a} : rq2[s] = rq[s]
  BY <1>1
<1> HIDE DEF rq2
<1>3. ASSUME NEW s \in Requests \ {a}, Whole(rq2[s]) PROVE ReqOk(rq2[s]) /\ Held(rq2[s], s, dn2, pr2, td2)
  <2>1. ReqOk(rq[s]) /\ Held(rq[s], s, dn, pr, td)
    BY <1>2, <1>3 DEF CurlOk
  <2>2. TakenIn(td2, s) => TakenIn(td, s)
    BY DEF TakenIn
  <2>3. pr2 = s => pr = s
    OBVIOUS
  <2>4. \A x \in td2 : x[2] = s => x \in td
    OBVIOUS
  <2>5. Held(rq[s], s, dn2, pr2, td2)
    BY <2>1, <2>2, <2>3, <2>4 DEF Held
  <2> QED
    BY <1>2, <2>1, <2>5
<1>4. CurlOk(rq2, dn2, pr2, td2)
  BY <1>1, <1>2, <1>3 DEF CurlOk
<1> QED
  BY <1>4 DEF rq2

\* The invariant, for one request
LEMMA CurlFacts ==
    ASSUME CurlInv, NEW a \in Requests
    PROVE  /\ req[a] \in ReqType /\ req \in [Requests -> ReqType]
           /\ Whole(req[a]) => ReqOk(req[a]) /\ Held(req[a], a, done, pausedReq, todo)
           /\ DoneOk(done) /\ todo \subseteq Sources \X Requests /\ pausedReq \in Requests \cup {None}
           /\ CurlOk(req, done, pausedReq, todo)
  BY DEF CurlInv, CurlOk

\* A request whose awaiter does not wait is in nobody's hands.
LEMMA Quiet ==
    ASSUME CurlInv, NEW a \in Requests, Whole(req[a]), req[a].pc # "waiting"
    PROVE  /\ ~TakenIn(todo, a) /\ pausedReq # a /\ req[a].state # "running" /\ ~HasMsg(done, a)
           /\ ReqOk(req[a])
<1>1. ReqOk(req[a]) /\ Held(req[a], a, done, pausedReq, todo)
  BY CurlFacts
<1>2. req[a].state # "running"
  BY <1>1 DEF ReqOk
<1> QED
  BY <1>1, <1>2 DEF Ready, Held

\* One that runs is in nobody's hands but curl's.
LEMMA Runs ==
    ASSUME CurlInv, NEW a \in Requests, Whole(req[a]), req[a].state = "running"
    PROVE  ~TakenIn(todo, a) /\ pausedReq # a /\ ReqOk(req[a])
<1>1. ReqOk(req[a]) /\ Held(req[a], a, done, pausedReq, todo)
  BY CurlFacts
<1> QED
  BY <1>1 DEF Ready, Held, Curl!Resumable

\* One in nobody's hands is held rightly, whatever it becomes.
LEMMA NotHeld ==
    ASSUME NEW q, NEW a, NEW dn, NEW pr, NEW td, ~TakenIn(td, a), ~HasMsg(dn, a) \/ q.state = "running",
           pr # a \/ Ready(q)
    PROVE  Held(q, a, dn, pr, td)
  BY DEF Held, TakenIn

\* What the callbacks of curl leave alone
Alike(d, q) ==
    /\ d.st = q.st /\ d.cont = q.cont /\ d.ec = q.ec /\ d.rt = q.rt /\ d.pc = q.pc /\ d.stop = q.stop
    /\ d.scb = q.scb /\ d.left = q.left /\ d.ways = q.ways

\* The next chunk of a transfer, and what is left of it
ChunkOf(q) == Stream[q.pos]
LeftOf(q) == ChunkOf(q).n - q.used

\* A chunk of the stream has a kind and at least one byte.
LEMMA StreamHas ==
    ASSUME Curl!CurlAssumption, NEW k \in 1 .. Len(Stream)
    PROVE  Stream[k].t \in {"hd", "wd"} /\ Stream[k].n \in Nat \ {0} /\ BufSize \in Nat
<1>1. Stream \in Seq([t : {"hd", "wd"}, n : Nat \ {0}]) /\ BufSize \in Nat
  BY DEF Curl!CurlAssumption
<1>2. Stream[k] \in [t : {"hd", "wd"}, n : Nat \ {0}]
  BY <1>1, ElementOfSeq
<1> QED
  BY <1>1, <1>2

\* mark_paused()
MarkedAs(d, q, pt, u) ==
    /\ d \in ReqType /\ Alike(d, q) /\ d.armed = q.armed /\ d.state = "paused" /\ d.odd = q.odd
    /\ d.pos = q.pos /\ d.pauseType = pt /\ d.used = u /\ d.at = q.at /\ d.inOrder = q.inOrder
\* mark_paused() changes the state of a request, and what is left of its chunk.
LEMMA Marked ==
    ASSUME NEW q \in ReqType, NEW pt \in {"hd", "wd"}, NEW u \in Nat
    PROVE  MarkedAs(Curl!MarkPaused(q, pt, u), q, pt, u)
<1> DEFINE c1 == [q EXCEPT !.pauseType = pt]
           c2 == [c1 EXCEPT !.used = u]
           c3 == [c2 EXCEPT !.state = "paused"]
<1>1. Curl!MarkPaused(q, pt, u) = c3
  BY DEF Curl!MarkPaused
<1>2. /\ c1 \in ReqType /\ Alike(c1, q) /\ c1.armed = q.armed /\ c1.odd = q.odd
      /\ c1.pos = q.pos /\ c1.pauseType = pt /\ c1.at = q.at /\ c1.inOrder = q.inOrder
  BY CurlValues DEF ReqType, Alike
<1> HIDE DEF c1
<1>3. /\ c2 \in ReqType /\ Alike(c2, c1) /\ c2.armed = c1.armed /\ c2.odd = c1.odd
      /\ c2.pos = c1.pos /\ c2.pauseType = c1.pauseType /\ c2.at = c1.at /\ c2.inOrder = c1.inOrder /\ c2.used = u
  BY <1>2 DEF ReqType, Alike
<1> HIDE DEF c2
<1>4. /\ c3 \in ReqType /\ Alike(c3, c2) /\ c3.armed = c2.armed /\ c3.state = "paused" /\ c3.odd = c2.odd
      /\ c3.pos = c2.pos /\ c3.pauseType = c2.pauseType /\ c3.at = c2.at /\ c3.inOrder = c2.inOrder /\ c3.used = c2.used
  BY <1>3, CurlValues DEF ReqType, Alike
<1> HIDE DEF c3
<1>5. Alike(c3, q)
  BY <1>2, <1>3, <1>4 DEF Alike
<1> QED
  BY <1>1, <1>2, <1>3, <1>4, <1>5 DEF MarkedAs

\* What a copied chunk leaves: all of it, or as much as there was room for before the pause
WrittenAs(d, q) ==
    /\ d \in ReqType /\ Alike(d, q) /\ d.armed = q.armed
    /\ \/ d.state = q.state /\ d.used = 0 /\ d.at = 0 /\ d.odd = q.odd
       \/ /\ d.state = "paused" /\ d.pos = q.pos /\ q.rt # "hd_wd"
          /\ d.used = q.room /\ d.pauseType = ChunkOf(q).t /\ d.at = q.at + q.room
          /\ d.odd = q.odd \cup (IF q.used > 0 THEN {"twice"} ELSE {})
    /\ d.inOrder = (q.inOrder /\ q.at = q.used)
\* resumed_write_to_bw()
LEMMA Written ==
    ASSUME Curl!CurlAssumption, NEW q \in ReqType, q.pos <= Len(Stream), NEW d, d = Curl!WriteToBw(q)
    PROVE  WrittenAs(d, q)
<1> DEFINE c == Stream[q.pos]
           m == c.n - q.used
           copied == Curl!Copied(q, m)
           again == IF q.used > 0 THEN {"twice"} ELSE {}
           filled == [q EXCEPT !.room = Curl!RoomLeft(q, copied), !.used = 0, !.inOrder = @ /\ q.at = q.used]
           marked == Curl!MarkPaused(filled, c.t, copied)
           e1 == [marked EXCEPT !.at = @ + copied, !.odd = @ \cup again]
           e2 == [filled EXCEPT !.pos = @ + 1, !.at = 0]
<1>1. /\ q.pos \in 1 .. Len(Stream) /\ q.used \in Nat /\ q.room \in Nat /\ q.at \in Nat /\ q.pos \in Nat
      /\ q.inOrder \in BOOLEAN
  BY DEF ReqType, Curl!CurlAssumption
<1>2. c.t \in {"hd", "wd"} /\ c.n \in Nat /\ m \in Int
  BY <1>1, StreamHas DEF ChunkOf
<1>3. d = IF copied < m THEN e1 ELSE e2
  BY DEF Curl!WriteToBw
<1>4. /\ copied \in Int
      /\ copied < m => copied = q.room /\ q.rt # "hd_wd"
      /\ Curl!RoomLeft(q, copied) \in Nat
  BY <1>1, <1>2 DEF Curl!Copied, Curl!RoomLeft
<1>5. c = ChunkOf(q)
  BY DEF ChunkOf
<1>6. (q.inOrder /\ q.at = q.used) \in BOOLEAN /\ again \in SUBSET Curl!Oddities
  BY <1>1, CurlValues
<1> HIDE DEF c, m, copied, again
<1>7. /\ filled \in ReqType /\ Alike(filled, q) /\ filled.armed = q.armed /\ filled.state = q.state /\ filled.pos = q.pos
      /\ filled.used = 0 /\ filled.at = q.at /\ filled.inOrder = (q.inOrder /\ q.at = q.used) /\ filled.odd = q.odd
  <2> DEFINE ro == Curl!RoomLeft(q, copied)
             io == q.inOrder /\ q.at = q.used
  <2>1. filled = [q EXCEPT !.room = ro, !.used = 0, !.inOrder = io]
    OBVIOUS
  <2>2. ro \in Nat /\ io \in BOOLEAN
    BY <1>4, <1>6
  <2> HIDE DEF ro, io, filled
  <2>3. /\ filled \in ReqType /\ Alike(filled, q) /\ filled.armed = q.armed /\ filled.state = q.state /\ filled.pos = q.pos
        /\ filled.used = 0 /\ filled.at = q.at /\ filled.inOrder = io /\ filled.odd = q.odd
    BY <2>1, <2>2 DEF ReqType, Alike
  <2> QED
    BY <2>3 DEF io
<1> HIDE DEF filled
<1>8. CASE copied < m
  <2> DEFINE ct == c.t
  <2>1. ct \in {"hd", "wd"} /\ copied \in Nat /\ copied = q.room /\ q.rt # "hd_wd"
    BY <1>1, <1>2, <1>4, <1>8
  <2> HIDE DEF ct
  <2>2. marked = Curl!MarkPaused(filled, ct, copied)
    BY DEF ct
  <2> HIDE DEF marked
  <2>3. MarkedAs(marked, filled, ct, copied)
    BY <1>7, <2>1, <2>2, Marked
  <2>4. /\ marked \in ReqType /\ Alike(marked, filled) /\ marked.armed = filled.armed /\ marked.state = "paused"
        /\ marked.pos = filled.pos /\ marked.pauseType = ct /\ marked.used = copied /\ marked.at = filled.at
        /\ marked.inOrder = filled.inOrder /\ marked.odd = q.odd
    BY <1>7, <2>3 DEF MarkedAs
  <2>5. marked.at = q.at /\ marked.at + copied \in Nat /\ marked.odd \cup again \in SUBSET Curl!Oddities
    <3>1. marked.odd \in SUBSET Curl!Oddities
      BY <2>4 DEF ReqType
    <3> QED
      BY <1>1, <1>6, <1>7, <2>1, <2>4, <3>1
  <2>6. /\ e1 \in ReqType /\ Alike(e1, marked) /\ e1.armed = marked.armed /\ e1.state = "paused"
        /\ e1.pos = marked.pos /\ e1.pauseType = ct /\ e1.used = copied /\ e1.at = q.at + copied
        /\ e1.inOrder = marked.inOrder /\ e1.odd = q.odd \cup again
    BY <2>4, <2>5 DEF ReqType, Alike
  <2> HIDE DEF e1
  <2>7. d = e1
    BY <1>3, <1>8
  <2>8. Alike(e1, q)
    BY <1>7, <2>4, <2>6 DEF Alike
  <2> QED
    BY <1>5, <1>7, <2>1, <2>4, <2>6, <2>7, <2>8 DEF WrittenAs, ct, again
<1>9. CASE ~(copied < m)
  <2>1. filled.pos + 1 \in Nat \ {0}
    BY <1>1, <1>7
  <2>2. /\ e2 \in ReqType /\ Alike(e2, filled) /\ e2.armed = filled.armed /\ e2.state = filled.state
        /\ e2.used = 0 /\ e2.at = 0 /\ e2.inOrder = filled.inOrder /\ e2.odd = filled.odd
    BY <1>7, <2>1 DEF ReqType, Alike
  <2> HIDE DEF e2
  <2>3. d = e2
    BY <1>3, <1>9
  <2>4. Alike(e2, q)
    BY <1>7, <2>2 DEF Alike
  <2> QED
    BY <1>7, <2>2, <2>3, <2>4 DEF WrittenAs
<1> QED
  BY <1>8, <1>9

\* What the callbacks leave of a transfer that runs
DeliveredAs(d, q) ==
    /\ \/ d.state = "running" /\ d.used = 0 /\ d.at = 0 /\ d.odd = q.odd
       \/ /\ d.state = "paused" /\ d.pos = q.pos
          /\ \/ /\ d.pauseType = ChunkOf(d).t /\ d.at = q.at + d.used
                /\ d.odd = q.odd \cup (IF q.used > 0 THEN {"twice"} ELSE {})
             \/ q.armed /\ d.at = q.at /\ d.used = 0 /\ d.odd = q.odd
    /\ d.inOrder = (q.inOrder /\ (ChunkOf(q).t \in Curl!Wanted(q.rt) => q.at = q.used))
    /\ q.rt = "hd_wd" /\ ~q.armed => d.state = "running" /\ ~d.armed

\* A chunk is passed to the callbacks of a read; what was used of it before is of a kind it reads.
LEMMA Delivered ==
    ASSUME Curl!CurlAssumption, NEW q \in ReqType, q.pos <= Len(Stream), q.state = "running",
           NEW d, d = Curl!Deliver(q)
    PROVE  /\ d \in ReqType /\ Alike(d, q) /\ (Whole(d) <=> Whole(q))
           /\ (q.used > 0 => ChunkOf(q).t \in Curl!Wanted(q.rt)) => DeliveredAs(d, q)
<1>1. q.pos \in 1 .. Len(Stream) /\ q.used \in Nat /\ q.room \in Nat /\ q.at \in Nat /\ q.pos \in Nat /\ q.inOrder \in BOOLEAN
  BY DEF ReqType, Curl!CurlAssumption
<1>2. ChunkOf(q).t \in {"hd", "wd"}
  BY <1>1, StreamHas DEF ChunkOf
<1>3. CASE ChunkOf(q).t \in Curl!Wanted(q.rt)
  <2> DEFINE q1 == [q EXCEPT !.armed = Curl!Until(q.rt)]
  <2>1. Curl!Until(q.rt) \in BOOLEAN
    BY DEF Curl!Until
  <2>2. /\ q1 \in ReqType /\ Alike(q1, q) /\ q1.armed = Curl!Until(q.rt) /\ q1.pos = q.pos /\ q1.used = q.used
        /\ q1.state = q.state /\ q1.at = q.at /\ q1.room = q.room /\ q1.inOrder = q.inOrder /\ q1.odd = q.odd
    BY <2>1 DEF ReqType, Alike
  <2>3. d = Curl!WriteToBw(q1)
    <3>1. Curl!Callback(q) = "copy"
      BY <1>3 DEF Curl!Callback, ChunkOf
    <3> QED
      BY <3>1 DEF Curl!Deliver
  <2> HIDE DEF q1
  <2>4. ChunkOf(q1) = ChunkOf(q)
    BY <2>2 DEF ChunkOf
  <2>5. WrittenAs(d, q1)
    BY <2>2, <2>3, Written
  <2>6. q.rt = "hd_wd" => ~Curl!Until(q.rt)
    BY DEF Curl!Until
  <2>7. Alike(d, q) /\ d \in ReqType
    BY <2>2, <2>5 DEF Alike, WrittenAs
  <2>8. d.pos = q.pos => ChunkOf(d) = ChunkOf(q)
    BY DEF ChunkOf
  <2>9. d.odd = q.odd \/ d.odd = q.odd \cup {"twice"}
    BY <2>2, <2>5 DEF WrittenAs
  <2>10. q1.rt = q.rt
    BY <2>2 DEF Alike
  <2>11. d.inOrder = (q.inOrder /\ (ChunkOf(q).t \in Curl!Wanted(q.rt) => q.at = q.used))
    BY <1>3, <2>2, <2>5 DEF WrittenAs
  <2>12. DeliveredAs(d, q)
    <3>1. CASE d.state = q1.state /\ d.used = 0 /\ d.at = 0 /\ d.odd = q1.odd
      BY <2>2, <2>5, <2>6, <2>11, <3>1 DEF DeliveredAs, WrittenAs
    <3>2. CASE /\ d.state = "paused" /\ d.pos = q1.pos /\ q1.rt # "hd_wd"
               /\ d.used = q1.room /\ d.pauseType = ChunkOf(q1).t /\ d.at = q1.at + q1.room
               /\ d.odd = q1.odd \cup (IF q1.used > 0 THEN {"twice"} ELSE {})
      BY <2>2, <2>4, <2>8, <2>10, <2>11, <3>2 DEF DeliveredAs
    <3> QED
      BY <2>5, <3>1, <3>2 DEF WrittenAs
  <2> QED
    BY <2>7, <2>9, <2>12 DEF Whole
<1>4. CASE ChunkOf(q).t \notin Curl!Wanted(q.rt) /\ q.armed
  <2>1. Curl!Callback(q) = "pause"
    BY <1>4 DEF Curl!Callback, ChunkOf
  <2> DEFINE pt == CHOOSE t \in Curl!Wanted(q.rt) : TRUE
  <2>2. d = Curl!MarkPaused(q, pt, 0)
    BY <2>1 DEF Curl!Deliver
  <2>3. pt \in {"hd", "wd"}
    <3>1. Curl!Wanted(q.rt) # {} /\ Curl!Wanted(q.rt) \subseteq {"hd", "wd"}
      BY DEF Curl!Wanted, ReqType, ReadKinds
    <3> QED
      BY <3>1
  <2> HIDE DEF pt
  <2>4. /\ d \in ReqType /\ Alike(d, q) /\ d.state = "paused" /\ d.pos = q.pos /\ d.used = 0 /\ d.at = q.at
        /\ d.inOrder = q.inOrder /\ d.odd = q.odd
    <3>1. MarkedAs(d, q, pt, 0)
      BY <2>2, <2>3, Marked
    <3> QED
      BY <3>1 DEF MarkedAs
  <2>6. d.inOrder = (q.inOrder /\ (ChunkOf(q).t \in Curl!Wanted(q.rt) => q.at = q.used))
    BY <1>1, <1>4, <2>4
  <2> QED
    BY <1>4, <2>4, <2>6 DEF DeliveredAs, Whole
<1>5. CASE ChunkOf(q).t \notin Curl!Wanted(q.rt) /\ ~q.armed
  <2>1. Curl!Callback(q) = "drop"
    BY <1>5 DEF Curl!Callback, ChunkOf
  <2> DEFINE k == q.pos + 1
             d2 == [q EXCEPT !.pos = k, !.at = 0]
  <2>2. d = d2
    BY <2>1 DEF Curl!Deliver
  <2>3. k \in Nat \ {0}
    BY <1>1
  <2> HIDE DEF k
  <2>7. /\ d2 \in ReqType /\ Alike(d2, q) /\ d2.state = q.state /\ d2.used = q.used /\ d2.at = 0
        /\ d2.inOrder = q.inOrder /\ d2.armed = q.armed /\ d2.odd = q.odd
    BY <2>3 DEF ReqType, Alike
  <2> HIDE DEF d2
  <2>4. /\ d \in ReqType /\ Alike(d, q) /\ d.state = "running" /\ d.used = q.used /\ d.at = 0
        /\ d.inOrder = q.inOrder /\ d.armed = q.armed /\ d.odd = q.odd
    BY <2>2, <2>7
  <2>5. d.inOrder = (q.inOrder /\ (ChunkOf(q).t \in Curl!Wanted(q.rt) => q.at = q.used))
    BY <1>1, <1>5, <2>4
  <2>6. (q.used > 0 => ChunkOf(q).t \in Curl!Wanted(q.rt)) => q.used = 0
    BY <1>1, <1>5
  <2> QED
    BY <1>5, <2>4, <2>5, <2>6 DEF DeliveredAs, Whole
<1> QED
  BY <1>3, <1>4, <1>5

\* The awaiter of a request acts, while nobody else does anything about it.
LEMMA AwaiterMoves ==
    ASSUME Curl!CurlAssumption, CurlInv, ~asserted, NEW a \in Requests, req[a].pc # "waiting",
           NEW q \in ReqType, Whole(q) => Whole(req[a]) /\ ReqOk(q), req' = [req EXCEPT ![a] = q],
           UNCHANGED <<done, todo, pausedReq, asserted>>
    PROVE  CurlInv'
<1>1. CurlOk(req, done, pausedReq, todo) /\ DoneOk(done) /\ None \notin Requests /\ todo \subseteq Sources \X Requests
  BY CurlFacts DEF Curl!CurlAssumption
<1>2. Whole(q) => Held(q, a, done, pausedReq, todo)
  <2> SUFFICES ASSUME Whole(q) PROVE Held(q, a, done, pausedReq, todo)
    OBVIOUS
  <2>1. ~TakenIn(todo, a) /\ pausedReq # a /\ ~HasMsg(done, a)
    BY Quiet
  <2> QED
    BY <2>1, NotHeld
<1>3. CurlOk([req EXCEPT ![a] = q], done, pausedReq, todo)
  BY <1>1, <1>2, CurlSet
<1> QED
  BY <1>3 DEF CurlInv, AssertOk

\* initiate(), the first part
LEMMA ReadStarts ==
    ASSUME Curl!CurlAssumption, CurlInv, ~asserted, NEW a \in Requests, NEW rt \in Curl!ReadTypes(a), Curl!StartRead(a, rt)
    PROVE  CurlInv'
<1> DEFINE q == req[a]
           q1 == [q EXCEPT !.ec = "canceled", !.pc = "resumed", !.left = @ - 1]
           q2 == [q EXCEPT !.st = q.state, !.cont = TRUE, !.rt = rt, !.pc = "register", !.left = @ - 1]
<1>1. /\ q \in ReqType /\ q.pc = "idle" /\ q.left > 0 /\ UNCHANGED <<done, pausedReq, todo, asserted>>
      /\ req' = [req EXCEPT ![a] = IF q.stop THEN q1 ELSE q2]
  BY CurlFacts DEF Curl!StartRead
<1>2. /\ rt \in ReadKinds
      /\ "pieces" \notin q.ways => rt = "hd_wd"
      /\ Curl!Until(rt) => q.pauseType \in Curl!Wanted(rt) \cup {"none"}
  BY DEF Curl!ReadTypes, Curl!Until, ReadKinds
<1>3. q.left - 1 \in Nat
  BY <1>1 DEF ReqType
<1>9. Whole(q) => ReqOk(q) /\ q.state # "running"
  BY <1>1, Quiet
<1> HIDE DEF q
<1>4. q1 \in ReqType /\ (Whole(q1) => Whole(q) /\ ReqOk(q1))
  <2>1. /\ q1 \in ReqType /\ q1.pc = "resumed" /\ q1.state = q.state /\ q1.scb = q.scb /\ q1.pos = q.pos
        /\ q1.used = q.used /\ q1.rt = q.rt /\ q1.armed = q.armed /\ q1.pauseType = q.pauseType
        /\ q1.inOrder = q.inOrder /\ q1.at = q.at /\ q1.odd = q.odd /\ q1.ways = q.ways /\ q1.stop = q.stop
    BY <1>1, <1>3, CurlValues DEF ReqType
  <2> HIDE DEF q1
  <2> QED
    BY <1>9, <2>1 DEF ReqOk, Whole, Loose
<1>5. q2 \in ReqType /\ (Whole(q2) => Whole(q) /\ ReqOk(q2))
  <2>1. /\ q2 \in ReqType /\ q2.pc = "register" /\ q2.state = q.state /\ q2.st = q.state /\ q2.cont /\ q2.scb = q.scb
        /\ q2.pos = q.pos /\ q2.used = q.used /\ q2.rt = rt /\ q2.armed = q.armed /\ q2.pauseType = q.pauseType
        /\ q2.inOrder = q.inOrder /\ q2.at = q.at /\ q2.odd = q.odd /\ q2.ways = q.ways /\ q2.stop = q.stop
    BY <1>1, <1>2, <1>3, CurlValues DEF ReqType
  <2> HIDE DEF q2
  <2> QED
    BY <1>2, <1>9, <2>1 DEF ReqOk, Whole, Loose
<1> HIDE DEF q1, q2
<1>6. CASE q.stop
  BY <1>1, <1>4, <1>6, AwaiterMoves DEF q
<1>7. CASE ~q.stop
  BY <1>1, <1>5, <1>7, AwaiterMoves DEF q
<1> QED
  BY <1>6, <1>7

\* init_callbacks()
InitedAs(d, q) ==
    /\ d \in ReqType /\ Alike(d, q) /\ d.armed = FALSE /\ d.pos = q.pos /\ d.at = q.at
    /\ d.inOrder = q.inOrder /\ d.state = q.state /\ d.odd = q.odd
    /\ \/ d.used = q.used /\ d.pauseType = q.pauseType /\ (q.rt \notin {"hd", "wd"} \/ q.pauseType = q.rt)
       \/ d.used = 0 /\ d.pauseType = "none" /\ q.rt \in {"hd", "wd"} /\ q.pauseType # q.rt
\* init_write_cb() gives a request room, and forgets what was left of a chunk of another kind.
LEMMA Inited ==
    ASSUME Curl!CurlAssumption, NEW q \in ReqType
    PROVE  InitedAs(Curl!InitCallbacks(q), q)
<1> DEFINE kept == q.rt \notin {"hd", "wd"} \/ q.pauseType = q.rt
           pt == IF kept THEN q.pauseType ELSE "none"
           u == IF kept THEN q.used ELSE 0
           d == [q EXCEPT !.room = BufSize, !.armed = FALSE, !.pauseType = pt, !.used = u]
<1>1. Curl!InitCallbacks(q) = d
  BY DEF Curl!InitCallbacks
<1>2. pt \in PauseKinds /\ u \in Nat /\ BufSize \in Nat
  BY CurlValues DEF ReqType, Curl!CurlAssumption
<1>3. \/ u = q.used /\ pt = q.pauseType /\ (q.rt \notin {"hd", "wd"} \/ q.pauseType = q.rt)
      \/ u = 0 /\ pt = "none" /\ q.rt \in {"hd", "wd"} /\ q.pauseType # q.rt
  OBVIOUS
<1> HIDE DEF pt, u
<1>4. /\ d \in ReqType /\ Alike(d, q) /\ d.armed = FALSE /\ d.pos = q.pos /\ d.at = q.at
      /\ d.inOrder = q.inOrder /\ d.state = q.state /\ d.used = u /\ d.pauseType = pt /\ d.odd = q.odd
  BY <1>2 DEF ReqType, Alike
<1> HIDE DEF d
<1> QED
  BY <1>1, <1>3, <1>4 DEF InitedAs

\* A transfer is added, or can not be.
LEMMA TransferAdded ==
    ASSUME Curl!CurlAssumption, CurlInv, ~asserted, NEW a \in Requests, Curl!AddTransfer(a)
    PROVE  CurlInv'
<1> DEFINE o == req[a]
           q == Curl!InitCallbacks(o)
           q1 == [q EXCEPT !.state = "running", !.pc = "waiting"]
           q2 == [q EXCEPT !.ec = "failed", !.pc = "resumed"]
<1>1. /\ o \in ReqType /\ q.pc = "lock" /\ q.st \in Curl!Removed /\ UNCHANGED <<done, pausedReq, todo, asserted>>
      /\ req' = [req EXCEPT ![a] = q1] \/ req' = [req EXCEPT ![a] = q2]
  BY CurlFacts DEF Curl!AddTransfer
<1>2. InitedAs(q, o)
  BY <1>1, Inited
<1>3. q \in ReqType /\ o.pc = "lock" /\ o.st \in Curl!Removed
  BY <1>1, <1>2 DEF InitedAs, Alike
<1>9. Whole(o) => ReqOk(o)
  BY <1>3, Quiet
<1> HIDE DEF o, q
<1>4. q1 \in ReqType /\ (Whole(q1) => Whole(o) /\ ReqOk(q1))
  <2>1. /\ q1 \in ReqType /\ q1.state = "running" /\ q1.pc = "waiting" /\ q1.at = q.at /\ q1.cont = q.cont
        /\ q1.scb = q.scb /\ q1.rt = q.rt /\ q1.armed = q.armed /\ q1.used = q.used /\ q1.inOrder = q.inOrder
        /\ q1.odd = q.odd /\ q1.ways = q.ways /\ q1.stop = q.stop
    BY <1>3, CurlValues DEF ReqType
  <2> HIDE DEF q1
  <2>2. /\ q1.cont = o.cont /\ q1.scb = o.scb /\ q1.rt = o.rt /\ ~q1.armed /\ q1.inOrder = o.inOrder
        /\ q1.at = o.at /\ (q1.used = o.used \/ q1.used = 0) /\ q1.odd = o.odd /\ q1.ways = o.ways /\ q1.stop = o.stop
    BY <1>2, <2>1 DEF InitedAs, Alike
  <2>3. Whole(o) => o.cont /\ o.used = 0
    BY <1>3, <1>9 DEF ReqOk, Curl!Removed
  <2> QED
    BY <1>9, <2>1, <2>2, <2>3 DEF ReqOk, Whole, Loose
<1>5. q2 \in ReqType /\ (Whole(q2) => Whole(o) /\ ReqOk(q2))
  <2>1. /\ q2 \in ReqType /\ q2.state = q.state /\ q2.pc = "resumed" /\ q2.at = q.at
        /\ q2.scb = q.scb /\ q2.rt = q.rt /\ q2.armed = q.armed /\ q2.used = q.used /\ q2.inOrder = q.inOrder
        /\ q2.odd = q.odd /\ q2.ways = q.ways /\ q2.stop = q.stop
    BY <1>3, CurlValues DEF ReqType
  <2> HIDE DEF q2
  <2>2. /\ q2.state = o.state /\ q2.scb = o.scb /\ q2.rt = o.rt /\ ~q2.armed /\ q2.inOrder = o.inOrder
        /\ q2.at = o.at /\ (q2.used = o.used \/ q2.used = 0) /\ q2.odd = o.odd /\ q2.ways = o.ways /\ q2.stop = o.stop
    BY <1>2, <2>1 DEF InitedAs, Alike
  <2>3. Whole(o) => o.used = 0 /\ o.state \notin {"running", "paused"}
    BY <1>3, <1>9 DEF ReqOk, Curl!Removed
  <2> QED
    BY <1>9, <2>1, <2>2, <2>3 DEF ReqOk, Whole, Loose
<1> HIDE DEF q1, q2
<1> QED
  BY <1>1, <1>3, <1>4, <1>5, AwaiterMoves DEF o

\* The chunk a paused transfer goes on with, once init_callbacks() was called
UnpausedAs(q, o) ==
    /\ q \in ReqType /\ q.state = "running" /\ q.pc = "waiting" /\ q.cont = o.cont /\ q.scb = o.scb
    /\ q.rt = o.rt /\ ~q.armed /\ q.pos = o.pos /\ q.at = o.at /\ q.inOrder = o.inOrder /\ q.odd = o.odd
    /\ q.ways = o.ways /\ q.stop = o.stop
    /\ \/ q.used = o.used /\ q.pauseType = o.pauseType /\ (o.rt \notin {"hd", "wd"} \/ o.pauseType = o.rt)
       \/ q.used = 0 /\ o.rt \in {"hd", "wd"} /\ o.pauseType # o.rt
\* init_callbacks() leaves it so.
LEMMA UnpausedIs ==
    ASSUME Curl!CurlAssumption, NEW o \in ReqType
    PROVE  UnpausedAs([Curl!InitCallbacks(o) EXCEPT !.state = "running", !.pc = "waiting"], o)
<1> DEFINE i0 == Curl!InitCallbacks(o)
           q == [i0 EXCEPT !.state = "running", !.pc = "waiting"]
<1>2. InitedAs(i0, o)
  BY Inited
<1> HIDE DEF i0
<1>3. /\ q \in ReqType /\ q.state = "running" /\ q.pc = "waiting" /\ q.cont = i0.cont /\ q.scb = i0.scb /\ q.rt = i0.rt
      /\ q.armed = i0.armed /\ q.pos = i0.pos /\ q.at = i0.at /\ q.inOrder = i0.inOrder
      /\ q.used = i0.used /\ q.pauseType = i0.pauseType /\ q.odd = i0.odd /\ q.ways = i0.ways /\ q.stop = i0.stop
  BY <1>2, CurlValues DEF InitedAs, ReqType
<1> HIDE DEF q
<1>4. UnpausedAs(q, o)
  BY <1>2, <1>3 DEF InitedAs, Alike, UnpausedAs
<1> QED
  BY <1>4 DEF q, i0

\* pause(CURLPAUSE_CONT) passes what was left of the chunk: the transfer runs, or pauses once more.
LEMMA Remains ==
    ASSUME Curl!CurlAssumption, CurlInv, NEW a \in Requests, req[a].pc = "lock", req[a].st = "paused",
           NEW q, UnpausedAs(q, req[a]), NEW d, d = Curl!Remaining(q)
    PROVE  /\ d \in ReqType /\ Alike(d, q) /\ (Whole(d) <=> Whole(req[a]))
           /\ Whole(d) => ReqOk(d) /\ d.state \in {"running", "paused"} /\ d.pc = "waiting" /\ d.cont
                          /\ "pieces" \in d.ways
<1> DEFINE o == req[a]
<1>1. o \in ReqType /\ q \in ReqType /\ q.state = "running"
  BY CurlFacts DEF UnpausedAs
<1>2. Whole(o) => ReqOk(o)
  BY Quiet
<1>3. Whole(q) <=> Whole(o)
  BY DEF UnpausedAs, Whole
<1>4. UnpausedAs(q, o) /\ o.pc = "lock" /\ o.st = "paused"
  OBVIOUS
<1> HIDE DEF o
<1>5. ASSUME Whole(o)
      PROVE  /\ o.state = "paused" /\ q.cont /\ "pieces" \in q.ways /\ ~({"pieces", "stop"} \subseteq q.ways)
             /\ q.stop => "stop" \in q.ways
             /\ q.scb = "called" => "stop" \in q.ways
             /\ o.used > 0 => o.pos <= Len(Stream) /\ o.pauseType = ChunkOf(o).t
             /\ Loose(q) \/ (o.inOrder /\ o.at = o.used)
             /\ Curl!Until(o.rt) => o.pauseType \in Curl!Wanted(o.rt) \cup {"none"}
  BY <1>2, <1>4, <1>5 DEF ReqOk, UnpausedAs, ChunkOf, Loose
<1>6. CASE ~Curl!HasData(q)
  <2>1. d = q
    BY <1>6 DEF Curl!Remaining
  <2>2. Alike(q, q)
    BY DEF Alike
  <2>3. ASSUME Whole(o) PROVE ReqOk(q) /\ q.pc = "waiting"
    <3>1. o.used = 0 /\ q.used = 0
      <4>1. ~(q.pos <= Len(Stream)) /\ q.pos = o.pos /\ o.used \in Nat
        BY <1>1, <1>4, <1>6 DEF Curl!HasData, UnpausedAs, ReqType
      <4>2. o.used = 0
        BY <1>5, <2>3, <4>1
      <4> QED
        BY <1>4, <4>2 DEF UnpausedAs
    <3> QED
      BY <1>4, <1>5, <2>3, <3>1 DEF ReqOk, UnpausedAs
  <2> QED
    BY <1>1, <1>3, <1>5, <2>1, <2>2, <2>3 DEF o
<1>7. CASE Curl!HasData(q)
  <2>1. d = Curl!Deliver(q) /\ q.pos <= Len(Stream)
    BY <1>7 DEF Curl!Remaining, Curl!HasData
  <2>2. /\ d \in ReqType /\ Alike(d, q) /\ (Whole(d) <=> Whole(q))
        /\ (q.used > 0 => ChunkOf(q).t \in Curl!Wanted(q.rt)) => DeliveredAs(d, q)
    BY <1>1, <2>1, Delivered
  <2>3. ASSUME Whole(o) PROVE ReqOk(d) /\ d.state \in {"running", "paused"}
    <3>1. q.pos \in 1 .. Len(Stream) /\ ChunkOf(q).t \in {"hd", "wd"} /\ ChunkOf(q) = ChunkOf(o)
      <4>1. q.pos \in 1 .. Len(Stream)
        BY <1>1, <2>1 DEF ReqType, Curl!CurlAssumption
      <4> QED
        BY <1>4, <4>1, StreamHas DEF ChunkOf, UnpausedAs
    <3>2. o.used > 0 => (ChunkOf(q).t \in Curl!Wanted(q.rt) <=> (o.rt \notin {"hd", "wd"} \/ o.pauseType = o.rt))
      <4>1. o.rt \in {"hd", "wd", "hd_until_wd", "wd_until_hd", "hd_wd"}
        BY <1>1 DEF ReqType, ReadKinds
      <4>3. /\ Curl!Wanted("hd") = {"hd"} /\ Curl!Wanted("wd") = {"wd"} /\ Curl!Wanted("hd_wd") = {"hd", "wd"}
            /\ Curl!Wanted("hd_until_wd") = {"hd"} /\ Curl!Wanted("wd_until_hd") = {"wd"}
            /\ Curl!Until("hd_until_wd") /\ Curl!Until("wd_until_hd")
        BY DEF Curl!Wanted, Curl!Until
      <4>4. q.rt = o.rt
        BY <1>4 DEF UnpausedAs
      <4> QED
        BY <1>5, <2>3, <3>1, <4>1, <4>3, <4>4
    <3>3. q.used \in Nat /\ o.used \in Nat /\ q.at \in Nat /\ d.used \in Nat
      BY <1>1, <2>2 DEF ReqType
    <3>4. DeliveredAs(d, q)
      BY <1>4, <2>2, <3>2, <3>3 DEF UnpausedAs
    <3>5. d.pc = "waiting" /\ d.cont /\ d.scb = q.scb /\ d.ways = q.ways /\ d.stop = q.stop
      BY <1>4, <1>5, <2>2, <2>3 DEF Alike, UnpausedAs
    <3>6. Loose(q) \/ (q.inOrder /\ (ChunkOf(q).t \in Curl!Wanted(q.rt) => q.at = q.used))
      BY <1>4, <1>5, <2>3, <3>2, <3>3 DEF UnpausedAs
    <3>7. d.inOrder = (q.inOrder /\ (ChunkOf(q).t \in Curl!Wanted(q.rt) => q.at = q.used))
      BY <3>4 DEF DeliveredAs
    <3>8. Loose(d) \/ (d.inOrder /\ d.at = d.used)
      <4>1. CASE Loose(q)
        <5>1. q.odd \subseteq d.odd
          BY <3>4 DEF DeliveredAs
        <5> QED
          BY <4>1, <5>1 DEF Loose
      <4>2. CASE ~Loose(q)
        <5>1. d.inOrder
          BY <3>6, <3>7, <4>2
        <5>2. CASE d.state = "running" /\ d.used = 0 /\ d.at = 0
          BY <5>1, <5>2
        <5>3. CASE q.armed
          BY <1>4, <5>3 DEF UnpausedAs
        <5>4. CASE /\ d.at = q.at + d.used /\ d.pos = q.pos /\ d.pauseType = ChunkOf(d).t
                   /\ d.odd = q.odd \cup (IF q.used > 0 THEN {"twice"} ELSE {})
          <6>1. CASE q.used > 0
            BY <5>4, <6>1 DEF Loose
          <6>2. CASE q.used = 0
            <7>1. q.at = 0
              <8>1. CASE ChunkOf(q).t \in Curl!Wanted(q.rt)
                BY <3>6, <4>2, <6>2, <8>1
              <8>2. CASE ChunkOf(q).t \notin Curl!Wanted(q.rt)
                <9>1. Curl!Callback(q) = "drop"
                  BY <1>4, <8>2 DEF Curl!Callback, ChunkOf, UnpausedAs
                <9>2. d = [q EXCEPT !.pos = @ + 1, !.at = 0]
                  BY <2>1, <9>1 DEF Curl!Deliver
                <9>3. d.pos = q.pos + 1 /\ q.pos \in Nat
                  BY <1>1, <9>2 DEF ReqType
                <9> QED
                  BY <5>4, <9>3
              <8> QED
                BY <8>1, <8>2
            <7> QED
              BY <3>3, <5>1, <5>4, <7>1
          <6> QED
            BY <3>3, <6>1, <6>2
        <5> QED
          BY <3>4, <5>2, <5>3, <5>4 DEF DeliveredAs
      <4> QED
        BY <4>1, <4>2
    <3>9. d.state = "paused" /\ d.used > 0 => d.pos <= Len(Stream) /\ d.pauseType = Stream[d.pos].t
      BY <2>1, <3>4 DEF DeliveredAs, ChunkOf
    <3>10. d.state \in {"running", "paused"} /\ (d.state # "paused" => d.used = 0)
      BY <3>4 DEF DeliveredAs
    <3> QED
      BY <1>5, <2>3, <3>5, <3>8, <3>9, <3>10 DEF ReqOk
  <2>4. Whole(o) => d.pc = "waiting" /\ d.cont /\ d.ways = q.ways
    BY <1>4, <1>5, <2>2 DEF Alike, UnpausedAs
  <2> QED
    BY <1>3, <1>5, <2>2, <2>3, <2>4 DEF o
<1> QED
  BY <1>6, <1>7

\* Another request that is paused takes the place of one that nobody will resume then.
LEMMA PassedOn ==
    ASSUME Curl!CurlAssumption, CurlInv, NEW a \in Requests, NEW q \in ReqType,
           CurlOk([req EXCEPT ![a] = q], done, Curl!PausedAfter(a, q), todo)
    PROVE  CurlOk(Curl!Passed(a, q), done, Curl!PausedAfter(a, q), todo)
<1> DEFINE rq == [req EXCEPT ![a] = q]
           pr == Curl!PausedAfter(a, q)
           b == pausedReq
<1>1. CurlOk(rq, done, pr, todo) /\ rq \in [Requests -> ReqType] /\ None \notin Requests /\ b \in Requests \cup {None}
  BY CurlFacts DEF CurlOk, Curl!CurlAssumption
<1>2. CASE q.state # "paused" \/ b \in {None, a}
  BY <1>1, <1>2 DEF Curl!Passed
<1>3. CASE ~(q.state # "paused" \/ b \in {None, a})
  <2> DEFINE d == Curl!Odd(rq[b], "stranded")
  <2>1. Curl!Passed(a, q) = [rq EXCEPT ![b] = d] /\ b \in Requests
    BY <1>1, <1>3 DEF Curl!Passed
  <2> HIDE DEF rq, pr, b
  <2> DEFINE g == rq[b]
             od == g.odd \cup {"stranded"}
  <2>2. g \in ReqType /\ g.odd \in SUBSET Curl!Oddities
    BY <1>1, <2>1 DEF ReqType
  <2>3. od \in SUBSET Curl!Oddities
    BY <2>2, CurlValues
  <2>4. d = [g EXCEPT !.odd = od]
    BY DEF Curl!Odd
  <2> HIDE DEF g, od, d
  <2>5. /\ d \in ReqType /\ Alike(d, g) /\ d.state = g.state /\ d.pos = g.pos /\ d.used = g.used /\ d.at = g.at
        /\ d.inOrder = g.inOrder /\ d.armed = g.armed /\ d.pauseType = g.pauseType /\ d.odd = od
    BY <2>2, <2>3, <2>4 DEF ReqType, Alike
  <2>6. Whole(d) => Whole(g)
    BY <2>5 DEF Whole, od
  <2>7. ReqOk(g) => ReqOk(d)
    <3>1. Loose(g) => Loose(d)
      BY <2>5 DEF Loose, od
    <3> QED
      BY <2>5, <3>1 DEF ReqOk, Alike
  <2>8. Held(g, b, done, pr, todo) => Held(d, b, done, pr, todo)
    BY <2>5 DEF Held, Ready, Alike
  <2>9. Whole(g) => ReqOk(g) /\ Held(g, b, done, pr, todo)
    BY <1>1, <2>1 DEF CurlOk, g
  <2>10. DoneOk(done) /\ todo \subseteq Sources \X Requests
    BY CurlFacts, <2>1
  <2>11. CurlOk([rq EXCEPT ![b] = d], done, pr, todo)
    BY <1>1, <2>1, <2>5, <2>6, <2>7, <2>8, <2>9, <2>10, CurlSet
  <2> QED
    BY <2>1, <2>11 DEF pr
<1> QED
  BY <1>2, <1>3

\* A paused transfer goes on, with what was left of the chunk, or curl does not let it.
LEMMA TransferUnpaused ==
    ASSUME Curl!CurlAssumption, CurlInv, ~asserted, NEW a \in Requests, Curl!Unpause(a)
    PROVE  CurlInv'
<1> DEFINE o == req[a]
           q == [Curl!InitCallbacks(o) EXCEPT !.state = "running", !.pc = "waiting"]
           d == Curl!Remaining(q)
<1>1. /\ o \in ReqType /\ o.pc = "lock" /\ o.st = "paused" /\ UNCHANGED <<done, todo, asserted>>
      /\ Curl!UnpauseOk(a, q) \/ Curl!UnpauseFails(a, q)
      /\ CurlOk(req, done, pausedReq, todo) /\ DoneOk(done) /\ todo \subseteq Sources \X Requests
      /\ None \notin Requests
  BY CurlFacts DEF Curl!Unpause, Curl!CurlAssumption
<1>2. UnpausedAs(q, o)
  BY <1>1, UnpausedIs
<1>3. d = Curl!Remaining(q)
  OBVIOUS
<1> HIDE DEF q, d
<1>4. /\ d \in ReqType /\ Alike(d, q) /\ (Whole(d) <=> Whole(o))
      /\ Whole(d) => ReqOk(d) /\ d.state \in {"running", "paused"} /\ d.pc = "waiting" /\ d.cont
                     /\ "pieces" \in d.ways
  BY <1>1, <1>2, <1>3, Remains
<1>5. Whole(o) => ~TakenIn(todo, a) /\ pausedReq # a /\ ~HasMsg(done, a) /\ ReqOk(o)
  BY <1>1, Quiet
<1>6. CASE Curl!UnpauseOk(a, q)
  <2> DEFINE pr == Curl!PausedAfter(a, d)
  <2>1. req' = Curl!Passed(a, d) /\ pausedReq' = pr
    BY <1>3, <1>6 DEF Curl!UnpauseOk
  <2>2. pr = IF d.state = "paused" THEN a ELSE pausedReq
    BY DEF Curl!PausedAfter
  <2>3. Whole(d) => ReqOk(d) /\ Held(d, a, done, pr, todo)
    <3> SUFFICES ASSUME Whole(d) PROVE ReqOk(d) /\ Held(d, a, done, pr, todo)
      OBVIOUS
    <3>1. pr # a \/ Ready(d)
      BY <1>4, <1>5, <2>2 DEF Ready, Curl!Resumable
    <3> QED
      BY <1>4, <1>5, <3>1, NotHeld
  <2>4. pr \in {pausedReq, a, None}
    BY <2>2
  <2> HIDE DEF pr
  <2>5. CurlOk([req EXCEPT ![a] = d], done, pr, todo)
    BY <1>1, <1>4, <2>3, <2>4, CurlSet
  <2>6. CurlOk(Curl!Passed(a, d), done, pr, todo)
    BY <1>4, <2>5, PassedOn DEF pr
  <2> QED
    BY <1>1, <2>1, <2>6 DEF CurlInv, AssertOk
<1>7. CASE Curl!UnpauseFails(a, q)
  <2>1. PICK e \in {q, d} :
            /\ e.state = "running" /\ UNCHANGED pausedReq
            /\ req' = [req EXCEPT ![a] = [Curl!Odd(e, "refused") EXCEPT !.state = "paused", !.pc = "resumed",
                                                    !.ec = IF @ = "ok" THEN "failed" ELSE @]]
    BY <1>3, <1>7 DEF Curl!UnpauseFails
  <2> DEFINE od == e.odd \cup {"refused"}
             g == Curl!Odd(e, "refused")
             ec2 == IF e.ec = "ok" THEN "failed" ELSE e.ec
             h == [g EXCEPT !.state = "paused", !.pc = "resumed", !.ec = ec2]
  <2>2. e \in ReqType
    BY <1>2, <1>4, <2>1 DEF UnpausedAs
  <2>3. od \in SUBSET Curl!Oddities /\ ec2 \in Outcomes
    BY <2>2, CurlValues DEF ReqType
  <2>4. g = [e EXCEPT !.odd = od]
    BY DEF Curl!Odd
  <2> HIDE DEF g, od
  <2>5. /\ g \in ReqType /\ Alike(g, e) /\ g.pos = e.pos /\ g.used = e.used /\ g.at = e.at
        /\ g.inOrder = e.inOrder /\ g.armed = e.armed /\ g.pauseType = e.pauseType /\ g.odd = od
    BY <2>2, <2>3, <2>4 DEF ReqType, Alike
  <2>6. req' = [req EXCEPT ![a] = h]
    BY <2>1, <2>5 DEF Alike, g
  <2> HIDE DEF ec2
  <2>7. /\ h \in ReqType /\ h.state = "paused" /\ h.pc = "resumed" /\ h.pos = g.pos /\ h.used = g.used
        /\ h.armed = g.armed /\ h.pauseType = g.pauseType /\ h.odd = g.odd /\ h.rt = g.rt
        /\ h.scb = g.scb /\ h.ways = g.ways /\ h.stop = g.stop
    BY <2>3, <2>5, CurlValues DEF ReqType
  <2> HIDE DEF h
  <2>8. Whole(h) => Whole(e)
    BY <2>5, <2>7 DEF Whole, od
  <2>9. Whole(e) => Whole(o)
    BY <1>2, <1>4, <2>1 DEF Whole, UnpausedAs
  <2>10. ASSUME Whole(h) PROVE ReqOk(h)
    <3>1. /\ ReqOk(o) /\ o.state = "paused"
      BY <1>1, <1>5, <2>8, <2>9, <2>10 DEF ReqOk
    <3>2. /\ ~({"pieces", "stop"} \subseteq e.ways) /\ (e.stop => "stop" \in e.ways)
          /\ (e.scb = "called" => "stop" \in e.ways) /\ "pieces" \in e.ways
      <4>1. CASE e = q
        BY <1>2, <3>1, <4>1 DEF UnpausedAs, ReqOk
      <4>2. CASE e = d
        BY <1>4, <2>8, <2>10, <4>2 DEF ReqOk
      <4> QED
        BY <2>1, <4>1, <4>2
    <3>3. e.used > 0 => e.pos <= Len(Stream) /\ e.pauseType = Stream[e.pos].t
      <4>1. CASE e = q
        BY <1>2, <3>1, <4>1 DEF UnpausedAs, ReqOk
      <4>2. CASE e = d
        <5>1. e.used = 0
          BY <1>4, <2>1, <2>8, <2>10, <4>2 DEF ReqOk
        <5> QED
          BY <5>1
      <4> QED
        BY <2>1, <4>1, <4>2
    <3>4. Loose(h)
      BY <2>5, <2>7 DEF Loose, od
    <3>5. h.ways = e.ways /\ h.stop = e.stop /\ h.scb = e.scb
      BY <2>5, <2>7 DEF Alike
    <3> QED
      BY <2>5, <2>7, <3>2, <3>3, <3>4, <3>5 DEF ReqOk
  <2> QED
    BY <1>1, <2>1, <2>6, <2>7, <2>8, <2>9, <2>10, AwaiterMoves DEF o
<1> QED
  BY <1>1, <1>6, <1>7

\* A step changes one request, and what is taken of it.
LEMMA OneMoves ==
    ASSUME Curl!CurlAssumption, CurlInv, ~asserted, NEW a \in Requests,
           NEW q \in ReqType, req' = [req EXCEPT ![a] = q],
           Whole(q) => ReqOk(q) /\ Held(q, a, done', pausedReq', todo'),
           DoneOk(done'), \A s \in Requests \ {a} : HasMsg(done', s) => HasMsg(done, s),
           todo' \subseteq Sources \X Requests, \A x \in todo' : x[2] = a \/ x \in todo,
           pausedReq' \in {pausedReq, a, None}, UNCHANGED asserted
    PROVE  CurlInv'
<1>1. CurlOk(req, done, pausedReq, todo) /\ None \notin Requests
  BY DEF CurlInv, Curl!CurlAssumption
<1>2. CurlOk([req EXCEPT ![a] = q], done', pausedReq', todo')
  BY <1>1, CurlSet
<1> QED
  BY <1>2 DEF CurlInv, AssertOk

\* take_result()
LEMMA ResultTaken ==
    ASSUME Curl!CurlAssumption, CurlInv, ~asserted, NEW a \in Requests, Curl!TakeResult(a)
    PROVE  CurlInv'
<1> DEFINE q == req[a]
           od == q.odd \ {"stranded"}
           q1 == [q EXCEPT !.ec = "ok", !.scb = "none", !.pc = "idle", !.st = "reseted", !.rt = "hd_wd", !.room = 0,
                           !.armed = FALSE, !.odd = od]
<1>1. /\ q \in ReqType /\ q.pc = "resumed" /\ UNCHANGED <<done, pausedReq, todo, asserted>>
      /\ req' = [req EXCEPT ![a].ec = "ok", ![a].scb = "none", ![a].pc = "idle", ![a].st = "reseted",
                            ![a].rt = "hd_wd", ![a].room = 0, ![a].armed = FALSE, ![a].odd = @ \ {"stranded"}]
  BY CurlFacts DEF Curl!TakeResult
<1>2. req' = [req EXCEPT ![a] = q1]
  BY <1>1, CurlFacts
<1>3. Whole(q) => ReqOk(q) /\ q.state # "running"
  BY <1>1, Quiet
<1> HIDE DEF q
<1>4. od \in SUBSET Curl!Oddities
  BY <1>1 DEF ReqType
<1> HIDE DEF od
<1>5. /\ q1 \in ReqType /\ q1.pc = "idle" /\ q1.state = q.state /\ q1.scb = "none"
      /\ q1.pos = q.pos /\ q1.used = q.used /\ q1.rt = "hd_wd" /\ q1.armed = FALSE /\ q1.pauseType = q.pauseType
      /\ q1.inOrder = q.inOrder /\ q1.at = q.at /\ q1.odd = od /\ q1.ways = q.ways /\ q1.stop = q.stop
  <2>1. /\ "ok" \in Outcomes /\ "none" \in StopStates /\ "idle" \in Places /\ "reseted" \in LifeStates
        /\ "hd_wd" \in ReadKinds
    BY CurlValues
  <2> QED
    BY <1>1, <1>4, <2>1 DEF ReqType
<1> HIDE DEF q1
<1>6. Whole(q1) => Whole(q) /\ ReqOk(q1)
  <2>1. (Whole(q1) => Whole(q)) /\ (Loose(q) => Loose(q1))
    BY <1>5 DEF Whole, Loose, od
  <2> QED
    BY <1>3, <1>5, <2>1 DEF ReqOk
<1> QED
  BY <1>1, <1>2, <1>5, <1>6, AwaiterMoves DEF q

\* A stop is requested, at any point of a read.
LEMMA StopRequested ==
    ASSUME Curl!CurlAssumption, CurlInv, ~asserted, NEW a \in Requests, Curl!RequestStop(a)
    PROVE  CurlInv'
<1> DEFINE q == req[a]
           sb == IF q.scb = "armed" THEN "called" ELSE q.scb
           q1 == [q EXCEPT !.stop = TRUE, !.scb = sb]
<1>1. /\ q \in ReqType /\ "stop" \in q.ways /\ UNCHANGED <<done, pausedReq, todo, asserted>>
      /\ req' = [req EXCEPT ![a].stop = TRUE, ![a].scb = sb]
      /\ DoneOk(done) /\ todo \subseteq Sources \X Requests
      /\ Whole(q) => ReqOk(q) /\ Held(q, a, done, pausedReq, todo)
  BY CurlFacts DEF Curl!RequestStop
<1>2. req' = [req EXCEPT ![a] = q1]
  BY <1>1, CurlFacts
<1> HIDE DEF q
<1>3. sb \in StopStates
  BY <1>1, CurlValues DEF ReqType
<1> HIDE DEF sb
<1>4. /\ q1 \in ReqType /\ q1.pc = q.pc /\ q1.state = q.state /\ q1.st = q.st /\ q1.cont = q.cont
      /\ q1.pos = q.pos /\ q1.used = q.used /\ q1.rt = q.rt /\ q1.armed = q.armed /\ q1.pauseType = q.pauseType
      /\ q1.inOrder = q.inOrder /\ q1.at = q.at /\ q1.odd = q.odd /\ q1.ways = q.ways
  BY <1>1, <1>3 DEF ReqType
<1> HIDE DEF q1
<1>5. Whole(q1) => ReqOk(q1) /\ Held(q1, a, done, pausedReq, todo)
  BY <1>1, <1>4 DEF ReqOk, Held, Ready, Whole, Loose
<1> QED
  BY <1>1, <1>2, <1>4, <1>5, OneMoves DEF q

\* A request is resumed outside of the critical section, or found with nobody to resume.
LEMMA RequestResumed ==
    ASSUME Curl!CurlAssumption, CurlInv, ~asserted, NEW x \in todo, Curl!Resume(x[1], x[2])
    PROVE  CurlInv'
<1> DEFINE a == x[2]
           q == req[a]
           q1 == [q EXCEPT !.cont = FALSE, !.pc = "resumed"]
<1>0. /\ x \in Sources \X Requests /\ DoneOk(done) /\ todo \subseteq Sources \X Requests
      /\ CurlOk(req, done, pausedReq, todo) /\ None \notin Requests
  BY DEF CurlInv, CurlOk, Curl!CurlAssumption
<1>1. a \in Requests /\ TakenIn(todo, a) /\ x = <<x[1], a>>
  BY <1>0 DEF TakenIn
<1>2. /\ q \in ReqType /\ UNCHANGED <<done, pausedReq>> /\ todo' = todo \ {<<x[1], a>>}
      /\ IF Ready(q) THEN req' = [req EXCEPT ![a].cont = FALSE, ![a].pc = "resumed"] /\ UNCHANGED asserted
         ELSE asserted' = TRUE /\ UNCHANGED req
      /\ Whole(q) => ReqOk(q) /\ Held(q, a, done, pausedReq, todo)
      /\ req \in [Requests -> ReqType]
  BY <1>1, CurlFacts DEF Curl!Resume, Ready
<1>4. todo' \subseteq todo /\ (Whole(q) => ~TakenIn(todo', a))
  <2>1. todo' = todo \ {x}
    BY <1>1, <1>2
  <2>2. ASSUME Whole(q), NEW y \in todo', y[2] = a PROVE FALSE
    <3>1. y = x
      BY <1>2, <2>1, <2>2 DEF Held
    <3> QED
      BY <2>1, <2>2, <3>1
  <2> QED
    BY <2>1, <2>2 DEF TakenIn
<1> HIDE DEF a, q
<1>5. CASE Ready(q)
  <2>1. req' = [req EXCEPT ![a] = q1]
    BY <1>1, <1>2, <1>5 DEF q
  <2>2. /\ q1 \in ReqType /\ q1.pc = "resumed" /\ q1.state = q.state /\ q1.scb = q.scb
        /\ q1.pos = q.pos /\ q1.used = q.used /\ q1.rt = q.rt /\ q1.armed = q.armed /\ q1.pauseType = q.pauseType
        /\ q1.inOrder = q.inOrder /\ q1.at = q.at /\ q1.odd = q.odd /\ q1.ways = q.ways /\ q1.stop = q.stop
    <3>1. "resumed" \in Places
      BY CurlValues
    <3> QED
      BY <1>2, <3>1 DEF ReqType
  <2> HIDE DEF q1
  <2>3. Whole(q1) => ReqOk(q1) /\ Held(q1, a, done', pausedReq', todo')
    <3> SUFFICES ASSUME Whole(q1) PROVE ReqOk(q1) /\ Held(q1, a, done, pausedReq, todo')
      BY <1>2
    <3>1. Whole(q) /\ ReqOk(q) /\ Held(q, a, done, pausedReq, todo) /\ q.state # "running"
      BY <1>2, <1>5, <2>2 DEF Whole, Ready, Curl!Resumable
    <3>2. pausedReq # a /\ ~HasMsg(done, a) /\ ~TakenIn(todo', a)
      BY <1>1, <1>4, <3>1 DEF Held
    <3>3. Held(q1, a, done, pausedReq, todo')
      BY <3>2, NotHeld
    <3>4. ReqOk(q1)
      BY <2>2, <3>1 DEF ReqOk, Loose
    <3> QED
      BY <3>3, <3>4
  <2>4. \A y \in todo' : y[2] = a \/ y \in todo
    BY <1>4
  <2> QED
    BY <1>0, <1>1, <1>2, <1>4, <1>5, <2>1, <2>2, <2>3, <2>4, OneMoves
<1>6. CASE ~Ready(q)
  <2>1. ~Whole(q)
    BY <1>1, <1>2, <1>6 DEF Held
  <2>2. CurlOk([req EXCEPT ![a] = q], done, pausedReq, todo')
    BY <1>0, <1>1, <1>2, <1>4, <2>1, CurlSet
  <2>3. [req EXCEPT ![a] = q] = req
    BY <1>2 DEF q
  <2> QED
    BY <1>1, <1>2, <1>6, <2>1, <2>2, <2>3 DEF CurlInv, AssertOk, q
<1> QED
  BY <1>5, <1>6

\* The messages after one more has come
LEMMA MessageCame ==
    ASSUME NEW dn, DoneOk(dn), NEW m \in Requests \X {"ok", "failed"}, ~HasMsg(dn, m[1])
    PROVE  /\ DoneOk(Append(dn, m))
           /\ \A s : HasMsg(Append(dn, m), s) => s = m[1] \/ HasMsg(dn, s)
<1> DEFINE d2 == Append(dn, m)
           l == Len(dn)
<1>1. dn \in Seq(Requests \X {"ok", "failed"}) /\ \A k, j \in 1 .. l : dn[k][1] = dn[j][1] => k = j
  BY DEF DoneOk
<1>2. /\ d2 \in Seq(Requests \X {"ok", "failed"}) /\ Len(d2) = l + 1 /\ d2[l + 1] = m /\ l \in Nat
      /\ \A k \in 1 .. l : d2[k] = dn[k]
  BY <1>1
<1>3. \A k \in 1 .. l : dn[k][1] # m[1]
  BY DEF HasMsg
<1> HIDE DEF d2, l
<1>4. \A k \in 1 .. l + 1 : k \in 1 .. l \/ k = l + 1
  BY <1>2
<1>5. \A k, j \in 1 .. Len(d2) : d2[k][1] = d2[j][1] => k = j
  BY <1>1, <1>2, <1>3, <1>4
<1>6. \A s : HasMsg(d2, s) => s = m[1] \/ HasMsg(dn, s)
  BY <1>2, <1>4 DEF HasMsg, l
<1> QED
  BY <1>2, <1>5, <1>6 DEF DoneOk, d2

\* The messages after the first was taken
LEMMA MessageTaken ==
    ASSUME NEW dn, DoneOk(dn), dn # <<>>
    PROVE  /\ DoneOk(Tail(dn)) /\ dn[1] \in Requests \X {"ok", "failed"} /\ HasMsg(dn, dn[1][1])
           /\ \A s : HasMsg(Tail(dn), s) => HasMsg(dn, s) /\ s # dn[1][1]
<1> DEFINE d2 == Tail(dn)
           l == Len(dn)
<1>1. dn \in Seq(Requests \X {"ok", "failed"}) /\ \A k, j \in 1 .. l : dn[k][1] = dn[j][1] => k = j
  BY DEF DoneOk
<1>2. /\ d2 \in Seq(Requests \X {"ok", "failed"}) /\ Len(d2) = l - 1 /\ l \in Nat \ {0}
      /\ \A k \in 1 .. l - 1 : d2[k] = dn[k + 1]
  BY <1>1
<1> HIDE DEF d2, l
<1>3. 1 \in 1 .. l /\ dn[1] \in Requests \X {"ok", "failed"}
  <2>1. 1 \in 1 .. Len(dn)
    BY <1>2 DEF l
  <2> QED
    BY <1>1, <2>1, ElementOfSeq DEF l
<1>4. \A k \in 1 .. l - 1 : k + 1 \in 1 .. l /\ k + 1 # 1
  BY <1>2
<1>5. \A k, j \in 1 .. Len(d2) : d2[k][1] = d2[j][1] => k = j
  <2> SUFFICES ASSUME NEW k \in 1 .. Len(d2), NEW j \in 1 .. Len(d2), d2[k][1] = d2[j][1] PROVE k = j
    OBVIOUS
  <2>1. dn[k + 1][1] = dn[j + 1][1] /\ k + 1 \in 1 .. l /\ j + 1 \in 1 .. l
    BY <1>2, <1>4
  <2>2. k + 1 = j + 1
    BY <1>1, <2>1
  <2> QED
    BY <1>2, <2>2
<1>6. ASSUME NEW s, HasMsg(d2, s) PROVE HasMsg(dn, s) /\ s # dn[1][1]
  <2>1. PICK k \in 1 .. l - 1 : d2[k][1] = s
    BY <1>2, <1>6 DEF HasMsg
  <2>2. k + 1 \in 1 .. l /\ k + 1 # 1 /\ dn[k + 1][1] = s
    BY <1>2, <1>4, <2>1
  <2> QED
    BY <1>1, <1>3, <2>2 DEF HasMsg, l
<1>7. HasMsg(dn, dn[1][1])
  BY <1>3 DEF HasMsg, l
<1> QED
  BY <1>2, <1>3, <1>5, <1>6, <1>7 DEF DoneOk, d2

\* The messages without that of a transfer that is removed
LEMMA MessageDropped ==
    ASSUME DoneOk(done), NEW a \in Requests
    PROVE  /\ DoneOk(Curl!Without(a))
           /\ \A s : HasMsg(Curl!Without(a), s) => HasMsg(done, s) /\ s # a
<1> DEFINE l == Len(done)
           of == {k \in DOMAIN done : done[k][1] = a}
           j == Curl!Min(of)
           d2 == Curl!RemoveAt(done, j)
<1>1. done \in Seq(Requests \X {"ok", "failed"}) /\ \A k, m \in 1 .. l : done[k][1] = done[m][1] => k = m
  BY DEF DoneOk
<1>2. DOMAIN done = 1 .. l /\ l \in Nat
  BY <1>1
<1>3. CASE of = {}
  <2>1. Curl!Without(a) = done
    BY <1>3 DEF Curl!Without
  <2>2. \A s : HasMsg(done, s) => s # a
    BY <1>2, <1>3 DEF HasMsg
  <2> QED
    BY <2>1, <2>2
<1>4. CASE of # {}
  <2>1. Curl!Without(a) = d2
    BY <1>4 DEF Curl!Without
  <2>2. j \in 1 .. l /\ done[j][1] = a
    <3>1. PICK k \in of : TRUE
      BY <1>4
    <3>2. of = {k}
      BY <1>1, <1>2
    <3>3. Curl!Min({k}) = k
      <4>1. k \in Int
        BY <1>2
      <4> QED
        BY <4>1 DEF Curl!Min
    <3> QED
      BY <1>2, <3>1, <3>2, <3>3
  <2>3. d2 = SubSeq(done, 1, j - 1) \o SubSeq(done, j + 1, l)
    BY DEF Curl!RemoveAt
  <2> HIDE DEF j, d2, l, of
  <2> DEFINE d3 == SubSeq(done, 1, j - 1)
             d4 == SubSeq(done, j + 1, l)
  <2>4. /\ d3 \in Seq(Requests \X {"ok", "failed"}) /\ Len(d3) = j - 1 /\ \A k \in 1 .. j - 1 : d3[k] = done[k]
    <3>1. j - 1 \in Int /\ 1 \in Int /\ \A k \in 1 .. j - 1 : done[k] \in Requests \X {"ok", "failed"}
      <4>1. \A k \in 1 .. j - 1 : k \in 1 .. l
        BY <1>2, <2>2
      <4> QED
        BY <1>1, <1>2, <2>2, <4>1, ElementOfSeq DEF l
    <3>2. /\ d3 \in Seq(Requests \X {"ok", "failed"})
          /\ Len(d3) = (IF 1 <= j - 1 THEN (j - 1) - 1 + 1 ELSE 0)
          /\ \A k \in 1 .. (j - 1) - 1 + 1 : d3[k] = done[1 + k - 1]
      BY <3>1, SubSeqProperties
    <3> QED
      BY <1>2, <2>2, <3>2
  <2>5. /\ d4 \in Seq(Requests \X {"ok", "failed"}) /\ Len(d4) = l - j /\ \A k \in 1 .. l - j : d4[k] = done[k + j]
    <3>1. j + 1 \in Int /\ l \in Int /\ \A k \in j + 1 .. l : done[k] \in Requests \X {"ok", "failed"}
      <4>1. \A k \in j + 1 .. l : k \in 1 .. l
        BY <1>2, <2>2
      <4> QED
        BY <1>1, <1>2, <2>2, <4>1, ElementOfSeq DEF l
    <3>2. /\ d4 \in Seq(Requests \X {"ok", "failed"})
          /\ Len(d4) = (IF j + 1 <= l THEN l - (j + 1) + 1 ELSE 0)
          /\ \A k \in 1 .. l - (j + 1) + 1 : d4[k] = done[(j + 1) + k - 1]
      BY <3>1, SubSeqProperties
    <3> QED
      BY <1>2, <2>2, <3>2
  <2> HIDE DEF d3, d4
  <2>6. /\ d2 \in Seq(Requests \X {"ok", "failed"}) /\ Len(d2) = l - 1
        /\ \A k \in 1 .. l - 1 : d2[k] = done[IF k < j THEN k ELSE k + 1]
    <3>1. d2 = d3 \o d4
      BY <2>3 DEF d3, d4
    <3>2. d2 \in Seq(Requests \X {"ok", "failed"}) /\ Len(d2) = Len(d3) + Len(d4)
      BY <2>4, <2>5, <3>1, ConcatProperties
    <3>3. Len(d2) = l - 1
      BY <1>2, <2>2, <2>4, <2>5, <3>2
    <3>4. ASSUME NEW k \in 1 .. l - 1, k < j PROVE d2[k] = done[k]
      <4>1. k \in 1 .. j - 1
        BY <1>2, <2>2, <3>4
      <4>2. d2[k] = d3[k]
        BY <2>4, <2>5, <3>1, <4>1
      <4> QED
        BY <2>4, <4>1, <4>2
    <3>5. ASSUME NEW k \in 1 .. l - 1, ~(k < j) PROVE d2[k] = done[k + 1]
      <4>1. k - (j - 1) \in 1 .. l - j /\ k - (j - 1) + j = k + 1
        BY <1>2, <2>2, <3>5
      <4>2. d2[k] = d4[k - (j - 1)]
        BY <1>2, <2>2, <2>4, <2>5, <3>1, <3>5
      <4> QED
        BY <2>5, <4>1, <4>2
    <3> QED
      BY <3>2, <3>3, <3>4, <3>5
  <2> DEFINE at(k) == IF k < j THEN k ELSE k + 1
  <2>7. \A k \in 1 .. l - 1 : at(k) \in 1 .. l /\ at(k) # j
    BY <1>2, <2>2
  <2>8. \A k, m \in 1 .. l - 1 : at(k) = at(m) => k = m
    BY <1>2, <2>2
  <2>9. \A k \in 1 .. l - 1 : d2[k] = done[at(k)]
    BY <2>6
  <2> HIDE DEF at
  <2>10. \A k, m \in 1 .. Len(d2) : d2[k][1] = d2[m][1] => k = m
    <3> SUFFICES ASSUME NEW k \in 1 .. l - 1, NEW m \in 1 .. l - 1, d2[k][1] = d2[m][1] PROVE k = m
      BY <2>6
    <3>1. done[at(k)][1] = done[at(m)][1] /\ at(k) \in 1 .. l /\ at(m) \in 1 .. l
      BY <2>7, <2>9
    <3>2. at(k) = at(m)
      BY <1>1, <3>1 DEF l
    <3> QED
      BY <2>8, <3>2
  <2>11. ASSUME NEW s, HasMsg(d2, s) PROVE HasMsg(done, s) /\ s # a
    <3>1. PICK k \in 1 .. l - 1 : d2[k][1] = s
      BY <2>6, <2>11 DEF HasMsg
    <3>2. done[at(k)][1] = s /\ at(k) \in 1 .. l /\ at(k) # j
      BY <2>7, <2>9, <3>1
    <3> QED
      BY <1>1, <2>2, <3>2 DEF HasMsg, l
  <2> QED
    BY <2>1, <2>6, <2>10, <2>11 DEF DoneOk
<1> QED
  BY <1>3, <1>4

\* One more request was taken.
LEMMA OneTaken ==
    ASSUME NEW td, td \subseteq Sources \X Requests, NEW a \in Requests, NEW src \in Sources,
           NEW q, Ready(q), NEW dn, ~HasMsg(dn, a), NEW pr, pr # a, ~TakenIn(td, a)
    PROVE  /\ td \cup {<<src, a>>} \subseteq Sources \X Requests
           /\ Held(q, a, dn, pr, td \cup {<<src, a>>})
  BY DEF Held, TakenIn

\* remove_from_multi()
RemovedAs(d, q) ==
    /\ d \in ReqType /\ d.state = "finished" /\ d.pc = q.pc /\ d.cont = q.cont /\ d.scb = q.scb
    /\ d.st = q.st /\ d.used = q.used /\ d.rt = q.rt /\ d.armed = q.armed /\ d.pauseType = q.pauseType
    /\ d.inOrder = q.inOrder /\ d.at = 0 /\ d.odd = q.odd /\ d.ways = q.ways /\ d.stop = q.stop
\* It leaves what the awaiter has set.
LEMMA Removes ==
    ASSUME NEW q \in ReqType, NEW err \in Outcomes
    PROVE  RemovedAs(Curl!RemovedReq(q, err), q)
<1> DEFINE e == IF q.ec = "ok" THEN err ELSE q.ec
           k == 1
           d == [q EXCEPT !.ec = e, !.state = "finished", !.pos = k, !.at = 0]
<1>1. Curl!RemovedReq(q, err) = d /\ k \in Nat \ {0}
  BY DEF Curl!RemovedReq
<1> HIDE DEF k
<1>2. e \in Outcomes /\ "finished" \in LifeStates
  BY CurlValues DEF ReqType
<1> HIDE DEF e
<1>3. d \in ReqType
  BY <1>1, <1>2 DEF ReqType
<1>4. /\ d.state = "finished" /\ d.pc = q.pc /\ d.cont = q.cont /\ d.scb = q.scb
      /\ d.st = q.st /\ d.used = q.used /\ d.rt = q.rt /\ d.armed = q.armed /\ d.pauseType = q.pauseType
      /\ d.inOrder = q.inOrder /\ d.at = 0 /\ d.odd = q.odd /\ d.ways = q.ways /\ d.stop = q.stop
  BY DEF ReqType
<1> QED
  BY <1>1, <1>3, <1>4 DEF RemovedAs

\* One that ran may be resumed then.
LEMMA RemovedReady ==
    ASSUME NEW q \in ReqType, q.state = "running", NEW d, RemovedAs(d, q)
    PROVE  (Whole(d) <=> Whole(q)) /\ (ReqOk(q) => ReqOk(d) /\ Ready(d))
<1>1. Whole(d) <=> Whole(q)
  BY DEF Whole, RemovedAs
<1>2. ASSUME ReqOk(q) PROVE ReqOk(d) /\ Ready(d)
  BY <1>2 DEF ReqOk, RemovedAs, Ready, Loose, Curl!Resumable
<1> QED
  BY <1>1, <1>2

\* The stop callback removes a transfer that was added, and resumes its request.
LEMMA StopRemoves ==
    ASSUME Curl!CurlAssumption, CurlInv, ~asserted, NEW a \in Requests, NEW o \in ReqType,
           Whole(o) => Whole(req[a]) /\ o = req[a] /\ o.state = "running",
           req' = [req EXCEPT ![a] = [Curl!RemovedReq(o, "canceled") EXCEPT !.scb = "ran"]],
           todo' = todo \cup {<<"stop", a>>}, done' = Curl!Without(a), UNCHANGED <<pausedReq, asserted>>
    PROVE  CurlInv'
<1> DEFINE g == Curl!RemovedReq(o, "canceled")
           q == [g EXCEPT !.scb = "ran"]
<1>1. DoneOk(done) /\ todo \subseteq Sources \X Requests
  BY CurlFacts
<1>2. "ran" \in StopStates /\ "canceled" \in Outcomes /\ "stop" \in Sources
  BY CurlValues
<1>3. RemovedAs(g, o)
  BY <1>2, Removes
<1>4. req' = [req EXCEPT ![a] = q]
  OBVIOUS
<1> HIDE DEF g
<1>6. /\ q \in ReqType /\ q.scb = "ran" /\ q.state = "finished" /\ q.pc = g.pc /\ q.cont = g.cont /\ q.st = g.st
      /\ q.used = g.used /\ q.rt = g.rt /\ q.armed = g.armed /\ q.pauseType = g.pauseType
      /\ q.inOrder = g.inOrder /\ q.at = g.at /\ q.odd = g.odd /\ q.ways = g.ways /\ q.stop = g.stop
  BY <1>2, <1>3 DEF ReqType, RemovedAs
<1> HIDE DEF q
<1>7. DoneOk(done') /\ \A s : HasMsg(done', s) => HasMsg(done, s) /\ s # a
  BY <1>1, MessageDropped
<1>8. todo' \subseteq Sources \X Requests /\ \A x \in todo' : x[2] = a \/ x \in todo
  BY <1>1, <1>2
<1>9. ASSUME Whole(q) PROVE ReqOk(q) /\ Held(q, a, done', pausedReq', todo')
  <2>1. Whole(o) /\ o.state = "running" /\ Whole(req[a]) /\ req[a].state = "running"
    BY <1>3, <1>6, <1>9 DEF Whole, RemovedAs
  <2>2. ~TakenIn(todo, a) /\ pausedReq # a /\ ReqOk(o)
    BY <2>1, Runs
  <2>3. ReqOk(g) /\ Ready(g)
    BY <1>3, <2>1, <2>2, RemovedReady
  <2>4. ReqOk(q) /\ Ready(q)
    BY <1>3, <1>6, <2>3 DEF ReqOk, Ready, Loose, RemovedAs
  <2> QED
    BY <1>1, <1>2, <1>7, <2>2, <2>4, OneTaken
<1> QED
  BY <1>4, <1>6, <1>7, <1>8, <1>9, OneMoves

\* The stop callback, on the thread that has requested the stop
LEMMA StopCallbackRuns ==
    ASSUME Curl!CurlAssumption, CurlInv, ~asserted, NEW a \in Requests, Curl!StopCallback(a)
    PROVE  CurlInv'
<1> DEFINE q == req[a]
           q2 == [q EXCEPT !.scb = "ran"]
<1>1. /\ q \in ReqType /\ q.scb = "called" /\ UNCHANGED <<pausedReq, asserted>>
      /\ DoneOk(done) /\ todo \subseteq Sources \X Requests
      /\ Whole(q) => ReqOk(q) /\ Held(q, a, done, pausedReq, todo)
  BY CurlFacts DEF Curl!StopCallback
<1>2. CASE q.state \in Curl!Added
  <2>1. /\ req' = [req EXCEPT ![a] = [Curl!RemovedReq(req[a], "canceled") EXCEPT !.scb = "ran"]]
        /\ todo' = todo \cup {<<"stop", a>>} /\ done' = Curl!Without(a)
    BY <1>2 DEF Curl!StopCallback
  <2>2. Whole(req[a]) => req[a].state = "running"
    BY <1>1, <1>2 DEF ReqOk, Curl!Added
  <2> QED
    BY <1>1, <2>1, <2>2, StopRemoves
<1>3. CASE q.state \notin Curl!Added
  <2>1. req' = [req EXCEPT ![a] = q2] /\ UNCHANGED <<todo, done>>
    <3>1. req' = [req EXCEPT ![a].scb = "ran"] /\ UNCHANGED <<todo, done>>
      BY <1>3 DEF Curl!StopCallback
    <3> QED
      BY <3>1, CurlFacts
  <2> HIDE DEF q
  <2>2. /\ q2 \in ReqType /\ q2.scb = "ran" /\ q2.state = q.state /\ q2.pc = q.pc /\ q2.cont = q.cont
        /\ q2.used = q.used /\ q2.rt = q.rt /\ q2.armed = q.armed /\ q2.inOrder = q.inOrder
        /\ q2.st = q.st /\ q2.pauseType = q.pauseType /\ q2.pos = q.pos /\ q2.at = q.at /\ q2.odd = q.odd
        /\ q2.ways = q.ways /\ q2.stop = q.stop
    <3>1. "ran" \in StopStates
      BY CurlValues
    <3> QED
      BY <1>1, <3>1 DEF ReqType
  <2> HIDE DEF q2
  <2>3. Whole(q2) => ReqOk(q2) /\ Held(q2, a, done, pausedReq, todo)
    BY <1>1, <2>2 DEF ReqOk, Held, Ready, Whole, Loose
  <2> QED
    BY <1>1, <2>1, <2>2, <2>3, OneMoves
<1> QED
  BY <1>2, <1>3

\* The stop callback is registered, or runs at once.
LEMMA Registered ==
    ASSUME Curl!CurlAssumption, CurlInv, ~asserted, NEW a \in Requests, Curl!Register(a)
    PROVE  CurlInv'
<1> DEFINE o == req[a]
           q == [o EXCEPT !.pc = "lock"]
           sb == IF q.stop THEN "ran" ELSE "armed"
           q1 == [q EXCEPT !.scb = sb]
<1>1. o \in ReqType /\ o.pc = "register" /\ UNCHANGED <<pausedReq, asserted>> /\ (Whole(o) => ReqOk(o) /\ o.state # "running")
  <2>1. o.pc = "register"
    BY DEF Curl!Register
  <2> QED
    BY <2>1, CurlFacts, Quiet DEF Curl!Register
<1>2. /\ q \in ReqType /\ q.pc = "lock" /\ q.state = o.state /\ q.st = o.st /\ q.cont = o.cont /\ q.scb = o.scb
      /\ q.pos = o.pos /\ q.used = o.used /\ q.rt = o.rt /\ q.armed = o.armed /\ q.pauseType = o.pauseType
      /\ q.inOrder = o.inOrder /\ q.at = o.at /\ q.odd = o.odd /\ q.ways = o.ways /\ q.stop = o.stop
  <2> HIDE DEF o
  <2>1. "lock" \in Places
    BY CurlValues
  <2> QED
    BY <1>1, <2>1 DEF ReqType
<1>3. CASE q.stop /\ q.state \in Curl!Added
  <2>1. /\ req' = [req EXCEPT ![a] = [Curl!RemovedReq(q, "canceled") EXCEPT !.scb = "ran"]]
        /\ todo' = todo \cup {<<"stop", a>>} /\ done' = Curl!Without(a)
    BY <1>3 DEF Curl!Register
  <2> HIDE DEF q
  <2>2. ~Whole(q)
    <3> SUFFICES ASSUME Whole(q) PROVE FALSE
      OBVIOUS
    <3>1. ReqOk(o) /\ o.state # "running" /\ o.stop /\ o.state \in Curl!Added
      BY <1>1, <1>2, <1>3 DEF Whole
    <3> QED
      BY <3>1 DEF ReqOk, Curl!Added
  <2> QED
    BY <1>1, <1>2, <2>1, <2>2, StopRemoves
<1>4. CASE ~(q.stop /\ q.state \in Curl!Added)
  <2>1. req' = [req EXCEPT ![a] = q1] /\ UNCHANGED <<todo, done>>
    BY <1>4 DEF Curl!Register
  <2> HIDE DEF q
  <2>2. sb \in StopStates /\ sb # "called"
    BY CurlValues
  <2> HIDE DEF sb
  <2>3. /\ q1 \in ReqType /\ q1.pc = q.pc /\ q1.state = q.state /\ q1.st = q.st /\ q1.cont = q.cont /\ q1.scb = sb
        /\ q1.pos = q.pos /\ q1.used = q.used /\ q1.rt = q.rt /\ q1.armed = q.armed /\ q1.pauseType = q.pauseType
        /\ q1.inOrder = q.inOrder /\ q1.at = q.at /\ q1.odd = q.odd /\ q1.ways = q.ways /\ q1.stop = q.stop
    BY <1>2, <2>2 DEF ReqType
  <2> HIDE DEF q1
  <2>4. Whole(q1) => Whole(o) /\ ReqOk(q1)
    BY <1>1, <1>2, <2>2, <2>3 DEF ReqOk, Whole, Loose
  <2> QED
    BY <1>1, <2>1, <2>3, <2>4, AwaiterMoves DEF o
<1> QED
  BY <1>3, <1>4

\* reset_all()
LEMMA Recycled ==
    ASSUME Curl!CurlAssumption, CurlInv, ~asserted, NEW a \in Requests, Curl!Recycle(a)
    PROVE  CurlInv'
<1> DEFINE q == req[a]
           od == q.odd \cap {"cut"}
           k == 1
           q1 == [q EXCEPT !.state = "reseted", !.pauseType = "none", !.used = 0, !.stop = FALSE, !.pos = k, !.at = 0,
                           !.inOrder = TRUE, !.odd = od]
<1>1. /\ q \in ReqType /\ q.pc = "idle" /\ UNCHANGED <<pausedReq, todo, asserted>> /\ done' = Curl!Without(a)
      /\ req' = [req EXCEPT ![a].state = "reseted", ![a].pauseType = "none", ![a].used = 0,
                            ![a].stop = FALSE, ![a].pos = 1, ![a].at = 0, ![a].inOrder = TRUE,
                            ![a].odd = @ \cap {"cut"}]
      /\ DoneOk(done) /\ todo \subseteq Sources \X Requests
  BY CurlFacts DEF Curl!Recycle
<1>2. req' = [req EXCEPT ![a] = q1]
  BY <1>1, CurlFacts
<1>3. Whole(q) => ReqOk(q) /\ ~TakenIn(todo, a) /\ pausedReq # a
  BY <1>1, Quiet
<1> HIDE DEF q
<1>4. od \in SUBSET Curl!Oddities
  BY CurlValues
<1>5. /\ q1 \in ReqType /\ q1.pc = "idle" /\ q1.state = "reseted" /\ q1.scb = q.scb /\ q1.used = 0 /\ q1.at = 0
      /\ q1.rt = q.rt /\ q1.armed = q.armed /\ q1.inOrder /\ q1.odd = od /\ q1.ways = q.ways /\ q1.stop = FALSE
  <2>1. "reseted" \in LifeStates /\ "none" \in PauseKinds
    BY CurlValues
  <2>4. k \in Nat \ {0}
    OBVIOUS
  <2> HIDE DEF od, k
  <2>2. q1 \in ReqType
    BY <1>1, <1>4, <2>1, <2>4 DEF ReqType
  <2>3. /\ q1.pc = "idle" /\ q1.state = "reseted" /\ q1.scb = q.scb /\ q1.used = 0 /\ q1.at = 0
        /\ q1.rt = q.rt /\ q1.armed = q.armed /\ q1.inOrder /\ q1.odd = od /\ q1.ways = q.ways /\ q1.stop = FALSE
    BY <1>1 DEF ReqType
  <2> QED
    BY <2>2, <2>3
<1> HIDE DEF q1
<1>6. DoneOk(done') /\ \A s : HasMsg(done', s) => HasMsg(done, s) /\ s # a
  BY <1>1, MessageDropped
<1>7. ASSUME Whole(q1) PROVE ReqOk(q1) /\ Held(q1, a, done', pausedReq', todo')
  <2>1. Whole(q)
    BY <1>5, <1>7 DEF Whole
  <2>2. ReqOk(q1)
    BY <1>3, <1>5, <2>1 DEF ReqOk
  <2>3. ~HasMsg(done', a) /\ ~TakenIn(todo', a) /\ pausedReq' # a
    BY <1>1, <1>3, <1>6, <2>1
  <2> QED
    BY <2>2, <2>3, NotHeld
<1> QED
  BY <1>1, <1>2, <1>5, <1>6, <1>7, OneMoves DEF q

-----------------------------------------------------------------------------
(* What a socket action does to the transfers. *)

\* Requests, messages and _pausedReq that keep the invariant
TransfersOk(t) == CurlOk(t.rq, t.dn, t.pr, todo)

\* A transfer that curl may advance runs, and has not ended.
LEMMA Moves ==
    ASSUME CurlInv, NEW a \in Curl!Live
    PROVE  a \in Requests /\ ~HasMsg(done, a)
<1>1. a \in Requests /\ ~\E k \in DOMAIN done : done[k][1] = a
  BY DEF Curl!Live
<1>2. DOMAIN done = 1 .. Len(done)
  BY <1>1, CurlFacts DEF DoneOk
<1> QED
  BY <1>1, <1>2 DEF HasMsg

\* Data of a running transfer is passed to the callbacks.
LEMMA DataPassed ==
    ASSUME Curl!CurlAssumption, CurlInv, NEW a \in Requests, Curl!Moving(a), Curl!HasData(req[a]),
           NEW d, d = Curl!Deliver(req[a])
    PROVE  CurlOk(Curl!Passed(a, d), done, Curl!PausedAfter(a, d), todo)
<1> DEFINE q == req[a]
           pr == Curl!PausedAfter(a, d)
<1>1. /\ q \in ReqType /\ CurlOk(req, done, pausedReq, todo) /\ DoneOk(done) /\ todo \subseteq Sources \X Requests
      /\ None \notin Requests
  BY CurlFacts DEF Curl!CurlAssumption
<1>2. q.state = "running" /\ q.pos <= Len(Stream) /\ ~HasMsg(done, a)
  BY Moves DEF Curl!Moving, Curl!HasData
<1>3. Whole(q) => ReqOk(q) /\ ~TakenIn(todo, a) /\ pausedReq # a
  BY <1>2, Runs
<1>4. d = Curl!Deliver(q)
  OBVIOUS
<1> HIDE DEF q
<1>5. /\ d \in ReqType /\ Alike(d, q) /\ (Whole(d) <=> Whole(q))
      /\ (q.used > 0 => ChunkOf(q).t \in Curl!Wanted(q.rt)) => DeliveredAs(d, q)
  BY <1>1, <1>2, <1>4, Delivered
<1>6. pr = IF d.state = "paused" THEN a ELSE pausedReq
  BY DEF Curl!PausedAfter
<1> HIDE DEF pr
<1>7. ASSUME Whole(d) PROVE ReqOk(d) /\ Held(d, a, done, pr, todo)
  <2>1. Whole(q) /\ ReqOk(q) /\ ~TakenIn(todo, a) /\ pausedReq # a
    BY <1>3, <1>5, <1>7
  <2>2. q.used = 0 /\ q.pc = "waiting" /\ q.cont /\ (Loose(q) \/ (q.inOrder /\ q.at = 0))
    BY <1>2, <2>1 DEF ReqOk
  <2>3. DeliveredAs(d, q)
    BY <1>5, <2>2
  <2>4. d.pc = "waiting" /\ d.cont /\ d.scb = q.scb /\ d.rt = q.rt /\ d.ways = q.ways /\ d.stop = q.stop
    BY <1>5, <2>2 DEF Alike
  <2>5. d.state \in {"running", "paused"} /\ (d.state # "paused" => d.used = 0)
    BY <2>3 DEF DeliveredAs
  <2>6. Loose(d) \/ (d.inOrder /\ d.at = d.used)
    <3>1. CASE Loose(q)
      <4>1. q.odd \subseteq d.odd
        BY <2>3 DEF DeliveredAs
      <4> QED
        BY <3>1, <4>1 DEF Loose
    <3>2. CASE ~Loose(q)
      <4>1. q.inOrder /\ q.at = 0 /\ q.used = 0 /\ d.used \in Nat
        BY <1>5, <2>2, <3>2 DEF ReqType
      <4>2. d.inOrder
        BY <2>3, <4>1 DEF DeliveredAs
      <4>3. d.at = d.used
        BY <2>3, <4>1 DEF DeliveredAs
      <4> QED
        BY <4>2, <4>3
    <3> QED
      BY <3>1, <3>2
  <2>7. d.state = "paused" /\ d.used > 0 => d.pos <= Len(Stream) /\ d.pauseType = Stream[d.pos].t
    BY <1>2, <2>3 DEF DeliveredAs, ChunkOf
  <2>8. "pieces" \notin d.ways => d.rt = "hd_wd" /\ ~d.armed /\ d.state = "running"
    <3>1. "pieces" \notin q.ways => q.rt = "hd_wd" /\ ~q.armed
      BY <2>1 DEF ReqOk
    <3> QED
      BY <2>3, <2>4, <3>1 DEF DeliveredAs
  <2>9. /\ ~({"pieces", "stop"} \subseteq q.ways) /\ (q.stop => "stop" \in q.ways)
        /\ (q.scb = "called" => "stop" \in q.ways)
    BY <2>1 DEF ReqOk
  <2>10. ReqOk(d)
    BY <2>4, <2>5, <2>6, <2>7, <2>8, <2>9 DEF ReqOk
  <2>11. pr # a \/ Ready(d)
    BY <1>6, <2>1, <2>4 DEF Ready, Curl!Resumable
  <2>12. Held(d, a, done, pr, todo)
    BY <1>2, <2>1, <2>11, NotHeld
  <2> QED
    BY <2>10, <2>12
<1>8. pr \in {pausedReq, a, None}
  BY <1>6
<1>9. CurlOk([req EXCEPT ![a] = d], done, pr, todo)
  BY <1>1, <1>5, <1>7, <1>8, CurlSet
<1> QED
  BY <1>5, <1>9, PassedOn DEF pr

\* A transfer ends.
LEMMA TransferEnds ==
    ASSUME Curl!CurlAssumption, CurlInv, NEW m \in Requests \X {"ok", "failed"}, Curl!Moving(m[1])
    PROVE  CurlOk(req, Append(done, m), pausedReq, todo)
<1> DEFINE a == m[1]
           q == req[a]
<1>1. /\ a \in Requests /\ q \in ReqType /\ CurlOk(req, done, pausedReq, todo) /\ DoneOk(done)
      /\ todo \subseteq Sources \X Requests /\ req \in [Requests -> ReqType]
      /\ Whole(q) => ReqOk(q) /\ Held(q, a, done, pausedReq, todo)
      /\ None \notin Requests /\ q.state = "running" /\ ~HasMsg(done, a)
  <2>1. a \in Requests
    OBVIOUS
  <2> QED
    BY <2>1, CurlFacts, Moves DEF Curl!Moving, Curl!CurlAssumption
<1>2. DoneOk(Append(done, m)) /\ \A s : HasMsg(Append(done, m), s) => s = a \/ HasMsg(done, s)
  BY <1>1, MessageCame
<1>3. [req EXCEPT ![a] = q] = req
  BY <1>1
<1> HIDE DEF a, q
<1>4. Whole(q) => ReqOk(q) /\ Held(q, a, Append(done, m), pausedReq, todo)
  BY <1>1 DEF Held
<1>5. CurlOk([req EXCEPT ![a] = q], Append(done, m), pausedReq, todo)
  BY <1>1, <1>2, <1>4, CurlSet
<1> QED
  BY <1>3, <1>5

\* curl ends one that is paused.
LEMMA TransferCut ==
    ASSUME Curl!CurlAssumption, CurlInv, NEW a \in Curl!Live
    PROVE  CurlOk([req EXCEPT ![a] = Curl!Odd(@, "cut")], Append(done, <<a, "failed">>), pausedReq, todo)
<1> DEFINE q == req[a]
           od == q.odd \cup {"cut"}
           d == [q EXCEPT !.odd = od]
           m == <<a, "failed">>
<1>1. /\ a \in Requests /\ q \in ReqType /\ CurlOk(req, done, pausedReq, todo) /\ DoneOk(done)
      /\ todo \subseteq Sources \X Requests /\ None \notin Requests /\ ~HasMsg(done, a)
      /\ m \in Requests \X {"ok", "failed"} /\ m[1] = a
  BY CurlFacts, Moves DEF Curl!CurlAssumption
<1>2. DoneOk(Append(done, m)) /\ \A s : HasMsg(Append(done, m), s) => s = a \/ HasMsg(done, s)
  <2> HIDE DEF m
  <2> QED
    BY <1>1, MessageCame
<1>3. Curl!Odd(q, "cut") = d
  BY DEF Curl!Odd
<1> HIDE DEF q, m
<1>4. od \in SUBSET Curl!Oddities /\ "cut" \in od
  BY <1>1, CurlValues DEF ReqType
<1> HIDE DEF od
<1>5. d \in ReqType /\ ~Whole(d)
  BY <1>1, <1>4 DEF ReqType, Whole
<1> HIDE DEF d
<1>6. CurlOk([req EXCEPT ![a] = d], Append(done, m), pausedReq, todo)
  BY <1>1, <1>2, <1>5, CurlSet
<1> QED
  BY <1>3, <1>6 DEF m, q

\* A socket cannot be assigned: the transfer is removed, and nobody resumes its request.
LEMMA TransferDropped ==
    ASSUME Curl!CurlAssumption, CurlInv, NEW a \in Requests, Curl!Moving(a)
    PROVE  CurlOk([req EXCEPT ![a] = Curl!Odd(Curl!RemovedReq(@, "failed"), "stranded")], done, pausedReq, todo)
<1> DEFINE q == req[a]
           g == Curl!RemovedReq(q, "failed")
           od == g.odd \cup {"stranded"}
           d == [g EXCEPT !.odd = od]
<1>1. /\ q \in ReqType /\ CurlOk(req, done, pausedReq, todo) /\ DoneOk(done)
      /\ todo \subseteq Sources \X Requests /\ None \notin Requests /\ q.state = "running" /\ ~HasMsg(done, a)
  BY CurlFacts, Moves DEF Curl!Moving, Curl!CurlAssumption
<1>2. Whole(q) => ReqOk(q) /\ ~TakenIn(todo, a) /\ pausedReq # a
  BY <1>1, Runs
<1>3. Curl!Odd(g, "stranded") = d
  BY DEF Curl!Odd
<1> HIDE DEF q
<1>4. RemovedAs(g, q)
  BY <1>1, CurlValues, Removes
<1> HIDE DEF g
<1>5. g \in ReqType /\ od \in SUBSET Curl!Oddities
  BY <1>4, CurlValues DEF ReqType, RemovedAs
<1>6. (Whole(g) <=> Whole(q)) /\ (ReqOk(q) => ReqOk(g))
  BY <1>1, <1>4, RemovedReady
<1> HIDE DEF od
<1>7. /\ d \in ReqType /\ d.state = g.state /\ d.pc = g.pc /\ d.cont = g.cont /\ d.scb = g.scb
      /\ d.st = g.st /\ d.used = g.used /\ d.rt = g.rt /\ d.armed = g.armed /\ d.pauseType = g.pauseType
      /\ d.inOrder = g.inOrder /\ d.at = g.at /\ d.odd = od /\ d.ways = g.ways /\ d.stop = g.stop /\ d.pos = g.pos
  BY <1>5 DEF ReqType
<1> HIDE DEF d
<1>8. (Whole(d) => Whole(g)) /\ (Loose(g) => Loose(d))
  BY <1>7 DEF Whole, Loose, od
<1>9. ReqOk(g) => ReqOk(d)
  BY <1>7, <1>8 DEF ReqOk
<1>10. Whole(d) => ReqOk(d) /\ Held(d, a, done, pausedReq, todo)
  BY <1>1, <1>2, <1>6, <1>8, <1>9, NotHeld
<1>11. CurlOk([req EXCEPT ![a] = d], done, pausedReq, todo)
  BY <1>1, <1>7, <1>10, CurlSet
<1> QED
  BY <1>3, <1>11 DEF g, q

\* The paused request, or else one that is done, is taken.
LEMMA TakesOne ==
    ASSUME Curl!CurlAssumption, CurlInv, ~asserted, NEW t, TransfersOk(t), Curl!TakeOne(t), UNCHANGED asserted
    PROVE  CurlInv'
<1> DEFINE rq == t.rq
           dn == t.dn
           pr == t.pr
           none == <<"ioc", None>>
<1>1. /\ rq \in [Requests -> ReqType] /\ DoneOk(dn) /\ todo \subseteq Sources \X Requests /\ pr \in Requests \cup {None}
      /\ (\A a \in Requests : Whole(rq[a]) => ReqOk(rq[a]) /\ Held(rq[a], a, dn, pr, todo))
      /\ None \notin Requests /\ CurlOk(rq, dn, pr, todo)
  BY DEF CurlOk, Curl!CurlAssumption, TransfersOk
<1>0. AssertOk'
  BY DEF AssertOk, CurlInv
<1>2. ASSUME pr = None, dn # <<>> PROVE CurlInv'
  <2> DEFINE a == dn[1][1]
             q == rq[a]
             q2 == Curl!RemovedReq(q, dn[1][2])
             td2 == todo \cup {<<"done", a>>}
  <2>1. /\ req' = [rq EXCEPT ![a] = q2] /\ done' = Tail(dn) /\ pausedReq' = None
        /\ todo' = todo \cup ({<<"done", a>>} \ {none})
    BY <1>2 DEF Curl!TakeOne
  <2>2. /\ DoneOk(Tail(dn)) /\ dn[1] \in Requests \X {"ok", "failed"} /\ HasMsg(dn, a)
        /\ \A s : HasMsg(Tail(dn), s) => HasMsg(dn, s) /\ s # a
    BY <1>1, <1>2, MessageTaken
  <2>3. /\ a \in Requests /\ dn[1][2] \in Outcomes /\ q \in ReqType
        /\ Whole(q) => q.state = "running" /\ ReqOk(q) /\ Held(q, a, dn, pr, todo)
    <3>1. a \in Requests /\ dn[1][2] \in {"ok", "failed"}
      BY <2>2
    <3>2. q \in ReqType /\ (Whole(q) => ReqOk(q) /\ Held(q, a, dn, pr, todo))
      BY <1>1, <3>1
    <3>3. Held(q, a, dn, pr, todo) => q.state = "running"
      BY <2>2 DEF Held
    <3> QED
      BY <3>1, <3>2, <3>3, CurlValues
  <2>7. todo' = td2
    BY <2>1
  <2> HIDE DEF a, q
  <2>4. RemovedAs(q2, q)
    BY <2>3, Removes
  <2> HIDE DEF q2
  <2>5. q2 \in ReqType /\ (Whole(q2) => Whole(q))
    BY <2>4 DEF RemovedAs, Whole
  <2>6. ASSUME Whole(q2) PROVE ReqOk(q2) /\ Held(q2, a, Tail(dn), None, td2)
    <3>1. Whole(q) /\ q.state = "running" /\ ReqOk(q) /\ Held(q, a, dn, pr, todo)
      BY <2>3, <2>5, <2>6
    <3>2. ReqOk(q2) /\ Ready(q2)
      BY <2>3, <2>4, <3>1, RemovedReady
    <3>3. ~TakenIn(todo, a)
      BY <3>1 DEF Held, Ready, Curl!Resumable
    <3>4. ~HasMsg(Tail(dn), a) /\ None # a /\ "done" \in Sources
      BY <1>1, <2>2, <2>3, CurlValues
    <3> QED
      BY <1>1, <2>3, <3>2, <3>3, <3>4, OneTaken
  <2>8. td2 \subseteq Sources \X Requests /\ \A x \in td2 : x[2] = a \/ x \in todo
    BY <1>1, <2>3, CurlValues
  <2> HIDE DEF td2
  <2>9. CurlOk([rq EXCEPT ![a] = q2], Tail(dn), None, td2)
    BY <1>1, <2>2, <2>3, <2>5, <2>6, <2>8, CurlSet
  <2> QED
    BY <1>0, <2>1, <2>7, <2>9 DEF CurlInv
<1>3. ASSUME pr # None PROVE CurlInv'
  <2> DEFINE q == rq[pr]
             td2 == todo \cup {<<"ioc", pr>>}
  <2>1. /\ req' = rq /\ done' = dn /\ pausedReq' = None
        /\ todo' = todo \cup ({<<"ioc", pr>>} \ {none})
    BY <1>3 DEF Curl!TakeOne
  <2>2. pr \in Requests /\ todo' = td2
    BY <1>1, <1>3, <2>1
  <2>3. td2 \subseteq Sources \X Requests /\ \A x \in td2 : x[2] = pr \/ x \in todo
    BY <1>1, <2>2, CurlValues
  <2>4. q \in ReqType /\ [rq EXCEPT ![pr] = q] = rq
    BY <1>1, <2>2
  <2>5. ASSUME Whole(q) PROVE ReqOk(q) /\ Held(q, pr, dn, None, td2)
    <3>1. ReqOk(q) /\ Held(q, pr, dn, pr, todo)
      BY <1>1, <2>2, <2>5
    <3>2. Ready(q) /\ ~TakenIn(todo, pr) /\ ~HasMsg(dn, pr)
      BY <3>1 DEF Held, Ready, Curl!Resumable
    <3>3. None # pr /\ "ioc" \in Sources
      BY <1>3, CurlValues
    <3> QED
      BY <1>1, <2>2, <3>1, <3>2, <3>3, OneTaken
  <2> HIDE DEF rq, dn, pr, q, td2
  <2>6. CurlOk([rq EXCEPT ![pr] = q], dn, None, td2)
    BY <1>1, <2>2, <2>3, <2>4, <2>5, CurlSet
  <2> QED
    BY <1>0, <2>1, <2>2, <2>4, <2>6 DEF CurlInv
<1>4. ASSUME pr = None, dn = <<>> PROVE CurlInv'
  <2>1. /\ req' = rq /\ done' = dn /\ pausedReq' = None
        /\ todo' = todo \cup ({<<"ioc", pr>>} \ {none})
    BY <1>4 DEF Curl!TakeOne
  <2>2. todo' = todo
    BY <1>4, <2>1
  <2> QED
    BY <1>0, <1>1, <1>4, <2>1, <2>2 DEF CurlInv
<1> QED
  BY <1>2, <1>3, <1>4

\* A socket action
LEMMA SocketActs ==
    ASSUME Curl!CurlAssumption, CurlInv, ~asserted, NEW t \in Curl!Transfers, Curl!SocketAction(t)
    PROVE  CurlInv'
<1>1. Curl!TakeOne(t) /\ UNCHANGED asserted
  BY DEF Curl!SocketAction
<1>2. TransfersOk(t)
  <2>1. CASE t = [rq |-> req, dn |-> done, pr |-> pausedReq]
    BY <2>1 DEF CurlInv, TransfersOk
  <2>2. ASSUME NEW a \in Requests, Curl!Moving(a), Curl!HasData(req[a]), NEW d, d = Curl!Deliver(req[a]),
               t = [rq |-> Curl!Passed(a, d), dn |-> done, pr |-> Curl!PausedAfter(a, d)]
        PROVE  TransfersOk(t)
    <3>1. t.rq = Curl!Passed(a, d) /\ t.dn = done /\ t.pr = Curl!PausedAfter(a, d)
      BY <2>2
    <3>2. CurlOk(Curl!Passed(a, d), done, Curl!PausedAfter(a, d), todo)
      BY <2>2, DataPassed
    <3> QED
      BY <3>1, <3>2 DEF TransfersOk
  <2>3. ASSUME NEW m \in Requests \X {"ok", "failed"}, Curl!Moving(m[1]),
               t = [rq |-> req, dn |-> Append(done, m), pr |-> pausedReq]
        PROVE  TransfersOk(t)
    <3>1. t.rq = req /\ t.dn = Append(done, m) /\ t.pr = pausedReq
      BY <2>3
    <3>2. CurlOk(req, Append(done, m), pausedReq, todo)
      BY <2>3, TransferEnds
    <3> QED
      BY <3>1, <3>2 DEF TransfersOk
  <2>4. ASSUME NEW a \in Curl!Live,
               t = [rq |-> [req EXCEPT ![a] = Curl!Odd(@, "cut")], dn |-> Append(done, <<a, "failed">>),
                    pr |-> pausedReq]
        PROVE  TransfersOk(t)
    <3>1. /\ t.rq = [req EXCEPT ![a] = Curl!Odd(@, "cut")] /\ t.dn = Append(done, <<a, "failed">>)
          /\ t.pr = pausedReq
      BY <2>4
    <3>2. CurlOk([req EXCEPT ![a] = Curl!Odd(@, "cut")], Append(done, <<a, "failed">>), pausedReq, todo)
      BY TransferCut
    <3> QED
      BY <3>1, <3>2 DEF TransfersOk
  <2>5. ASSUME NEW a \in Requests, Curl!Moving(a),
               t = [rq |-> [req EXCEPT ![a] = Curl!Odd(Curl!RemovedReq(@, "failed"), "stranded")], dn |-> done,
                    pr |-> pausedReq]
        PROVE  TransfersOk(t)
    <3>1. /\ t.rq = [req EXCEPT ![a] = Curl!Odd(Curl!RemovedReq(@, "failed"), "stranded")]
          /\ t.dn = done /\ t.pr = pausedReq
      BY <2>5
    <3>2. CurlOk([req EXCEPT ![a] = Curl!Odd(Curl!RemovedReq(@, "failed"), "stranded")], done, pausedReq, todo)
      BY <2>5, TransferDropped
    <3> QED
      BY <3>1, <3>2 DEF TransfersOk
  <2> QED
    BY <2>1, <2>2, <2>3, <2>4, <2>5 DEF Curl!Transfers
<1> QED
  BY <1>1, <1>2, TakesOne

\* Every step of the client
LEMMA CurlStep ==
    Curl!CurlAssumption /\ CurlInv /\ [Curl!Next]_Curl!vars => CurlInv'
<1> SUFFICES ASSUME Curl!CurlAssumption, CurlInv, [Curl!Next]_Curl!vars PROVE CurlInv'
  OBVIOUS
<1>1. CASE UNCHANGED Curl!vars
  <2>1. UNCHANGED <<req, done, pausedReq, todo, asserted>>
    BY <1>1 DEF Curl!vars
  <2> QED
    BY <2>1 DEF CurlInv, AssertOk
<1>2. ASSUME ~asserted, NEW t \in Curl!Transfers, Curl!SocketAction(t) PROVE CurlInv'
  BY <1>2, SocketActs
<1>3. ASSUME ~asserted, NEW a \in Requests, Curl!Awaiter(a) PROVE CurlInv'
  <2>1. ASSUME NEW rt \in Curl!ReadTypes(a), Curl!StartRead(a, rt) PROVE CurlInv'
    BY <1>3, <2>1, ReadStarts
  <2>2. ASSUME Curl!Register(a) PROVE CurlInv'
    BY <1>3, <2>2, Registered
  <2>3. ASSUME Curl!AddTransfer(a) PROVE CurlInv'
    BY <1>3, <2>3, TransferAdded
  <2>4. ASSUME Curl!Unpause(a) PROVE CurlInv'
    BY <1>3, <2>4, TransferUnpaused
  <2>5. ASSUME Curl!TakeResult(a) PROVE CurlInv'
    BY <1>3, <2>5, ResultTaken
  <2>6. ASSUME Curl!Recycle(a) PROVE CurlInv'
    BY <1>3, <2>6, Recycled
  <2> QED
    BY <1>3, <2>1, <2>2, <2>3, <2>4, <2>5, <2>6 DEF Curl!Awaiter
<1>4. ASSUME ~asserted, NEW a \in Requests, Curl!RequestStop(a) PROVE CurlInv'
  BY <1>4, StopRequested
<1>5. ASSUME ~asserted, NEW a \in Requests, Curl!StopCallback(a) PROVE CurlInv'
  BY <1>5, StopCallbackRuns
<1>6. ASSUME ~asserted, NEW x \in todo, Curl!Resume(x[1], x[2]) PROVE CurlInv'
  BY <1>6, RequestResumed
<1> QED
  BY <1>1, <1>2, <1>3, <1>4, <1>5, <1>6 DEF Curl!Next

-----------------------------------------------------------------------------
(* The calls of gRPC. *)

\* The calls that observation 13 is not about: get_response() of a bidirectional call, a
\* bidirectional client whose caller is stopped, a server that ends a stream of requests early.
RpcUse ==
    /\ "client_bidi_unary" \notin Kinds
    /\ "client_bidi" \notin StoppableRpcs
    /\ EarlyOk => "client_client_stream" \notin Kinds

\* The lanes, and what each of them awaits.
LanesInv ==
    /\ kind \in (Rpc!Client \cup Rpc!Server) \ {"client_bidi_unary"}
    /\ stop \in BOOLEAN /\ (stop => kind \in StoppableRpcs)
    /\ ops \in [Rpc!Lanes -> [act : {"none", "unary", "start", "read", "write", "writes_done", "finish"},
                              st : {"idle", "posted", "finishing", "resumed"}, ok : BOOLEAN, err : BOOLEAN]]
    /\ pc \in [Rpc!Lanes -> {"start", "streams", "finish", "end", "wait", "run"}]
    /\ pc["m"] \in {"start", "streams", "finish", "end"}
    /\ \A l \in {"r", "w"} : /\ pc[l] \in {"wait", "run", "end"}
                             /\ l \notin Rpc!Streams(kind) => pc[l] = "wait"
    /\ pc["m"] = "start" => pc["r"] = "wait" /\ pc["w"] = "wait"
    /\ pc["m"] \in {"finish", "end"} => pc["r"] # "run" /\ pc["w"] # "run"
    /\ pc["m"] = "finish" => kind \notin {"client_unary", "client_client_stream", "client_server_stream"}

OpsInv ==
    /\ \A l \in Rpc!Lanes : ops[l].st # "idle" => pc[l] \in {"start", "run", "finish"}
    /\ ops["m"].st # "idle" => ops["m"].act = IF pc["m"] = "finish" THEN "finish" ELSE Rpc!StartAct
    /\ ops["r"].st # "idle" => ops["r"].act = "read"
    /\ ops["w"].st # "idle" => ops["w"].act \in {"write", "writes_done"}
    /\ \A l \in Rpc!Lanes : kind \in Rpc!Client /\ ops[l].st = "posted" => ops[l].act \notin {"unary", "finish"}

\* No other lane has an op under way or may begin one.
Alone(l) == \A x \in Rpc!Lanes \ {l} : ops[x].st = "idle" /\ pc[x] \notin {"start", "run", "finish"}

\* The status of a client is final once its op is resumed and the call has been finished.
StatusInv ==
    /\ fin \in {0, 1} /\ sts \in {"ok", "error", "canceled"}
    /\ pc["m"] = "end" /\ ~stop => fin = 1
    /\ pc["m"] # "end" /\ (sts # "ok" \/ fin = 1) =>
          \E l \in Rpc!Lanes : Alone(l) /\ ops[l].st \in {"finishing", "resumed"}
    /\ \A l \in Rpc!Lanes : ops[l].st = "finishing" =>
          Alone(l) /\ fin = 1 /\ sts = "ok" /\ (ops[l].ok => ops[l].act \notin {"start", "read", "write"})
    /\ kind = "client_bidi" /\ pc["m"] = "streams" => sts = "ok" /\ fin = 0

\* What the handlers have left to the caller.
ResumedInv ==
    \A l \in Rpc!Lanes : ops[l].st = "resumed" =>
        /\ sts # "ok" /\ ~stop => fin = 1
        /\ sts = "ok" /\ ops[l].act \in {"unary", "finish"} => fin = 1
        /\ sts = "ok" /\ ops[l].act = "start" => ops[l].ok /\ fin = 0
        /\ sts = "ok" /\ kind = "client_server_stream" /\ l = "r" => fin = IF ops[l].ok THEN 0 ELSE 1
        /\ sts = "ok" /\ kind = "client_client_stream" /\ l = "w" =>
              fin = IF ops[l].act = "writes_done" THEN 1 ELSE 0

RpcInv ==
    /\ kind \in Kinds
    /\ LanesInv /\ OpsInv /\ ~bad
    /\ kind \in Rpc!Client => StatusInv /\ ResumedInv

Acting == {"start", "run", "finish"}

\* A client that may begin an op, or has one in the queue, has no status yet.
LEMMA RpcCalm ==
    ASSUME RpcInv, kind \in Rpc!Client, NEW l \in Rpc!Lanes, pc[l] \in Acting, ops[l].st \in {"idle", "posted"}
    PROVE  sts = "ok" /\ fin = 0
<1> USE DEF RpcInv, Acting
<1>1. pc["m"] # "end"
  BY DEF LanesInv, Rpc!Lanes
<1>2. ASSUME NEW x \in Rpc!Lanes, Alone(x), ops[x].st \in {"finishing", "resumed"}
      PROVE  FALSE
  BY <1>2 DEF Alone
<1> QED
  BY <1>1, <1>2 DEF StatusInv

\* Only bidirectional calls have two lanes that act.
LEMMA RpcSingle ==
    ASSUME LanesInv, OpsInv, NEW l \in Rpc!Lanes, pc[l] \in Acting,
           l = "m" \/ kind \in {"client_unary", "client_client_stream", "client_server_stream"}
    PROVE  Alone(l)
<1> USE DEF LanesInv, OpsInv, Acting, Alone, Rpc!Lanes, Rpc!Streams
<1>1. CASE l = "m"
  BY <1>1
<1>2. CASE l = "r"
  BY <1>2
<1>3. CASE l = "w"
  BY <1>3
<1> QED
  BY <1>1, <1>2, <1>3

\* At first nothing of a call was started.
LEMMA RpcInit == Rpc!RpcAssumption /\ RpcUse /\ Rpc!Init => RpcInv
<1> SUFFICES ASSUME Rpc!RpcAssumption, RpcUse, Rpc!Init PROVE RpcInv
  OBVIOUS
<1> USE DEF Rpc!Init, Rpc!Lanes, Rpc!NoOp
<1>1. LanesInv
  BY DEF LanesInv, RpcUse, Rpc!RpcAssumption
<1>2. OpsInv
  BY DEF OpsInv
<1>3. StatusInv /\ ResumedInv
  BY DEF StatusInv, ResumedInv
<1> QED
  BY <1>1, <1>2, <1>3 DEF RpcInv

\* initiate() of an op, in a lane that acts
LEMMA RpcAwait ==
    ASSUME RpcUse, RpcInv, NEW l \in Rpc!Lanes, NEW act \in Rpc!Acts(l), Rpc!Await(l, act)
    PROVE  RpcInv'
<1> DEFINE new == ops'[l]
<1>1. /\ pc[l] \in Acting /\ ops[l].st = "idle"
      /\ UNCHANGED <<kind, stop, pc>>
      /\ ops' = [ops EXCEPT ![l] = new]
      /\ new \in [act : {act}, st : {"resumed", "posted", "finishing"}, ok : {FALSE}, err : BOOLEAN]
      /\ stop <=> new.st = "resumed"
      /\ new.st = "finishing" <=> ~stop /\ kind \in Rpc!Client /\ Rpc!FinishMode(act) = "directly"
  <2>1. /\ pc[l] \in Acting /\ ops[l].st = "idle"
        /\ UNCHANGED <<kind, stop, pc>>
    BY DEF Rpc!Await, Acting
  <2>2. ops \in [Rpc!Lanes -> [act : {"none", "unary", "start", "read", "write", "writes_done", "finish"},
                              st : {"idle", "posted", "finishing", "resumed"}, ok : BOOLEAN, err : BOOLEAN]]
    BY DEF RpcInv, LanesInv, Rpc!Client
  <2>3. CASE stop
    <3> DEFINE o == [act |-> act, st |-> "resumed", ok |-> FALSE, err |-> ~Rpc!IsClient]
    <3>1. ops' = [ops EXCEPT ![l] = o]
      BY <2>3 DEF Rpc!Await, Rpc!Initiate
    <3>2. (~Rpc!IsClient) \in BOOLEAN
      OBVIOUS
    <3>3. o \in [act : {act}, st : {"resumed", "posted", "finishing"}, ok : {FALSE}, err : BOOLEAN] /\ o.st = "resumed"
      BY <3>2
    <3> HIDE DEF o
    <3>4. new = o
      BY <2>2, <3>1
    <3> QED
      BY <2>1, <2>3, <3>1, <3>3, <3>4
  <2>4. CASE ~stop
    <3> DEFINE first == IF Rpc!IsClient /\ Rpc!FinishMode(act) = "directly" THEN "finishing" ELSE "posted"
               o == [act |-> act, st |-> first, ok |-> FALSE, err |-> FALSE]
    <3>1. ops' = [ops EXCEPT ![l] = o]
      BY <2>4 DEF Rpc!Await, Rpc!Initiate
    <3>2. first \in {"posted", "finishing"} /\ (first = "finishing" <=> kind \in Rpc!Client /\ Rpc!FinishMode(act) = "directly")
      BY DEF Rpc!IsClient
    <3> HIDE DEF first
    <3>3. o \in [act : {act}, st : {"resumed", "posted", "finishing"}, ok : {FALSE}, err : BOOLEAN] /\ o.st = first
      BY <3>2
    <3> HIDE DEF o
    <3>4. new = o
      BY <2>2, <3>1
    <3> QED
      BY <2>1, <2>4, <3>1, <3>2, <3>3, <3>4
  <2> QED
    BY <2>3, <2>4
<1>2. /\ act \in {"unary", "start", "read", "write", "writes_done", "finish"}
      /\ l = "m" => act = IF pc["m"] = "finish" THEN "finish" ELSE Rpc!StartAct
      /\ l = "r" => act = "read"
      /\ l = "w" => act \in {"write", "writes_done"}
  <2>1. l = "m" => act = IF pc["m"] = "finish" THEN "finish" ELSE Rpc!StartAct
    BY <1>1 DEF Rpc!Acts, Rpc!StartAct, Acting, RpcInv, LanesInv
  <2>2. l = "r" => act = "read"
    BY DEF Rpc!Acts
  <2>3. l = "w" => act \in {"write", "writes_done"}
    BY DEF Rpc!Acts, RpcInv, LanesInv
  <2> QED
    BY <2>1, <2>2, <2>3 DEF Rpc!Lanes, Rpc!StartAct
<1>3. kind \in Rpc!Client => sts = "ok" /\ fin = 0
  BY <1>1, RpcCalm
<1>4. ~bad'
  BY <1>3 DEF Rpc!Await, Rpc!Initiate, RpcInv, Rpc!IsClient
<1> HIDE DEF new
<1>5. LanesInv'
  <2>1. ops' \in [Rpc!Lanes -> [act : {"none", "unary", "start", "read", "write", "writes_done", "finish"},
                                st : {"idle", "posted", "finishing", "resumed"}, ok : BOOLEAN, err : BOOLEAN]]
    BY <1>1, <1>2 DEF RpcInv, LanesInv
  <2> QED
    BY <1>1, <2>1 DEF RpcInv, LanesInv, Rpc!Streams
<1>6. OpsInv'
  <2>1. \A x \in Rpc!Lanes : kind \in Rpc!Client /\ ops'[x].st = "posted" => ops'[x].act \notin {"unary", "finish"}
    BY <1>1 DEF RpcInv, LanesInv, OpsInv, Rpc!FinishMode
  <2> QED
    BY <1>1, <1>2, <2>1 DEF RpcInv, LanesInv, OpsInv, Acting, Rpc!Lanes, Rpc!StartAct
<1>7. ASSUME kind \in Rpc!Client PROVE StatusInv' /\ ResumedInv'
  <2>1. /\ \A x \in Rpc!Lanes : x # l => ops'[x] = ops[x]
        /\ ops'[l] = new
        /\ pc["m"] # "end"
    BY <1>1 DEF RpcInv, LanesInv, Acting, Rpc!Lanes
  <2>2. /\ sts' = IF stop THEN "canceled" ELSE "ok"
        /\ fin' = IF new.st = "finishing" THEN 1 ELSE 0
    BY <1>1, <1>3, <1>7 DEF Rpc!Await, Rpc!Initiate, Rpc!IsClient, new
  <2>3. CASE kind = "client_bidi" /\ l # "m"
    <3>1. ~stop
      BY <2>3 DEF RpcUse, RpcInv, LanesInv
    <3>2. act \in {"read", "write", "writes_done"}
      BY <1>2, <2>3 DEF Rpc!Lanes
    <3>3. new.st = "posted"
      BY <1>1, <3>1, <3>2, <2>3 DEF Rpc!FinishMode
    <3>4. \A x \in Rpc!Lanes : ops[x].st # "finishing"
      BY <1>3, <1>7 DEF RpcInv, StatusInv
    <3>5. StatusInv'
      BY <1>1, <2>1, <2>2, <3>1, <3>3, <3>4 DEF StatusInv
    <3>6. ResumedInv'
      BY <1>1, <1>3, <1>7, <2>1, <2>2, <3>1, <3>3 DEF ResumedInv, RpcInv
    <3> QED
      BY <3>5, <3>6
  <2>4. CASE kind # "client_bidi" \/ l = "m"
    <3>1. Alone(l)
      BY <1>1, <1>7, <2>4, RpcSingle DEF RpcInv, LanesInv, Rpc!Client
    <3>2. Alone(l)'
      BY <1>1, <2>1, <3>1 DEF Alone
    <3>3. \A x \in Rpc!Lanes : x # l => ops'[x].st = "idle"
      BY <2>1, <3>1 DEF Alone
    <3>4. StatusInv'
      <4>1. kind = "client_bidi" => pc["m"] # "streams"
        BY <1>1, <2>4 DEF Acting
      <4>2. new.st # "posted" => Alone(l)' /\ ops'[l].st \in {"finishing", "resumed"}
        BY <1>1, <2>1, <3>2
      <4>3. fin' \in {0, 1} /\ sts' \in {"ok", "error", "canceled"}
        BY <2>2
      <4>4. (sts' # "ok" \/ fin' = 1) => new.st # "posted"
        BY <1>1, <2>2
      <4>5. \A x \in Rpc!Lanes : ops'[x].st = "finishing" => x = l /\ fin' = 1 /\ sts' = "ok"
        BY <1>1, <2>1, <2>2, <3>3
      <4>6. ~ops'[l].ok
        BY <1>1, <2>1
      <4> QED
        BY <4>6, <1>1, <2>1, <3>2, <4>1, <4>2, <4>3, <4>4, <4>5 DEF StatusInv
    <3>5. ResumedInv'
      BY <1>1, <2>1, <2>2, <3>3 DEF ResumedInv
    <3> QED
      BY <3>4, <3>5
  <2> QED
    BY <2>3, <2>4
<1> QED
  BY <1>1, <1>4, <1>5, <1>6, <1>7 DEF RpcInv

\* The tag of an op that was posted
LEMMA RpcComplete ==
    ASSUME RpcInv, NEW l \in Rpc!Lanes, NEW ok \in BOOLEAN, Rpc!Complete(l, ok)
    PROVE  RpcInv'
<1> DEFINE new == ops'[l]
           tofin == kind \in Rpc!Client /\ (Rpc!FinishMode(ops[l].act) = "forced" \/ (Rpc!FinishMode(ops[l].act) = "non_ok" /\ ~ok))
<1>1. /\ ops[l].st = "posted" /\ pc[l] \in Acting
      /\ UNCHANGED <<kind, stop, sts, pc, bad>>
  BY DEF Rpc!Complete, RpcInv, OpsInv, Acting
<1>2. ops[l] \in [act : {"none", "unary", "start", "read", "write", "writes_done", "finish"},
                  st : {"idle", "posted", "finishing", "resumed"}, ok : BOOLEAN, err : BOOLEAN]
  BY DEF RpcInv, LanesInv
<1>3. /\ ops' = [ops EXCEPT ![l] = new]
      /\ new \in [act : {ops[l].act}, st : {"resumed", "finishing"}, ok : {ok}, err : BOOLEAN]
      /\ new.st = "finishing" <=> tofin
      /\ fin' = IF tofin THEN fin + 1 ELSE fin
  <2>1. CASE kind \in Rpc!Client
    <3> DEFINE o == [ops[l] EXCEPT !.ok = ok, !.st = IF tofin THEN "finishing" ELSE "resumed"]
    <3>1. ops' = [ops EXCEPT ![l] = o] /\ fin' = IF tofin THEN fin + 1 ELSE fin
      BY <2>1 DEF Rpc!Complete, Rpc!ClientAct, Rpc!IsClient
    <3> HIDE DEF tofin
    <3>2. /\ o \in [act : {ops[l].act}, st : {"resumed", "finishing"}, ok : {ok}, err : BOOLEAN]
          /\ o.st = "finishing" <=> tofin
      BY <1>2
    <3> HIDE DEF o
    <3>3. new = o
      BY <3>1 DEF RpcInv, LanesInv
    <3> QED
      BY <3>1, <3>2, <3>3
  <2>2. CASE kind \notin Rpc!Client
    <3>1. (~ok /\ ops[l].act # "read") \in BOOLEAN
      OBVIOUS
    <3> DEFINE e == ~ok /\ ops[l].act # "read"
               o == [ops[l] EXCEPT !.ok = ok, !.err = e, !.st = "resumed"]
    <3>2. ops' = [ops EXCEPT ![l] = o] /\ fin' = fin /\ ~tofin
      BY <2>2 DEF Rpc!Complete, Rpc!ServerAct, Rpc!IsClient
    <3> HIDE DEF e, tofin
    <3>3. o \in [act : {ops[l].act}, st : {"resumed", "finishing"}, ok : {ok}, err : BOOLEAN] /\ o.st = "resumed"
      BY <1>2, <3>1 DEF e
    <3> HIDE DEF o
    <3>4. new = o
      BY <3>2 DEF RpcInv, LanesInv
    <3> QED
      BY <3>2, <3>3, <3>4
  <2> QED
    BY <2>1, <2>2
<1>4. /\ \A x \in Rpc!Lanes : x # l => ops'[x] = ops[x]
      /\ ops'[l] = new
      /\ pc["m"] # "end"
  BY <1>1, <1>3 DEF RpcInv, LanesInv, Acting, Rpc!Lanes
<1> HIDE DEF new, tofin
<1>5. LanesInv'
  <2>1. ops' \in [Rpc!Lanes -> [act : {"none", "unary", "start", "read", "write", "writes_done", "finish"},
                                st : {"idle", "posted", "finishing", "resumed"}, ok : BOOLEAN, err : BOOLEAN]]
    BY <1>2, <1>3 DEF RpcInv, LanesInv
  <2> QED
    BY <1>1, <2>1 DEF RpcInv, LanesInv, Rpc!Streams
<1>6. OpsInv'
  BY <1>1, <1>3, <1>4 DEF RpcInv, OpsInv, Acting, Rpc!Lanes, Rpc!StartAct
<1>7. ASSUME kind \in Rpc!Client PROVE StatusInv' /\ ResumedInv'
  <2>1. sts = "ok" /\ fin = 0
    BY <1>1, <1>7, RpcCalm
  <2>2. \A x \in Rpc!Lanes : ops[x].st # "finishing"
    BY <2>1, <1>7 DEF RpcInv, StatusInv
  <2>3. CASE ~tofin
    <3>1. fin' = 0 /\ sts' = "ok" /\ new.st = "resumed"
      BY <1>1, <1>3, <2>1, <2>3
    <3>2. StatusInv'
      BY <1>1, <1>4, <2>2, <3>1 DEF StatusInv
    <3>3. new.act = ops[l].act /\ new.act \notin {"unary", "finish"}
      BY <1>1, <1>3, <1>7 DEF RpcInv, OpsInv
    <3>4. new.act = "start" => new.ok
      BY <1>2, <1>3, <1>7, <2>3, <3>3 DEF Rpc!FinishMode, tofin
    <3>5. kind = "client_server_stream" /\ l = "r" => new.ok
      <4>1. kind = "client_server_stream" /\ l = "r" => Rpc!FinishMode(ops[l].act) = "non_ok"
        BY <1>1 DEF RpcInv, OpsInv, Rpc!FinishMode
      <4> QED
        BY <1>3, <1>7, <2>3, <4>1 DEF tofin
    <3>6. kind = "client_client_stream" /\ l = "w" => new.act # "writes_done"
      <4>1. kind = "client_client_stream" => Rpc!FinishMode("writes_done") = "forced"
        BY DEF Rpc!FinishMode
      <4> QED
        BY <1>7, <2>3, <3>3, <4>1 DEF tofin
    <3>7. \A x \in Rpc!Lanes \ {l} : ops'[x].st = "resumed" =>
            /\ sts = "ok" /\ ops[x].act \in {"unary", "finish"} => fin = 1
            /\ sts = "ok" /\ ops[x].act = "start" => ops[x].ok /\ fin = 0
            /\ sts = "ok" /\ kind = "client_server_stream" /\ x = "r" => fin = IF ops[x].ok THEN 0 ELSE 1
            /\ sts = "ok" /\ kind = "client_client_stream" /\ x = "w" =>
                  fin = IF ops[x].act = "writes_done" THEN 1 ELSE 0
      BY <1>4, <1>7 DEF RpcInv, ResumedInv
    <3>8. ResumedInv'
      BY <1>1, <1>4, <2>1, <3>1, <3>3, <3>4, <3>5, <3>6, <3>7 DEF ResumedInv
    <3> QED
      BY <3>2, <3>8
  <2>4. CASE tofin
    <3>1. fin' = 1 /\ sts' = "ok" /\ new.st = "finishing"
      BY <1>1, <1>3, <2>1, <2>4
    <3>2. l = "m" \/ kind # "client_bidi"
      BY <1>1, <2>4 DEF Rpc!FinishMode, tofin, RpcInv, OpsInv, Rpc!Lanes
    <3>3. Alone(l)
      BY <1>1, <1>7, <3>2, RpcSingle DEF RpcInv, LanesInv, Rpc!Client
    <3>4. Alone(l)'
      BY <1>1, <1>4, <3>3 DEF Alone
    <3>5. \A x \in Rpc!Lanes : x # l => ops'[x].st = "idle"
      BY <1>4, <3>3 DEF Alone
    <3>6. new.ok => new.act \notin {"start", "read", "write"}
      BY <1>2, <1>3, <2>4 DEF Rpc!FinishMode, tofin
    <3>7. kind = "client_bidi" => pc["m"] # "streams"
      BY <1>1, <3>2 DEF Acting
    <3>8. \A x \in Rpc!Lanes : ops'[x].st = "finishing" => x = l
      BY <1>4, <3>5
    <3>9. StatusInv'
      BY <1>1, <1>4, <3>1, <3>4, <3>6, <3>7, <3>8 DEF StatusInv
    <3>10. ResumedInv'
      BY <1>4, <3>1, <3>5 DEF ResumedInv
    <3> QED
      BY <3>9, <3>10
  <2> QED
    BY <2>3, <2>4
<1>8. kind' = kind /\ bad' = bad
  BY <1>1
<1> QED
  BY <1>5, <1>6, <1>7, <1>8 DEF RpcInv

\* The status of Finish()
LEMMA RpcFinishDone ==
    ASSUME RpcUse, RpcInv, NEW l \in Rpc!Lanes, NEW s \in Rpc!Statuses, Rpc!FinishDone(l, s)
    PROVE  RpcInv'
<1>1. /\ ops[l].st = "finishing" /\ pc[l] \in Acting
      /\ UNCHANGED <<kind, stop, fin, pc, bad>>
      /\ sts' = s /\ s \in {"ok", "error"}
      /\ s = "ok" /\ ~ops[l].ok /\ ops[l].act \in {"start", "write"} => EarlyOk /\ ops[l].act = "write"
  BY DEF Rpc!FinishDone, RpcInv, OpsInv, Acting, Rpc!Statuses
<1>2. /\ ops' = [ops EXCEPT ![l].st = "resumed"]
      /\ \A x \in Rpc!Lanes : x # l => ops'[x] = ops[x]
      /\ ops'[l].st = "resumed" /\ ops'[l].act = ops[l].act /\ ops'[l].ok = ops[l].ok
      /\ pc["m"] # "end"
  BY <1>1 DEF Rpc!FinishDone, RpcInv, LanesInv, Acting, Rpc!Lanes
<1>3. LanesInv'
  <2>1. ops' \in [Rpc!Lanes -> [act : {"none", "unary", "start", "read", "write", "writes_done", "finish"},
                                st : {"idle", "posted", "finishing", "resumed"}, ok : BOOLEAN, err : BOOLEAN]]
    BY <1>2 DEF RpcInv, LanesInv
  <2> QED
    BY <1>1, <2>1 DEF RpcInv, LanesInv, Rpc!Streams
<1>4. OpsInv'
  BY <1>1, <1>2 DEF RpcInv, OpsInv, Acting, Rpc!Lanes, Rpc!StartAct
<1>5. ASSUME kind \in Rpc!Client PROVE StatusInv' /\ ResumedInv'
  <2>1. Alone(l) /\ fin = 1 /\ (ops[l].ok => ops[l].act \notin {"start", "read", "write"})
    BY <1>1, <1>5 DEF RpcInv, StatusInv
  <2>2. Alone(l)'
    BY <1>1, <1>2, <2>1 DEF Alone
  <2>3. \A x \in Rpc!Lanes : x # l => ops'[x].st = "idle"
    BY <1>2, <2>1 DEF Alone
  <2>4. \A x \in Rpc!Lanes : ops'[x].st # "finishing"
    BY <1>2, <2>3
  <2>5. ~(kind = "client_bidi" /\ pc["m"] = "streams")
    BY <2>1, <1>5 DEF RpcInv, StatusInv
  <2>6. StatusInv'
    BY <1>1, <1>2, <2>1, <2>2, <2>4, <2>5 DEF StatusInv
  <2>7. fin' = 1
    BY <1>1, <2>1
  <2>8. ~(sts' = "ok" /\ ops[l].act = "start")
    BY <1>1, <2>1
  <2>9. kind = "client_server_stream" /\ l = "r" => ~ops[l].ok
    BY <1>1, <2>1 DEF RpcInv, OpsInv
  <2>10. sts' = "ok" /\ kind = "client_client_stream" /\ l = "w" => ops[l].act = "writes_done"
    BY <1>1, <2>1 DEF RpcInv, OpsInv, RpcUse
  <2>11. ResumedInv'
    BY <1>1, <1>2, <2>3, <2>7, <2>8, <2>9, <2>10 DEF ResumedInv
  <2> QED
    BY <2>6, <2>11
<1>6. kind' = kind /\ bad' = bad
  BY <1>1
<1> QED
  BY <1>3, <1>4, <1>5, <1>6 DEF RpcInv

\* A caller goes on: what becomes of its lanes.
LEMMA RpcLanes ==
    ASSUME RpcInv, NEW l \in Rpc!Lanes, Rpc!Resumed(l)
    PROVE  LET ended == \A x \in Rpc!Streams(kind) \ {l} : pc[x] = "end" IN
           /\ pc' \in [Rpc!Lanes -> {"start", "streams", "finish", "end", "wait", "run"}]
           /\ \/ /\ l = "m" /\ (pc["m"] = "finish" \/ Rpc!Failed(l) \/ kind = "client_unary")
                 /\ pc'["m"] = "end" /\ pc'["r"] = pc["r"] /\ pc'["w"] = pc["w"]
              \/ /\ l = "m" /\ pc["m"] = "start" /\ ~Rpc!Failed(l) /\ kind = "server_unary"
                 /\ pc'["m"] = "finish" /\ pc'["r"] = pc["r"] /\ pc'["w"] = pc["w"]
              \/ /\ l = "m" /\ pc["m"] = "start" /\ ~Rpc!Failed(l) /\ kind # "client_unary"
                 /\ pc'["m"] = "streams"
                 /\ \A x \in {"r", "w"} : pc'[x] = IF x \in Rpc!Streams(kind) THEN "run" ELSE pc[x]
              \/ /\ l # "m" /\ ended /\ Rpc!Failed(l)
                 /\ pc'["m"] = Rpc!AfterStreams(TRUE)
                 /\ \A x \in {"r", "w"} : pc'[x] = IF x = l THEN "end" ELSE pc[x]
              \/ /\ l # "m" /\ ended /\ ~Rpc!Failed(l)
                 /\ l = "r" => ~ops[l].ok
                 /\ l = "w" => ops[l].act = "writes_done" \/ kind = "client_bidi"
                 /\ pc'["m"] = Rpc!AfterStreams(FALSE)
                 /\ \A x \in {"r", "w"} : pc'[x] = IF x = l THEN "end" ELSE pc[x]
              \/ /\ l # "m" /\ ~ended /\ pc'["m"] = pc["m"]
                 /\ \A x \in {"r", "w"} : pc'[x] = IF x = l THEN "end" ELSE pc[x]
              \/ /\ l # "m" /\ ~Rpc!Failed(l) /\ pc' = pc
                 /\ l = "r" => ops[l].ok
                 /\ l = "w" => ops[l].act # "writes_done"
<1>1. /\ kind # "client_bidi_unary" /\ ops[l].st = "resumed" /\ pc[l] \in Acting
      /\ pc \in [Rpc!Lanes -> {"start", "streams", "finish", "end", "wait", "run"}]
  BY DEF RpcInv, LanesInv, OpsInv, Acting, Rpc!Resumed
<1> USE DEF Rpc!Lanes
<1>4. Rpc!AfterStreams(TRUE) \in {"end", "finish"} /\ Rpc!AfterStreams(FALSE) \in {"end", "finish"}
  BY DEF Rpc!AfterStreams
<1>2. CASE l = "m"
  <2>1. pc["m"] = "finish" \/ pc["m"] = "start"
    BY <1>1, <1>2 DEF RpcInv, LanesInv, Acting
  <2>2. /\ kind \in Rpc!Client \cup Rpc!Server
        /\ Rpc!Streams(kind) = {} <=> kind \in {"client_unary", "server_unary"}
        /\ Rpc!First(kind) = Rpc!Streams(kind)
    BY <1>1 DEF Rpc!Streams, Rpc!First, RpcInv, LanesInv
  <2>3. pc' = Rpc!AfterOwn
    BY <1>2 DEF Rpc!Resumed
  <2>4. CASE pc["m"] = "finish" \/ Rpc!Failed("m") \/ kind = "client_unary"
    BY <1>1, <1>2, <2>3, <2>4 DEF Rpc!AfterOwn
  <2>5. CASE ~(pc["m"] = "finish" \/ Rpc!Failed("m") \/ kind = "client_unary")
    <3>1. CASE kind = "server_unary"
      BY <1>1, <1>2, <2>1, <2>2, <2>3, <2>5, <3>1 DEF Rpc!AfterOwn
    <3>2. CASE kind # "server_unary"
      BY <1>1, <1>2, <2>1, <2>2, <2>3, <2>5, <3>2 DEF Rpc!AfterOwn
    <3> QED
      BY <3>1, <3>2
  <2> QED
    BY <2>4, <2>5
<1>3. CASE l # "m"
  <2> DEFINE ended == \A x \in Rpc!Streams(kind) \ {l} : pc[x] = "end"
             over  == \/ Rpc!Failed(l)
                      \/ l = "r" /\ ~ops[l].ok
                      \/ l = "w" /\ (ops[l].act = "writes_done" \/ (kind = "client_bidi" /\ ~ops[l].ok))
  <2>1. pc' = Rpc!AfterStream(l)
    BY <1>1, <1>3 DEF Rpc!Resumed
  <2>2. CASE over /\ ended /\ Rpc!Failed(l)
    <3>1. pc' = [pc EXCEPT ![l] = "end", !["m"] = Rpc!AfterStreams(Rpc!Failed(l))]
      BY <2>1, <2>2 DEF Rpc!AfterStream
    <3>2. Rpc!AfterStreams(Rpc!Failed(l)) = Rpc!AfterStreams(TRUE)
      BY <2>2 DEF Rpc!AfterStreams
    <3> QED
      BY <1>1, <1>3, <1>4, <2>2, <3>1, <3>2
  <2>3. CASE over /\ ended /\ ~Rpc!Failed(l)
    <3>1. pc' = [pc EXCEPT ![l] = "end", !["m"] = Rpc!AfterStreams(Rpc!Failed(l))]
      BY <2>1, <2>3 DEF Rpc!AfterStream
    <3>2. Rpc!AfterStreams(Rpc!Failed(l)) = Rpc!AfterStreams(FALSE)
      BY <2>3 DEF Rpc!AfterStreams
    <3> QED
      BY <1>1, <1>3, <1>4, <2>3, <3>1, <3>2
  <2>4. CASE over /\ ~ended
    BY <1>1, <1>3, <2>1, <2>4 DEF Rpc!AfterStream
  <2>5. CASE ~over
    <3>1. pc' = pc
      BY <2>1, <2>5 DEF Rpc!AfterStream
    <3> QED
      BY <1>1, <1>3, <2>5, <3>1
  <2> QED
    BY <2>2, <2>3, <2>4, <2>5
<1> QED
  BY <1>2, <1>3

\* A lane goes on with what its op gave.
LEMMA RpcResumed ==
    ASSUME RpcInv, NEW l \in Rpc!Lanes, Rpc!Resumed(l)
    PROVE  RpcInv'
<1> DEFINE ended == \A x \in Rpc!Streams(kind) \ {l} : pc[x] = "end"
<1>1. /\ ops[l].st = "resumed" /\ pc[l] \in Acting
      /\ UNCHANGED <<kind, stop, sts, fin, bad>>
      /\ ops' = [ops EXCEPT ![l].st = "idle"]
      /\ \A x \in Rpc!Lanes : x # l => ops'[x] = ops[x]
      /\ ops'[l].st = "idle"
      /\ pc["m"] # "end"
  BY DEF Rpc!Resumed, RpcInv, OpsInv, LanesInv, Acting, Rpc!Lanes
<1>2. /\ l # "m" => pc["m"] = "streams" /\ pc[l] = "run" /\ l \in Rpc!Streams(kind)
      /\ l = "m" => pc["m"] \in {"start", "finish"}
      /\ l # "m" => kind \notin {"client_unary", "server_unary"}
      /\ \A x \in Rpc!Streams(kind) : x \in {"r", "w"}
  <2>1. kind \in Rpc!Client \cup Rpc!Server
    BY DEF RpcInv, LanesInv
  <2> QED
    BY <1>1, <2>1 DEF RpcInv, LanesInv, Acting, Rpc!Lanes, Rpc!Streams
<1>4. Rpc!AfterStreams(TRUE) = IF kind \in {"client_client_stream", "client_server_stream"} THEN "end"
                              ELSE IF kind \notin {"client_bidi", "server_bidi"} THEN "end" ELSE "finish"
  BY DEF Rpc!AfterStreams
<1>5. Rpc!AfterStreams(FALSE) = IF kind \in {"client_client_stream", "client_server_stream"} THEN "end" ELSE "finish"
  BY DEF Rpc!AfterStreams
\* Where the lanes are then
<1>9. /\ pc' \in [Rpc!Lanes -> {"start", "streams", "finish", "end", "wait", "run"}]
      /\ \/ /\ l = "m" /\ (pc["m"] = "finish" \/ Rpc!Failed(l) \/ kind = "client_unary")
            /\ pc'["m"] = "end" /\ pc'["r"] = pc["r"] /\ pc'["w"] = pc["w"]
         \/ /\ l = "m" /\ pc["m"] = "start" /\ ~Rpc!Failed(l) /\ kind = "server_unary"
            /\ pc'["m"] = "finish" /\ pc'["r"] = pc["r"] /\ pc'["w"] = pc["w"]
         \/ /\ l = "m" /\ pc["m"] = "start" /\ ~Rpc!Failed(l) /\ kind # "client_unary"
            /\ pc'["m"] = "streams"
            /\ \A x \in {"r", "w"} : pc'[x] = IF x \in Rpc!Streams(kind) THEN "run" ELSE pc[x]
         \/ /\ l # "m" /\ ended /\ Rpc!Failed(l)
            /\ pc'["m"] = Rpc!AfterStreams(TRUE)
            /\ \A x \in {"r", "w"} : pc'[x] = IF x = l THEN "end" ELSE pc[x]
         \/ /\ l # "m" /\ ended /\ ~Rpc!Failed(l)
            /\ l = "r" => ~ops[l].ok
            /\ l = "w" => ops[l].act = "writes_done" \/ kind = "client_bidi"
            /\ pc'["m"] = Rpc!AfterStreams(FALSE)
            /\ \A x \in {"r", "w"} : pc'[x] = IF x = l THEN "end" ELSE pc[x]
         \/ /\ l # "m" /\ ~ended /\ pc'["m"] = pc["m"]
            /\ \A x \in {"r", "w"} : pc'[x] = IF x = l THEN "end" ELSE pc[x]
         \/ /\ l # "m" /\ ~Rpc!Failed(l) /\ pc' = pc
            /\ l = "r" => ops[l].ok
            /\ l = "w" => ops[l].act # "writes_done"
  BY RpcLanes
<1> HIDE DEF ended
<1>11. \/ kind \in {"client_client_stream", "client_server_stream"}
            /\ Rpc!AfterStreams(TRUE) = "end" /\ Rpc!AfterStreams(FALSE) = "end"
       \/ kind \notin {"client_client_stream", "client_server_stream", "client_bidi"}
            /\ Rpc!AfterStreams(TRUE) \in {"end", "finish"} /\ Rpc!AfterStreams(FALSE) = "finish"
       \/ kind = "client_bidi"
            /\ Rpc!AfterStreams(TRUE) = "finish" /\ Rpc!AfterStreams(FALSE) = "finish"
  BY <1>4, <1>5
<1>6. LanesInv'
  <2>1. ops' \in [Rpc!Lanes -> [act : {"none", "unary", "start", "read", "write", "writes_done", "finish"},
                                st : {"idle", "posted", "finishing", "resumed"}, ok : BOOLEAN, err : BOOLEAN]]
    BY <1>1 DEF RpcInv, LanesInv
  <2>2. /\ ended => \A x \in {"r", "w"} : x # l => pc[x] # "run"
        /\ l = "m" => pc["r"] # "run" /\ pc["w"] # "run"
    BY <1>2 DEF RpcInv, LanesInv, ended
  <2>3. pc' \in [Rpc!Lanes -> {"start", "streams", "finish", "end", "wait", "run"}]
    BY <1>9
  <2>4. /\ pc'["m"] \in {"start", "streams", "finish", "end"}
        /\ \A x \in {"r", "w"} : /\ pc'[x] \in {"wait", "run", "end"}
                                 /\ x \notin Rpc!Streams(kind) => pc'[x] = "wait"
        /\ pc'["m"] # "start"
    BY <1>2, <1>9, <1>11 DEF RpcInv, LanesInv
  <2>5. pc'["m"] \in {"finish", "end"} => pc'["r"] # "run" /\ pc'["w"] # "run"
    BY <1>1, <1>2, <1>9, <2>2, <2>4
  <2>6. pc'["m"] = "finish" => kind \notin {"client_unary", "client_client_stream", "client_server_stream"}
    <3>1. CASE l = "m"
      BY <1>2, <1>9, <3>1
    <3>2. CASE l # "m"
      BY <1>2, <1>9, <1>11, <3>2
    <3> QED
      BY <3>1, <3>2
  <2> QED
    BY <1>1, <2>1, <2>3, <2>4, <2>5, <2>6 DEF RpcInv, LanesInv, Rpc!Streams
<1>7. OpsInv'
  <2>1. \A x \in Rpc!Lanes : ops'[x].st # "idle" => x # l /\ pc'[x] = pc[x]
    BY <1>1, <1>2, <1>9 DEF RpcInv, LanesInv, OpsInv, Rpc!Lanes
  <2> QED
    BY <1>1, <2>1 DEF RpcInv, OpsInv, Rpc!Lanes, Rpc!StartAct
<1>8. ASSUME kind \in Rpc!Client PROVE StatusInv' /\ ResumedInv'
  <2>1. Rpc!Failed(l) <=> sts # "ok"
    BY <1>8 DEF Rpc!Failed, Rpc!IsClient
  <2>2. ~stop /\ sts # "ok" => fin = 1
    BY <1>1, <1>8 DEF RpcInv, ResumedInv
  <2>3. sts = "ok" => /\ l = "m" /\ (pc["m"] = "finish" \/ kind = "client_unary") => fin = 1
                      /\ l = "m" /\ pc["m"] = "start" /\ kind # "client_unary" => fin = 0
                      /\ l = "r" /\ kind = "client_server_stream" => fin = IF ops[l].ok THEN 0 ELSE 1
                      /\ l = "w" /\ kind = "client_client_stream" => fin = IF ops[l].act = "writes_done" THEN 1 ELSE 0
    BY <1>1, <1>2, <1>8 DEF RpcInv, ResumedInv, OpsInv, Rpc!StartAct
  <2>4. l # "m" => \/ kind = "client_bidi" /\ sts = "ok" /\ fin = 0
                   \/ l = "r" /\ kind = "client_server_stream"
                   \/ l = "w" /\ kind = "client_client_stream"
    <3>1. kind \in {"client_unary", "client_client_stream", "client_server_stream", "client_bidi"}
      BY <1>8 DEF RpcInv, LanesInv, Rpc!Client
    <3>2. CASE kind = "client_bidi"
      BY <1>2, <1>8, <3>2 DEF RpcInv, StatusInv
    <3>3. CASE kind # "client_bidi"
      BY <1>2, <3>1, <3>3 DEF Rpc!Streams, Rpc!Lanes
    <3> QED
      BY <3>2, <3>3
  <2>5. l # "m" /\ kind # "client_bidi" => ended
    BY <1>2, <2>4 DEF Rpc!Streams, ended
  <2>6. pc'["m"] = "end" /\ ~stop => fin = 1
    <3>1. CASE l = "m"
      BY <1>1, <1>2, <1>9, <2>1, <2>2, <2>3, <3>1
    <3>2. CASE l # "m"
      BY <1>1, <1>2, <1>9, <1>11, <2>1, <2>2, <2>3, <2>4, <3>2
    <3> QED
      BY <3>1, <3>2
  <2>7. sts # "ok" \/ fin = 1 => pc'["m"] = "end"
    <3>1. kind # "server_unary"
      BY <1>8 DEF Rpc!Client
    <3>2. CASE l = "m"
      BY <1>1, <1>2, <1>9, <2>1, <2>3, <3>1, <3>2
    <3>3. CASE l # "m"
      <4>1. SUFFICES ASSUME sts # "ok" \/ fin = 1 PROVE pc'["m"] = "end"
        OBVIOUS
      <4>2. /\ kind \in {"client_client_stream", "client_server_stream"} /\ ended
            /\ Rpc!AfterStreams(TRUE) = "end" /\ Rpc!AfterStreams(FALSE) = "end"
        <5>1. kind \in {"client_client_stream", "client_server_stream"}
          BY <2>4, <3>3, <4>1
        <5> QED
          BY <1>11, <2>5, <3>3, <5>1
      <4>3. ~Rpc!Failed(l) => (l = "r" => ~ops[l].ok) /\ (l = "w" => ops[l].act = "writes_done") /\ (l = "r" \/ l = "w")
        BY <2>1, <2>3, <2>4, <3>3, <4>1, <4>2
      <4> QED
        BY <1>9, <3>3, <4>2, <4>3
    <3> QED
      BY <3>2, <3>3
  <2>8. \A x \in Rpc!Lanes : ops[x].st # "finishing"
    BY <1>1, <1>8 DEF RpcInv, StatusInv, Alone
  <2>9. kind = "client_bidi" /\ pc'["m"] = "streams" => sts = "ok" /\ fin = 0
    BY <1>8, <2>7 DEF RpcInv, StatusInv
  <2>10. StatusInv'
    BY <1>1, <1>8, <2>6, <2>7, <2>8, <2>9 DEF RpcInv, StatusInv
  <2>11. ResumedInv'
    BY <1>1, <1>8 DEF RpcInv, ResumedInv
  <2> QED
    BY <2>10, <2>11
<1> QED
  BY <1>1, <1>6, <1>7, <1>8 DEF RpcInv

\* Every step of a call
LEMMA RpcStep == RpcUse /\ RpcInv /\ [Rpc!Next]_Rpc!vars => RpcInv'
<1> SUFFICES ASSUME RpcUse, RpcInv, [Rpc!Next]_Rpc!vars PROVE RpcInv'
  OBVIOUS
<1>1. ASSUME NEW l \in Rpc!Lanes, NEW act \in Rpc!Acts(l), Rpc!Await(l, act) PROVE RpcInv'
  BY <1>1, RpcAwait
<1>2. ASSUME NEW l \in Rpc!Lanes, NEW ok \in BOOLEAN, Rpc!Complete(l, ok) PROVE RpcInv'
  BY <1>2, RpcComplete
<1>3. ASSUME NEW l \in Rpc!Lanes, NEW s \in Rpc!Statuses, Rpc!FinishDone(l, s) PROVE RpcInv'
  BY <1>3, RpcFinishDone
<1>4. ASSUME NEW l \in Rpc!Lanes, Rpc!Resumed(l) PROVE RpcInv'
  BY <1>4, RpcResumed
<1>5. CASE Rpc!NoMoreWrites
  <2> USE <1>5 DEF Rpc!NoMoreWrites, RpcInv
  <2>1. kind \notin Rpc!Client /\ kind \in {"server_server_stream", "server_bidi"}
    BY DEF Rpc!Client, Rpc!Server, LanesInv, Rpc!Streams
  <2>2. /\ pc["m"] = "streams"
        /\ pc' \in [Rpc!Lanes -> {"start", "streams", "finish", "end", "wait", "run"}]
        /\ pc'["w"] = "end" /\ pc'["r"] = pc["r"]
        /\ pc'["m"] = IF \A x \in Rpc!Streams(kind) \ {"w"} : pc[x] = "end" THEN "finish" ELSE pc["m"]
    BY DEF LanesInv, Rpc!Lanes
  <2>3. pc'["m"] = "finish" => pc["r"] # "run"
    BY <2>1, <2>2 DEF LanesInv, Rpc!Streams
  <2>4. LanesInv'
    BY <2>1, <2>2, <2>3 DEF LanesInv, Rpc!Streams
  <2>5. OpsInv'
    BY <2>2 DEF OpsInv, Rpc!Lanes, Rpc!StartAct
  <2> QED
    BY <2>1, <2>4, <2>5
<1>6. CASE Rpc!RequestStop
  <2> USE <1>6 DEF Rpc!RequestStop, RpcInv
  <2>1. LanesInv'
    BY DEF LanesInv, Rpc!Streams
  <2>2. OpsInv'
    BY DEF OpsInv, Rpc!StartAct
  <2>3. kind \in Rpc!Client => StatusInv' /\ ResumedInv'
    BY DEF StatusInv, ResumedInv, Alone
  <2> QED
    BY <2>1, <2>2, <2>3
<1>7. CASE UNCHANGED Rpc!vars
  BY <1>7 DEF Rpc!vars, RpcInv, LanesInv, OpsInv, StatusInv, ResumedInv, Alone, Rpc!Streams, Rpc!StartAct
<1> QED
  BY <1>1, <1>2, <1>3, <1>4, <1>5, <1>6, <1>7 DEF Rpc!Next

\* Finish() once and alone, nothing in the queue at the end, and no op on a call that has failed
LEMMA RpcSafe == RpcInv => Rpc!FinishedOnce /\ Rpc!EndsQuiet /\ Rpc!InitiatedOk
<1> SUFFICES ASSUME RpcInv PROVE Rpc!FinishedOnce /\ Rpc!EndsQuiet /\ Rpc!InitiatedOk
  OBVIOUS
<1>1. ASSUME kind \in Rpc!Client, NEW l \in Rpc!Lanes, ops[l].st = "finishing"
      PROVE  Rpc!Cardinality(Rpc!Outstanding) = 1
  <2>1. Alone(l)
    BY <1>1 DEF RpcInv, StatusInv
  <2>2. Rpc!Outstanding = {l}
    BY <1>1, <2>1 DEF Alone, Rpc!Outstanding
  <2>3. Cardinality({l}) = 1
    BY FS_Singleton
  <2> QED
    BY <2>2, <2>3 DEF Cardinality, Rpc!Cardinality
<1>2. Rpc!FinishedOnce
  BY <1>1 DEF Rpc!FinishedOnce, Rpc!IsClient, RpcInv, StatusInv
<1>3. Rpc!EndsQuiet
  <2>1. pc["m"] = "end" => Rpc!Outstanding = {}
    BY DEF RpcInv, LanesInv, OpsInv, Rpc!Outstanding, Rpc!Lanes
  <2> QED
    BY <2>1 DEF Rpc!EndsQuiet, Rpc!IsClient, RpcInv, StatusInv
<1>4. Rpc!InitiatedOk
  BY DEF Rpc!InitiatedOk, RpcInv
<1> QED
  BY <1>2, <1>3, <1>4

-----------------------------------------------------------------------------
(* The behaviours of MCClients. *)

\* What curl wants of a socket is waited for, of however many sockets, closed and opened again in any
\* order, unless the socket could not be assigned.
THEOREM SocketsWatched == Spec => []PollHasWait
<1> DEFINE Inv == part = "sockets" => SocksInv
<1>1. Init => Inv
  BY SocksInit DEF Init
<1>2. Inv /\ [Next]_vars => Inv'
  BY StepOfPart, SocksStep
<1>3. Inv => PollHasWait
  BY DEF PollHasWait, SocksInv, Covered, Socks!PollHasWait, Socks!Io
<1> QED
  BY <1>1, <1>2, <1>3, PTL DEF Spec

\* A request is resumed by one thread only, which finds a read that waits, of however many requests that
\* are stopped at any time, are not let on, take each other's place or are left alone by curl, unless
\* one may be stopped while it is paused, or was cut off while it was.
THEOREM RequestsResumedOnce == PausesUnstopped => (Spec => []ResumedByOne)
<1> SUFFICES ASSUME PausesUnstopped PROVE Spec => []ResumedByOne
  OBVIOUS
<1> DEFINE Inv == part = "curl" => CurlInv
<1>1. Init => Inv
  BY ClientAssumption, CurlInit DEF Init
<1>2. Inv /\ [Next]_vars => Inv'
  BY ClientAssumption, StepOfPart, CurlStep
<1>3. Inv => ResumedByOne
  BY CurlSafe DEF ResumedByOne
<1> QED
  BY <1>1, <1>2, <1>3, PTL DEF Spec

\* The buffers of successive reads get the bytes of the transfer in their order, whatever the chunks and
\* the kinds of reads, but for a chunk that is paused twice and a transfer that curl cut off or did
\* not let go on.
THEOREM BytesInOrder == PausesUnstopped => (Spec => []DataInOrder)
<1> SUFFICES ASSUME PausesUnstopped PROVE Spec => []DataInOrder
  OBVIOUS
<1> DEFINE Inv == part = "curl" => CurlInv
<1>1. Init => Inv
  BY ClientAssumption, CurlInit DEF Init
<1>2. Inv /\ [Next]_vars => Inv'
  BY ClientAssumption, StepOfPart, CurlStep
<1>3. Inv => DataInOrder
  BY CurlSafe DEF DataInOrder
<1> QED
  BY <1>1, <1>2, <1>3, PTL DEF Spec

\* A gRPC call is finished once and given back with no op under way, of any of the kinds of calls, however
\* its lanes interleave, fail and are stopped.
THEOREM CallsFinishOnce == RpcUse => (Spec => []FinishedOnce)
<1> SUFFICES ASSUME RpcUse PROVE Spec => []FinishedOnce
  OBVIOUS
<1> DEFINE Inv == part = "rpc" => RpcInv
<1>1. Init => Inv
  BY ClientAssumption, RpcInit DEF Init
<1>2. Inv /\ [Next]_vars => Inv'
  BY StepOfPart, RpcStep
<1>3. Inv => FinishedOnce
  BY RpcSafe DEF FinishedOnce
<1> QED
  BY <1>1, <1>2, <1>3, PTL DEF Spec
=============================================================================
