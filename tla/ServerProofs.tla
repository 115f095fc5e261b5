---------------------------- MODULE ServerProofs ----------------------------
(***************************************************************************)
(* Connections, queues and the notify pipe of Server keep their invariant  *)
(* for any number of connections and workers, any pipe and any pool: no    *)
(* two threads have one connection, none is lost but by a gets for a       *)
(* module that is not mounted, every reply has its byte, structures and    *)
(* counters agree, replies are in the order of the requests, and with at   *)
(* least one worker nothing is left behind when every thread is idle.      *)
(***************************************************************************)
EXTENDS Server, ListProofs, FiniteSetTheorems

ClientType ==
  [wire : Seq(Unit), eof : BOOLEAN, sent : Nat, owes : {"none"} \cup Headers]

ConnType ==
  [state : {"free", "conn_read", "conn_write", "conn_closing"},
   sess : Nat, ev_flags : Events, event : Events,
   rbuf : Seq(Unit), is_gets : BOOLEAN, cmd : Unit, wbuf : Unit, wbytes : Nat,
   write_and_go : {"conn_read", "conn_closing"}, answered : Nat]

WorkerType == [pc : {"pop", "wait", "work", "push", "notify", "write"}, c : Conn \cup {NULL}]

LEMMA Types ==
  TypeOK <=>
    /\ client \in [Conn -> ClientType] /\ conn \in [Conn -> ConnType]
    /\ structs \subseteq Conn /\ freeconns \in Seq(Conn) /\ freetotal \in Nat \ {0}
    /\ curr_conns \in Int /\ conn_structs \in Int /\ nsess \in Nat
    /\ io \in [pc : {"loop", "drive", "consume", "peek"}, c : Conn \cup {NULL}]
    /\ REQ \in Seq(Conn) /\ RSP \in Seq(Conn)
    /\ pipe \in 0 .. PipeCap /\ notify_lock \in Worker \cup {NULL}
    /\ worker \in [Worker -> WorkerType] /\ up \in BOOLEAN
BY DEF TypeOK, ClientType, ConnType, WorkerType

-----------------------------------------------------------------------------
(* Types *)

LEMMA NewConnType == \A s \in Nat : NewConn(s) \in ConnType
BY DEF NewConn, ConnType, Events, NoUnit, Unit, AllKinds

LEMMA ClosedType == \A cn \in ConnType : Closed(cn) \in ConnType
BY DEF Closed, ConnType, Events

LEMMA NewClientType == NewClient \in ClientType
BY DEF NewClient, ClientType

\* What the I/O thread takes from an input buffer.
LEMMA CommandType ==
  ASSUME TypeOK, NEW c \in Conn, HasCommand(c)
  PROVE  Command(c) \in Unit /\ RestOf(c) \in Seq(Unit)
<1> DEFINE b == conn[c].rbuf
<1>1. b \in Seq(Unit) /\ conn[c].is_gets \in BOOLEAN BY Types DEF ConnType
<1>2. Len(b) >= 1 /\ (conn[c].is_gets => Len(b) >= 2) BY <1>1 DEF HasCommand
<1> HIDE DEF b
<1>3. b # <<>> /\ Head(b) \in Unit /\ Tail(b) \in Seq(Unit) /\ Len(Tail(b)) = Len(b) - 1
  BY <1>1, <1>2
<1>4. ASSUME conn[c].is_gets PROVE Tail(Tail(b)) \in Seq(Unit)
  <2>1. Len(Tail(b)) >= 1 BY <1>1, <1>2, <1>3, <1>4
  <2> DEFINE t == Tail(b)
  <2>2. t \in Seq(Unit) /\ Len(t) >= 1 BY <1>3, <2>1
  <2> HIDE DEF t
  <2>3. t # <<>> BY <2>2
  <2>4. Tail(t) \in Seq(Unit) BY <2>2, <2>3
  <2> QED BY <2>4 DEF t
<1> QED BY <1>3, <1>4 DEF b, Command, RestOf

LEMMA InitTypes == Init => TypeOK
<1> SUFFICES ASSUME Init PROVE TypeOK OBVIOUS
<1>1. conn \in [Conn -> ConnType] BY NewConnType, ClosedType DEF Init
<1>2. client \in [Conn -> ClientType] BY NewClientType DEF Init
<1>3. worker \in [Worker -> WorkerType] BY DEF Init, WorkerType
<1> QED BY <1>1, <1>2, <1>3, ServerAssumption, Types DEF Init, conn_init, cq_init, Listeners

-----------------------------------------------------------------------------
(* The I/O thread at work on one connection *)

\* What drive_machine does to a connection besides giving it away and closing
\* it: only that connection changes, it stays open with its command, and the
\* thread leaves it only when libevent has it.
Serves(c) ==
  /\ Driving(c)
  /\ \E r \in ConnType :
       /\ conn' = [conn EXCEPT ![c] = r]
       /\ r.state # "free" /\ r.cmd = conn[c].cmd
       /\ r.state \in {"conn_read", "conn_write"} => r.event = r.ev_flags
       /\ io' = io \/ (Loop /\ r.event # "none" /\ r.state # "conn_closing")
  /\ client' \in [Conn -> ClientType]
  /\ UNCHANGED <<nsess, pool, REQ, RSP, wakeup, worker, up>>

LEMMA DrivenOpen ==
  ASSUME IInv, NEW c \in Conn, Driving(c)
  PROVE  conn[c] \in ConnType /\ conn[c].state # "free"
<1>1. c \in InLoop BY DEF InLoop
<1>2. InLoop \subseteq Open
  <2>1. 1 \in DOMAIN Places /\ Places[1] = InLoop BY DEF Places
  <2> QED BY <2>1 DEF IInv, OneOwner
<1> QED BY <1>1, <1>2, Types DEF Open, IInv

LEMMA ReplyServes ==
  ASSUME IInv, NEW c \in Conn, Reading(c), NEW n \in Nat, NEW rest \in Seq(Unit),
         NEW go \in {"conn_read", "conn_closing"}, Reply(c, n, rest, go)
  PROVE  Serves(c)
<1> DEFINE r == [conn[c] EXCEPT
       !.wbuf = [s |-> conn[c].sess, n |-> n, k |-> "get"], !.wbytes = RespLen,
       !.state = "conn_write", !.write_and_go = go, !.rbuf = rest, !.is_gets = FALSE]
<1>1. conn[c] \in ConnType /\ conn[c].state = "conn_read"
  BY DrivenOpen DEF Reading
<1>2. [s |-> conn[c].sess, n |-> n, k |-> "get"] \in Unit
  BY <1>1 DEF Unit, ConnType, AllKinds
<1>3. r \in ConnType /\ r.state = "conn_write" /\ r.cmd = conn[c].cmd
      /\ r.event = conn[c].event /\ r.ev_flags = conn[c].ev_flags
  BY <1>1, <1>2, ServerAssumption DEF ConnType
<1>4. r.event = r.ev_flags BY <1>1, <1>3 DEF IInv, FlagsTrue
<1>5. conn' = [conn EXCEPT ![c] = r] BY DEF Reply
<1>6. client \in [Conn -> ClientType] BY Types DEF IInv
<1> HIDE DEF r
<1> QED BY <1>3, <1>4, <1>5, <1>6 DEF Reply, Serves, Reading, clients

-----------------------------------------------------------------------------
(* The places a connection can be in *)

LoopOf(i, f) == {c \in Conn : (i.pc = "drive" /\ i.c = c) \/ f[c].event # "none"}
OpenOf(f) == {c \in Conn : f[c].state # "free"}
HandsOf(h) == {h[w].c : w \in Worker} \ {NULL}
NotifyingOf(h) == {w \in Worker : h[w].pc \in {"notify", "write"}}
SingleHands(h) == \A v, w \in Worker : h[v].c = h[w].c => v = w \/ h[v].c = NULL

Apart(l, q, a, r, o) ==
  /\ l \cap q = {} /\ l \cap a = {} /\ l \cap r = {}
  /\ q \cap a = {} /\ q \cap r = {} /\ a \cap r = {}
  /\ l \subseteq o /\ q \subseteq o /\ a \subseteq o /\ r \subseteq o

LEMMA Pairwise ==
  ASSUME NEW l, NEW q, NEW a, NEW r, NEW o
  PROVE  LET P == <<l, q, a, r>> IN
         /\ Apart(l, q, a, r, o)
              <=> /\ \A i, j \in DOMAIN P : i # j => P[i] \cap P[j] = {}
                  /\ \A i \in DOMAIN P : P[i] \subseteq o
         /\ UNION {P[i] : i \in DOMAIN P} = l \cup q \cup a \cup r
<1> DEFINE P == <<l, q, a, r>>
<1>1. DOMAIN P = {1, 2, 3, 4} OBVIOUS
<1>2. P[1] = l /\ P[2] = q /\ P[3] = a /\ P[4] = r OBVIOUS
<1> HIDE DEF P
<1>3. (\A i, j \in DOMAIN P : i # j => P[i] \cap P[j] = {})
        <=> /\ l \cap q = {} /\ l \cap a = {} /\ l \cap r = {}
            /\ q \cap a = {} /\ q \cap r = {} /\ a \cap r = {}
  <2> DEFINE D(i, j) == P[i] \cap P[j] = {}
  <2>1. (\A i, j \in DOMAIN P : i # j => D(i, j)) <=>
        (\A i, j \in {1, 2, 3, 4} : i # j => D(i, j)) BY <1>1
  <2>2. \A i, j \in {1, 2, 3, 4} : D(i, j) => D(j, i) OBVIOUS
  <2>3. D(1, 2) <=> l \cap q = {} BY <1>2
  <2>4. D(1, 3) <=> l \cap a = {} BY <1>2
  <2>5. D(1, 4) <=> l \cap r = {} BY <1>2
  <2>6. D(2, 3) <=> q \cap a = {} BY <1>2
  <2>7. D(2, 4) <=> q \cap r = {} BY <1>2
  <2>8. D(3, 4) <=> a \cap r = {} BY <1>2
  <2> HIDE DEF D
  <2>9. (\A i, j \in {1, 2, 3, 4} : i # j => D(i, j))
          <=> D(1, 2) /\ D(1, 3) /\ D(1, 4) /\ D(2, 3) /\ D(2, 4) /\ D(3, 4)
    BY <2>2
  <2> QED BY <2>1, <2>3, <2>4, <2>5, <2>6, <2>7, <2>8, <2>9 DEF D
<1>4. (\A i \in DOMAIN P : P[i] \subseteq o)
        <=> l \subseteq o /\ q \subseteq o /\ a \subseteq o /\ r \subseteq o
  BY <1>1, <1>2
<1>5. UNION {P[i] : i \in DOMAIN P} = l \cup q \cup a \cup r
  BY <1>1, <1>2
<1> QED BY <1>3, <1>4, <1>5 DEF Apart, P

\* What IInv says of places, in terms of the sets the steps below move
\* connections between.
Owned(l, q, a, r, o, f) ==
  Apart(l, q, a, r, o) /\ \A c \in o \ (l \cup q \cup a \cup r) : f[c].cmd.k = "gets_nomod"

LEMMA Owners ==
  OneOwner /\ OnlyModuleMissLoses <=>
    /\ Linear(REQ) /\ Linear(RSP) /\ SingleHands(worker)
    /\ Owned(LoopOf(io, conn), Range(REQ), HandsOf(worker), Range(RSP), OpenOf(conn), conn)
<1>1. /\ InLoop = LoopOf(io, conn) /\ ToSet(REQ) = Range(REQ) /\ ToSet(RSP) = Range(RSP)
      /\ AtWorkers = HandsOf(worker) /\ Open = OpenOf(conn)
  BY DEF InLoop, LoopOf, Driving, ToSet, Range, AtWorkers, HandsOf, Open, OpenOf
<1>2. Places = <<LoopOf(io, conn), Range(REQ), HandsOf(worker), Range(RSP)>>
  BY <1>1 DEF Places
<1>3. OneOwner <=> /\ Linear(REQ) /\ Linear(RSP) /\ SingleHands(worker)
                   /\ Apart(LoopOf(io, conn), Range(REQ), HandsOf(worker), Range(RSP), OpenOf(conn))
  BY <1>1, <1>2, Pairwise DEF OneOwner, SingleHands
<1>4. Held = LoopOf(io, conn) \cup Range(REQ) \cup HandsOf(worker) \cup Range(RSP)
  BY <1>2, Pairwise DEF Held
<1> QED BY <1>1, <1>3, <1>4 DEF OnlyModuleMissLoses, Owned

LEMMA OwnersNext ==
  OneOwner' /\ OnlyModuleMissLoses' <=>
    /\ Linear(REQ') /\ Linear(RSP') /\ SingleHands(worker')
    /\ Owned(LoopOf(io', conn'), Range(REQ'), HandsOf(worker'), Range(RSP'), OpenOf(conn'), conn')
<1>1. /\ InLoop' = LoopOf(io', conn') /\ ToSet(REQ') = Range(REQ') /\ ToSet(RSP') = Range(RSP')
      /\ AtWorkers' = HandsOf(worker') /\ Open' = OpenOf(conn')
  BY DEF InLoop, LoopOf, Driving, ToSet, Range, AtWorkers, HandsOf, Open, OpenOf
<1>2. Places' = <<LoopOf(io', conn'), Range(REQ'), HandsOf(worker'), Range(RSP')>>
  BY <1>1 DEF Places
<1>3. OneOwner' <=> /\ Linear(REQ') /\ Linear(RSP') /\ SingleHands(worker')
                    /\ Apart(LoopOf(io', conn'), Range(REQ'), HandsOf(worker'), Range(RSP'), OpenOf(conn'))
  BY <1>1, <1>2, Pairwise DEF OneOwner, SingleHands
<1>4. Held' = LoopOf(io', conn') \cup Range(REQ') \cup HandsOf(worker') \cup Range(RSP')
  BY <1>2, Pairwise DEF Held
<1> QED BY <1>1, <1>3, <1>4 DEF OnlyModuleMissLoses, Owned

-----------------------------------------------------------------------------
(* Steps that move no connection *)

LEMMA SendType ==
  ASSUME TypeOK, NEW c \in Conn, NEW k \in AllKinds \cup Bodies, Send(c, k)
  PROVE  client' \in [Conn -> ClientType]
<1> DEFINE u == [s |-> conn[c].sess, n |-> client[c].sent + 1, k |-> k]
           m == [client[c] EXCEPT
                   !.wire = Append(client[c].wire, u),
                   !.sent = IF k \notin Headers THEN u.n ELSE client[c].sent,
                   !.owes = IF k \notin Headers THEN "none" ELSE k]
<1>1. conn[c] \in ConnType /\ client[c] \in ClientType BY Types
<1>2. u \in Unit
  <2>1. conn[c].sess \in Nat /\ client[c].sent + 1 \in Nat BY <1>1 DEF ConnType, ClientType
  <2> QED BY <2>1 DEF Unit
<1>4. client' = [client EXCEPT ![c] = m] BY DEF Send
<1> HIDE DEF u
<1>3. m \in ClientType
  <2>1. /\ Append(client[c].wire, u) \in Seq(Unit)
        /\ client[c].sent \in Nat /\ u.n \in Nat
    BY <1>1, <1>2 DEF ClientType, Unit
  <2> HIDE DEF u
  <2> QED BY <2>1, <1>1 DEF ClientType
<1> HIDE DEF m
<1> QED BY <1>3, <1>4, Types

LEMMA HangUpType ==
  ASSUME TypeOK, NEW c \in Conn, HangUp(c)
  PROVE  client' \in [Conn -> ClientType]
<1> DEFINE m == [client[c] EXCEPT !.eof = TRUE]
<1>1. client \in [Conn -> ClientType] /\ m \in ClientType BY Types DEF ClientType
<1>2. client' = [client EXCEPT ![c] = m] BY DEF HangUp
<1> HIDE DEF m
<1> QED BY <1>1, <1>2

\* What a client does, the stop command, and a step that changes nothing.
LEMMA OutsideKeeps ==
  ASSUME IInv, client' \in [Conn -> ClientType], up' \in BOOLEAN,
         UNCHANGED <<nsess, conn, pool, io, REQ, RSP, wakeup, worker>>
  PROVE  IInv'
<1> USE DEF pool, wakeup
<1>1. TypeOK' BY DEF IInv, TypeOK, ClientType
<1>2. HandsFull' /\ FlagsTrue' /\ ClosesAtOnce'
  BY DEF IInv, HandsFull, HasCommand, FlagsTrue, ClosesAtOnce, Driving
<1>3. OneOwner' /\ OnlyModuleMissLoses' BY Owners, OwnersNext DEF IInv
<1>4. NotifyBalance' BY DEF IInv, NotifyBalance
<1>5. Accounting' BY DEF IInv, Accounting, Open
<1> QED BY <1>1, <1>2, <1>3, <1>4, <1>5 DEF IInv

\* The I/O thread answers, reads or writes.
LEMMA ServesKeeps ==
  ASSUME IInv, NEW c \in Conn, Serves(c)
  PROVE  IInv'
<1> USE DEF pool, wakeup
<1>1. PICK r \in ConnType :
        /\ conn' = [conn EXCEPT ![c] = r]
        /\ r.state # "free" /\ r.cmd = conn[c].cmd
        /\ r.state \in {"conn_read", "conn_write"} => r.event = r.ev_flags
        /\ io' = io \/ (Loop /\ r.event # "none" /\ r.state # "conn_closing")
  BY DEF Serves
<1>2. Driving(c) /\ conn[c].state # "free" BY DrivenOpen DEF Serves
<1>3. conn \in [Conn -> ConnType] /\ io.pc = "drive" /\ io.c = c
      /\ io \in [pc : {"loop", "drive", "consume", "peek"}, c : Conn \cup {NULL}]
  BY <1>2, Types DEF Driving, IInv
<1>4. conn' \in [Conn -> ConnType] /\ conn'[c] = r
      /\ \A d \in Conn : d # c => conn'[d] = conn[d]
  BY <1>1, <1>3
<1>5. io' \in [pc : {"loop", "drive", "consume", "peek"}, c : Conn \cup {NULL}]
      /\ (io' = io \/ (io' = [pc |-> "loop", c |-> NULL]
                        /\ r.event # "none" /\ r.state # "conn_closing"))
  BY <1>1, <1>3 DEF Loop
<1>6. TypeOK'
  <2>1. UNCHANGED <<nsess, structs, freeconns, freetotal, curr_conns, conn_structs, REQ, RSP, pipe,
                    notify_lock, worker, up>>
        /\ client' \in [Conn -> ClientType]
    BY DEF Serves
  <2> QED BY <2>1, <1>4, <1>5 DEF IInv, TypeOK, ClientType, ConnType
<1>7. HandsFull' BY <1>3, <1>5 DEF IInv, HandsFull, Serves
<1>8. FlagsTrue' BY <1>1, <1>4 DEF IInv, FlagsTrue
<1>9. ClosesAtOnce'
  <2> SUFFICES ASSUME NEW d \in Conn, conn'[d].state = "conn_closing"
               PROVE  Driving(d)'
    BY DEF ClosesAtOnce
  <2>1. CASE d = c BY <2>1, <1>3, <1>4, <1>5 DEF Driving
  <2>2. CASE d # c
    <3>1. Driving(d) BY <2>2, <1>4 DEF IInv, ClosesAtOnce
    <3> QED BY <3>1, <2>2, <1>3 DEF Driving
  <2> QED BY <2>1, <2>2
<1>10. LoopOf(io', conn') = LoopOf(io, conn) /\ OpenOf(conn') = OpenOf(conn)
  BY <1>1, <1>2, <1>3, <1>4, <1>5 DEF LoopOf, OpenOf
<1>11. \A d \in Conn : conn'[d].cmd = conn[d].cmd BY <1>1, <1>4
<1>12. OneOwner' /\ OnlyModuleMissLoses'
  <2>1. \A d \in OpenOf(conn) : conn'[d].cmd = conn[d].cmd BY <1>11 DEF OpenOf
  <2> QED BY <2>1, <1>10, Owners, OwnersNext DEF IInv, Owned, Serves
<1>13. NotifyBalance' BY <1>3, <1>5 DEF IInv, NotifyBalance, Serves
<1>14. Accounting'
  <2>1. Open' = Open BY <1>10 DEF Open, OpenOf
  <2> QED BY <2>1 DEF IInv, Accounting, Serves
<1> QED BY <1>6, <1>7, <1>8, <1>9, <1>12, <1>13, <1>14 DEF IInv

LEMMA ReadServes ==
  ASSUME IInv, NEW c \in Conn,
         \/ AnswerHere(c) \/ CannotForward(c) \/ GetsHeader(c) \/ Quit(c)
         \/ ReadData(c) \/ ReadNoMemory(c) \/ ReadEnd(c)
  PROVE  Serves(c)
<1>1. TypeOK /\ client \in [Conn -> ClientType] BY Types DEF IInv
<1>2. Reading(c) /\ Driving(c) /\ conn[c].state = "conn_read"
  BY DEF AnswerHere, CannotForward, Forwardable, GetsHeader, Quit, ReadData, ReadNoMemory,
         ReadEnd, NeedsInput, Reading
<1>3. conn[c] \in ConnType /\ conn[c].event = conn[c].ev_flags
  BY <1>2, DrivenOpen DEF IInv, FlagsTrue
<1>4. CASE AnswerHere(c) \/ CannotForward(c)
  <2>1. HasCommand(c) /\ Reply(c, Command(c).n, RestOf(c), "conn_read")
    BY <1>4 DEF AnswerHere, CannotForward, Forwardable
  <2>2. Command(c) \in Unit /\ RestOf(c) \in Seq(Unit) BY <2>1, <1>1, CommandType
  <2>3. Command(c).n \in Nat BY <2>2 DEF Unit
  <2> QED BY <2>1, <2>2, <2>3, <1>2, ReplyServes
<1>5. CASE ReadNoMemory(c)
  <2>1. Reply(c, conn[c].answered + 1, <<>>, "conn_closing") BY <1>5 DEF ReadNoMemory
  <2>2. conn[c].answered + 1 \in Nat /\ <<>> \in Seq(Unit) BY <1>3 DEF ConnType
  <2> QED BY <2>1, <2>2, <1>2, ReplyServes
<1>6. CASE GetsHeader(c)
  <2> DEFINE r == [conn[c] EXCEPT !.is_gets = TRUE]
  <2>1. /\ r \in ConnType /\ r.state = "conn_read" /\ r.cmd = conn[c].cmd
        /\ r.event = r.ev_flags
    BY <1>2, <1>3 DEF ConnType
  <2>2. conn' = [conn EXCEPT ![c] = r] BY <1>6 DEF GetsHeader
  <2> HIDE DEF r
  <2> QED BY <2>1, <2>2, <1>1, <1>2, <1>6 DEF GetsHeader, Serves, clients
<1>7. CASE Quit(c)
  <2> DEFINE r == [conn[c] EXCEPT !.state = "conn_closing", !.rbuf = RestOf(c)]
  <2>1. RestOf(c) \in Seq(Unit) BY <1>1, <1>7, CommandType DEF Quit
  <2>2. r \in ConnType /\ r.state = "conn_closing" /\ r.cmd = conn[c].cmd
    BY <1>3, <2>1 DEF ConnType
  <2>3. conn' = [conn EXCEPT ![c] = r] BY <1>7 DEF Quit
  <2> HIDE DEF r
  <2> QED BY <2>2, <2>3, <1>1, <1>2, <1>7 DEF Quit, Serves, clients
<1>8. CASE ReadEnd(c)
  <2> DEFINE r == [conn[c] EXCEPT !.state = "conn_closing"]
  <2>1. r \in ConnType /\ r.state = "conn_closing" /\ r.cmd = conn[c].cmd
    BY <1>3 DEF ConnType
  <2>2. conn' = [conn EXCEPT ![c] = r] BY <1>8 DEF ReadEnd
  <2> HIDE DEF r
  <2> QED BY <2>1, <2>2, <1>1, <1>2, <1>8 DEF ReadEnd, Serves, clients
<1>9. CASE ReadData(c)
  <2>1. PICK n \in 1 .. Len(client[c].wire) :
          /\ client' = [client EXCEPT ![c].wire = SubSeq(@, n + 1, Len(@))]
          /\ conn' = [conn EXCEPT ![c].rbuf = @ \o SubSeq(client[c].wire, 1, n)]
    BY <1>9 DEF ReadData
  <2> DEFINE got == SubSeq(client[c].wire, 1, n)
             left == SubSeq(client[c].wire, n + 1, Len(client[c].wire))
             m == [client[c] EXCEPT !.wire = left]
             r == [conn[c] EXCEPT !.rbuf = conn[c].rbuf \o got]
  <2>2. client[c] \in ClientType /\ client[c].wire \in Seq(Unit) BY <1>1 DEF ClientType
  <2>3. got \in Seq(Unit) /\ left \in Seq(Unit) BY <2>2
  <2>4. client' = [client EXCEPT ![c] = m] /\ conn' = [conn EXCEPT ![c] = r] BY <2>1
  <2> HIDE DEF got, left
  <2>5. m \in ClientType BY <2>2, <2>3 DEF ClientType
  <2>6. conn[c].rbuf \o got \in Seq(Unit) BY <2>3, <1>3 DEF ConnType
  <2>7. /\ r \in ConnType /\ r.state = "conn_read" /\ r.cmd = conn[c].cmd
        /\ r.event = r.ev_flags
    BY <2>6, <1>2, <1>3 DEF ConnType
  <2> HIDE DEF m, r
  <2>8. client' \in [Conn -> ClientType] BY <2>4, <2>5, <1>1
  <2> QED BY <2>4, <2>7, <2>8, <1>2, <1>9 DEF ReadData, Serves
<1> QED BY <1>4, <1>5, <1>6, <1>7, <1>8, <1>9

\* When libevent refuses, the machine goes on to close the connection.
LEMMA UpdateServes ==
  ASSUME IInv, NEW c \in Conn, NEW flags \in {"read", "write"},
         Driving(c), conn[c].state \in {"conn_read", "conn_write"}, update_event(c, flags),
         UNCHANGED <<clients, pool, REQ, RSP, wakeup, worker, up>>
  PROVE  Serves(c)
<1>1. client \in [Conn -> ClientType] /\ conn \in [Conn -> ConnType] BY Types DEF IInv
<1>2. conn[c] \in ConnType /\ conn[c].event = conn[c].ev_flags
  BY DrivenOpen DEF IInv, FlagsTrue
<1>3. CASE conn[c].ev_flags = flags /\ conn' = conn /\ Loop
  <2> DEFINE r == conn[c]
  <2>1. conn' = [conn EXCEPT ![c] = r] BY <1>1, <1>3
  <2>2. /\ r \in ConnType /\ r.state \in {"conn_read", "conn_write"}
        /\ r.event = r.ev_flags /\ r.event # "none"
    BY <1>2, <1>3
  <2>3. r.cmd = conn[c].cmd OBVIOUS
  <2> HIDE DEF r
  <2> QED BY <1>1, <1>3, <2>1, <2>2, <2>3 DEF Serves, clients
<1>4. CASE /\ conn' = [conn EXCEPT ![c] = [@ EXCEPT !.ev_flags = flags, !.event = flags]]
           /\ Loop
  <2> DEFINE r == [conn[c] EXCEPT !.ev_flags = flags, !.event = flags]
  <2>1. conn' = [conn EXCEPT ![c] = r] BY <1>4
  <2>2. /\ r \in ConnType /\ r.state = conn[c].state /\ r.cmd = conn[c].cmd
        /\ r.event = r.ev_flags /\ r.event # "none"
    BY <1>2 DEF ConnType, Events
  <2> HIDE DEF r
  <2> QED BY <1>1, <1>4, <2>1, <2>2 DEF Serves, clients
<1>5. CASE /\ conn' = [conn EXCEPT ![c] =
                [@ EXCEPT !.ev_flags = flags, !.event = "none", !.state = "conn_closing"]]
           /\ UNCHANGED io
  <2> DEFINE r == [conn[c] EXCEPT !.ev_flags = flags, !.event = "none", !.state = "conn_closing"]
  <2>1. conn' = [conn EXCEPT ![c] = r] BY <1>5
  <2>2. r \in ConnType /\ r.state = "conn_closing" /\ r.cmd = conn[c].cmd
    BY <1>2 DEF ConnType, Events
  <2> HIDE DEF r
  <2> QED BY <1>1, <1>5, <2>1, <2>2 DEF Serves, clients
<1> QED BY <1>3, <1>4, <1>5 DEF update_event

LEMMA WriteServes ==
  ASSUME IInv, NEW c \in Conn,
         ReadAgain(c) \/ WriteDone(c) \/ WriteSome(c) \/ WriteAgain(c) \/ WriteError(c)
  PROVE  Serves(c)
<1>1. client \in [Conn -> ClientType] BY Types DEF IInv
<1>2. CASE ReadAgain(c)
  <2>1. Driving(c) /\ conn[c].state = "conn_read" BY <1>2 DEF ReadAgain, NeedsInput, Reading
  <2> QED BY <2>1, <1>2, UpdateServes DEF ReadAgain
<1>3. CASE WriteAgain(c)
  <2>1. Driving(c) /\ conn[c].state = "conn_write" BY <1>3 DEF WriteAgain, Writing
  <2> QED BY <2>1, <1>3, UpdateServes DEF WriteAgain
<1>4. ASSUME Writing(c)
      PROVE  /\ Driving(c) /\ conn[c].state = "conn_write" /\ conn[c] \in ConnType
             /\ conn[c].event = conn[c].ev_flags
  BY <1>4, DrivenOpen DEF Writing, IInv, FlagsTrue
<1>5. CASE WriteDone(c)
  <2> DEFINE r == [conn[c] EXCEPT !.state = conn[c].write_and_go,
                                  !.answered = conn[c].answered + 1]
  <2>1. Writing(c) /\ conn' = [conn EXCEPT ![c] = r] BY <1>5 DEF WriteDone
  <2>2. /\ r \in ConnType /\ r.state # "free" /\ r.cmd = conn[c].cmd
        /\ r.event = r.ev_flags
    <3>1. conn[c].write_and_go \in {"conn_read", "conn_closing"} /\ conn[c].answered + 1 \in Nat
      BY <2>1, <1>4 DEF ConnType
    <3> QED BY <3>1, <2>1, <1>4 DEF ConnType
  <2> HIDE DEF r
  <2> QED BY <2>1, <2>2, <1>1, <1>4, <1>5 DEF WriteDone, Serves, clients
<1>6. CASE WriteSome(c)
  <2>1. Writing(c) BY <1>6 DEF WriteSome
  <2>2. PICK n \in 1 .. conn[c].wbytes : conn' = [conn EXCEPT ![c].wbytes = @ - n]
    BY <1>6 DEF WriteSome
  <2> DEFINE r == [conn[c] EXCEPT !.wbytes = conn[c].wbytes - n]
  <2>3. conn' = [conn EXCEPT ![c] = r] BY <2>2
  <2>4. conn[c].wbytes - n \in Nat BY <2>1, <2>2, <1>4 DEF ConnType
  <2>5. /\ r \in ConnType /\ r.state # "free" /\ r.cmd = conn[c].cmd
        /\ r.event = r.ev_flags
    BY <2>4, <2>1, <1>4 DEF ConnType
  <2> HIDE DEF r
  <2> QED BY <2>1, <2>3, <2>5, <1>1, <1>4, <1>6 DEF WriteSome, Serves, clients
<1>7. CASE WriteError(c)
  <2> DEFINE r == [conn[c] EXCEPT !.state = "conn_closing"]
  <2>1. Writing(c) /\ conn' = [conn EXCEPT ![c] = r] BY <1>7 DEF WriteError
  <2>2. r \in ConnType /\ r.state = "conn_closing" /\ r.cmd = conn[c].cmd
    BY <2>1, <1>4 DEF ConnType
  <2> HIDE DEF r
  <2> QED BY <2>1, <2>2, <1>1, <1>4, <1>7 DEF WriteError, Serves, clients
<1> QED BY <1>2, <1>3, <1>5, <1>6, <1>7

-----------------------------------------------------------------------------
(* A worker changes hands *)

LEMMA HandsChange ==
  ASSUME NEW h \in [Worker -> WorkerType], SingleHands(h), NEW w \in Worker,
         NEW r \in WorkerType
  PROVE  LET g == [h EXCEPT ![w] = r] IN
         /\ g \in [Worker -> WorkerType]
         /\ r.c = h[w].c => HandsOf(g) = HandsOf(h) /\ SingleHands(g)
         /\ r.c = NULL => HandsOf(g) = HandsOf(h) \ {h[w].c} /\ SingleHands(g)
         /\ h[w].c = NULL /\ r.c # NULL /\ r.c \notin HandsOf(h)
              => HandsOf(g) = HandsOf(h) \cup {r.c} /\ SingleHands(g)
<1> DEFINE g == [h EXCEPT ![w] = r]
<1>1. /\ g \in [Worker -> WorkerType] /\ g[w] = r
      /\ \A v \in Worker : v # w => g[v] = h[v]
  OBVIOUS
<1> HIDE DEF g
<1>2. ASSUME r.c = h[w].c PROVE HandsOf(g) = HandsOf(h) /\ SingleHands(g)
  <2>1. \A v \in Worker : g[v].c = h[v].c BY <1>1, <1>2
  <2> QED BY <2>1 DEF HandsOf, SingleHands
<1>3. ASSUME r.c = NULL PROVE HandsOf(g) = HandsOf(h) \ {h[w].c} /\ SingleHands(g)
  <2>1. SingleHands(g) BY <1>1, <1>3 DEF SingleHands
  <2>2. ASSUME NEW x PROVE x \in HandsOf(g) <=> x \in HandsOf(h) /\ x # h[w].c
    <3>1. x \in HandsOf(g) <=> x # NULL /\ \E v \in Worker : v # w /\ h[v].c = x
      BY <1>1, <1>3 DEF HandsOf
    <3>2. x \in HandsOf(h) <=> x # NULL /\ \E v \in Worker : h[v].c = x BY DEF HandsOf
    <3> QED BY <3>1, <3>2 DEF SingleHands
  <2> QED BY <2>1, <2>2
<1>4. ASSUME h[w].c = NULL, r.c # NULL, r.c \notin HandsOf(h)
      PROVE  HandsOf(g) = HandsOf(h) \cup {r.c} /\ SingleHands(g)
  <2>1. \A v \in Worker : h[v].c # r.c BY <1>4 DEF HandsOf
  <2>2. SingleHands(g) BY <1>1, <2>1 DEF SingleHands
  <2>3. ASSUME NEW x PROVE x \in HandsOf(g) <=> x \in HandsOf(h) \/ x = r.c
    <3>1. x \in HandsOf(g) <=> x # NULL /\ (x = r.c \/ \E v \in Worker : v # w /\ h[v].c = x)
      BY <1>1 DEF HandsOf
    <3>2. x \in HandsOf(h) <=> x # NULL /\ \E v \in Worker : h[v].c = x BY DEF HandsOf
    <3> QED BY <3>1, <3>2, <1>4
  <2> QED BY <2>2, <2>3
<1> QED BY <1>1, <1>2, <1>3, <1>4 DEF g

Notifies(x) == x.pc \in {"notify", "write"}

LEMMA NotifyingChange ==
  ASSUME NEW h \in [Worker -> WorkerType], NEW w \in Worker,
         NEW r \in WorkerType
  PROVE  LET g == [h EXCEPT ![w] = r] IN
         /\ Cardinality(NotifyingOf(h)) \in Nat
         /\ (Notifies(r) <=> Notifies(h[w])) => NotifyingOf(g) = NotifyingOf(h)
         /\ Notifies(r) /\ ~Notifies(h[w])
              => Cardinality(NotifyingOf(g)) = Cardinality(NotifyingOf(h)) + 1
         /\ ~Notifies(r) /\ Notifies(h[w])
              => Cardinality(NotifyingOf(g)) = Cardinality(NotifyingOf(h)) - 1
<1> DEFINE g == [h EXCEPT ![w] = r]
<1>1. g[w] = r /\ \A v \in Worker : v # w => g[v] = h[v]
  OBVIOUS
<1> HIDE DEF g
<1>2. IsFiniteSet(NotifyingOf(h)) /\ Cardinality(NotifyingOf(h)) \in Nat
  <2>1. IsFiniteSet(Worker) /\ NotifyingOf(h) \subseteq Worker
    BY ServerAssumption DEF NotifyingOf
  <2> QED BY <2>1, FS_Subset, FS_CardinalityType
<1>3. ASSUME Notifies(r) <=> Notifies(h[w]) PROVE NotifyingOf(g) = NotifyingOf(h)
  BY <1>1, <1>3 DEF NotifyingOf, Notifies
<1>4. ASSUME Notifies(r), ~Notifies(h[w])
      PROVE  Cardinality(NotifyingOf(g)) = Cardinality(NotifyingOf(h)) + 1
  <2>1. NotifyingOf(g) = NotifyingOf(h) \cup {w} /\ w \notin NotifyingOf(h)
    BY <1>1, <1>4 DEF NotifyingOf, Notifies
  <2> QED BY <2>1, <1>2, FS_AddElement
<1>5. ASSUME ~Notifies(r), Notifies(h[w])
      PROVE  Cardinality(NotifyingOf(g)) = Cardinality(NotifyingOf(h)) - 1
  <2>1. NotifyingOf(g) = NotifyingOf(h) \ {w} /\ w \in NotifyingOf(h)
    BY <1>1, <1>5 DEF NotifyingOf, Notifies
  <2> QED BY <2>1, <1>2, FS_RemoveElement
<1> QED BY <1>2, <1>3, <1>4, <1>5 DEF g

LEMMA SignalSame ==
  ASSUME IInv, Signal
  PROVE  /\ worker' \in [Worker -> WorkerType]
         /\ HandsOf(worker') = HandsOf(worker) /\ SingleHands(worker')
         /\ NotifyingOf(worker') = NotifyingOf(worker)
         /\ \A w \in Worker : worker'[w].c # NULL <=> worker'[w].pc \in {"work", "push"}
<1>1. /\ worker \in [Worker -> WorkerType] /\ SingleHands(worker)
      /\ \A w \in Worker : worker[w].c # NULL <=> worker[w].pc \in {"work", "push"}
  BY Types, Owners DEF IInv, HandsFull
<1>2. CASE worker' = worker BY <1>1, <1>2
<1>3. ASSUME NEW w \in Worker, worker[w].pc = "wait", worker' = [worker EXCEPT ![w].pc = "pop"]
      PROVE  /\ worker' \in [Worker -> WorkerType]
             /\ HandsOf(worker') = HandsOf(worker) /\ SingleHands(worker')
             /\ NotifyingOf(worker') = NotifyingOf(worker)
             /\ \A v \in Worker : worker'[v].c # NULL <=> worker'[v].pc \in {"work", "push"}
  <2> DEFINE r == [worker[w] EXCEPT !.pc = "pop"]
  <2>1. worker' = [worker EXCEPT ![w] = r] BY <1>3
  <2>2. /\ r \in WorkerType /\ r.c = worker[w].c /\ r.pc = "pop"
        /\ ~Notifies(r) /\ ~Notifies(worker[w])
    BY <1>1, <1>3 DEF WorkerType, Notifies
  <2> HIDE DEF r
  <2>3. /\ worker' \in [Worker -> WorkerType]
        /\ HandsOf(worker') = HandsOf(worker) /\ SingleHands(worker')
    <3> DEFINE g == [worker EXCEPT ![w] = r]
    <3>1. r.c = worker[w].c => HandsOf(g) = HandsOf(worker) /\ SingleHands(g)
      BY <1>1, <2>2, HandsChange
    <3>2. g \in [Worker -> WorkerType] BY <1>1, <2>2
    <3>3. worker' = g BY <2>1
    <3> HIDE DEF g
    <3> QED BY <2>2, <3>1, <3>2, <3>3
  <2>4. NotifyingOf(worker') = NotifyingOf(worker)
    <3>1. NotifyingOf([worker EXCEPT ![w] = r]) = NotifyingOf(worker)
      BY <1>1, <2>2, NotifyingChange
    <3> QED BY <2>1, <3>1
  <2>5. \A v \in Worker : worker'[v].c # NULL <=> worker'[v].pc \in {"work", "push"}
    <3>1. worker'[w] = r /\ \A v \in Worker : v # w => worker'[v] = worker[v]
      BY <1>1, <2>1
    <3>2. worker[w].c = NULL BY <1>1, <1>3
    <3> QED BY <1>1, <2>2, <3>1, <3>2
  <2> QED BY <2>3, <2>4, <2>5
<1> QED BY <1>2, <1>3 DEF Signal

\* The parts of a conn structure that decide where the connection is.
SameHold(f, g) ==
  \A c \in Conn :
    /\ g[c].state = f[c].state /\ g[c].event = f[c].event /\ g[c].ev_flags = f[c].ev_flags
    /\ g[c].cmd = f[c].cmd /\ g[c].rbuf = f[c].rbuf /\ g[c].is_gets = f[c].is_gets

FullHands(h) == \A w \in Worker : h[w].c # NULL <=> h[w].pc \in {"work", "push"}

\* A step of a worker keeps IInv when the places it leaves do.
LEMMA WorkersKeep ==
  ASSUME IInv, UNCHANGED <<clients, pool, io, up>>,
         conn' \in [Conn -> ConnType], SameHold(conn, conn'),
         REQ' \in Seq(Conn), RSP' \in Seq(Conn), Linear(REQ'), Linear(RSP'),
         pipe' \in 0 .. PipeCap, notify_lock' \in Worker \cup {NULL},
         worker' \in [Worker -> WorkerType], SingleHands(worker'), FullHands(worker'),
         Owned(LoopOf(io, conn), Range(REQ'), HandsOf(worker'), Range(RSP'), OpenOf(conn), conn),
         Len(RSP') = pipe' + Cardinality(NotifyingOf(worker'))
                       + IF io.pc = "peek" THEN 1 ELSE 0
  PROVE  IInv'
<1> USE DEF pool, clients
<1>1. TypeOK'
  <2>1. client \in [Conn -> ClientType] /\ structs \subseteq Conn /\ freeconns \in Seq(Conn)
        /\ freetotal \in Nat \ {0} /\ curr_conns \in Int /\ conn_structs \in Int /\ nsess \in Nat
        /\ io \in [pc : {"loop", "drive", "consume", "peek"}, c : Conn \cup {NULL}]
        /\ up \in BOOLEAN
    BY Types DEF IInv
  <2> QED BY <2>1 DEF TypeOK, ClientType, ConnType, WorkerType
<1>2. HandsFull'
  <2>1. ASSUME io.pc = "consume" PROVE HasCommand(io.c)'
    <3>1. io.c \in Conn
      <4>1. io \in [pc : {"loop", "drive", "consume", "peek"}, c : Conn \cup {NULL}]
        BY Types DEF IInv
      <4> QED BY <4>1, <2>1 DEF IInv, HandsFull
    <3>2. HasCommand(io.c) BY <2>1 DEF IInv, HandsFull
    <3> QED BY <3>1, <3>2 DEF SameHold, HasCommand
  <2> QED BY <2>1 DEF IInv, HandsFull, FullHands
<1>3. FlagsTrue' /\ ClosesAtOnce'
  BY DEF SameHold, IInv, FlagsTrue, ClosesAtOnce, Driving
<1>4. LoopOf(io', conn') = LoopOf(io, conn) /\ OpenOf(conn') = OpenOf(conn)
  BY DEF LoopOf, OpenOf, SameHold
<1>5. OneOwner' /\ OnlyModuleMissLoses'
  <2>1. \A c \in OpenOf(conn) : conn'[c].cmd = conn[c].cmd BY DEF OpenOf, SameHold
  <2> QED BY <2>1, <1>4, OwnersNext DEF Owned
<1>6. NotifyBalance' BY DEF NotifyBalance, NotifyingOf
<1>7. Accounting'
  <2>1. Open' = Open BY <1>4 DEF Open, OpenOf
  <2> QED BY <2>1 DEF IInv, Accounting
<1> QED BY <1>1, <1>2, <1>3, <1>5, <1>6, <1>7 DEF IInv

\* What a worker's step starts from.
LEMMA Before ==
  ASSUME IInv
  PROVE  /\ conn \in [Conn -> ConnType] /\ REQ \in Seq(Conn) /\ RSP \in Seq(Conn)
         /\ Linear(REQ) /\ Linear(RSP) /\ pipe \in 0 .. PipeCap
         /\ notify_lock \in Worker \cup {NULL}
         /\ worker \in [Worker -> WorkerType] /\ SingleHands(worker) /\ FullHands(worker)
         /\ Owned(LoopOf(io, conn), Range(REQ), HandsOf(worker), Range(RSP), OpenOf(conn), conn)
         /\ Len(RSP) = pipe + Cardinality(NotifyingOf(worker)) + IF io.pc = "peek" THEN 1 ELSE 0
         /\ SameHold(conn, conn)
<1>1. NotifyBalance BY DEF IInv
<1> QED BY <1>1, Types, Owners DEF IInv, HandsFull, FullHands, NotifyBalance, NotifyingOf, SameHold

\* Worker w comes to be r.
Becomes(w, r) ==
  /\ r \in WorkerType /\ worker' = [worker EXCEPT ![w] = r]
  /\ r.c # NULL <=> r.pc \in {"work", "push"}

LEMMA WorkerChange ==
  ASSUME IInv, NEW w \in Worker, NEW r, Becomes(w, r)
  PROVE  /\ worker' \in [Worker -> WorkerType] /\ FullHands(worker')
         /\ Cardinality(NotifyingOf(worker)) \in Nat
         /\ r.c = worker[w].c => HandsOf(worker') = HandsOf(worker) /\ SingleHands(worker')
         /\ r.c = NULL => HandsOf(worker') = HandsOf(worker) \ {worker[w].c}
                            /\ SingleHands(worker')
         /\ worker[w].c = NULL /\ r.c # NULL /\ r.c \notin HandsOf(worker)
              => HandsOf(worker') = HandsOf(worker) \cup {r.c} /\ SingleHands(worker')
         /\ (Notifies(r) <=> Notifies(worker[w]))
              => NotifyingOf(worker') = NotifyingOf(worker)
         /\ Notifies(r) /\ ~Notifies(worker[w])
              => Cardinality(NotifyingOf(worker')) = Cardinality(NotifyingOf(worker)) + 1
         /\ ~Notifies(r) /\ Notifies(worker[w])
              => Cardinality(NotifyingOf(worker')) = Cardinality(NotifyingOf(worker)) - 1
<1> DEFINE g == [worker EXCEPT ![w] = r]
<1>1. worker \in [Worker -> WorkerType] /\ SingleHands(worker) /\ FullHands(worker) /\ r \in WorkerType
  BY Before DEF Becomes
<1>2. /\ g \in [Worker -> WorkerType]
      /\ r.c = worker[w].c => HandsOf(g) = HandsOf(worker) /\ SingleHands(g)
      /\ r.c = NULL => HandsOf(g) = HandsOf(worker) \ {worker[w].c} /\ SingleHands(g)
      /\ worker[w].c = NULL /\ r.c # NULL /\ r.c \notin HandsOf(worker)
           => HandsOf(g) = HandsOf(worker) \cup {r.c} /\ SingleHands(g)
  BY <1>1, HandsChange
<1>3. /\ Cardinality(NotifyingOf(worker)) \in Nat
      /\ (Notifies(r) <=> Notifies(worker[w])) => NotifyingOf(g) = NotifyingOf(worker)
      /\ Notifies(r) /\ ~Notifies(worker[w])
           => Cardinality(NotifyingOf(g)) = Cardinality(NotifyingOf(worker)) + 1
      /\ ~Notifies(r) /\ Notifies(worker[w])
           => Cardinality(NotifyingOf(g)) = Cardinality(NotifyingOf(worker)) - 1
  BY <1>1, NotifyingChange
<1>4. FullHands(g)
  <2>1. g[w] = r /\ \A v \in Worker : v # w => g[v] = worker[v] BY <1>1
  <2> HIDE DEF g
  <2> QED BY <2>1, <1>1 DEF FullHands, Becomes
<1>5. worker' = g BY DEF Becomes
<1> HIDE DEF g
<1> QED BY <1>2, <1>3, <1>4, <1>5

-----------------------------------------------------------------------------
(* The steps of a worker *)

\* The connection a worker has in hand.
LEMMA InHand ==
  ASSUME IInv, NEW w \in Worker
  PROVE  /\ worker[w] \in WorkerType
         /\ worker[w].pc \in {"work", "push"}
              => worker[w].c \in Conn /\ worker[w].c \in HandsOf(worker)
         /\ worker[w].pc \notin {"work", "push"} => worker[w].c = NULL
<1>1. worker[w] \in WorkerType /\ (worker[w].c # NULL <=> worker[w].pc \in {"work", "push"})
  BY Before DEF FullHands
<1> QED BY <1>1 DEF WorkerType, HandsOf

LEMMA cq_popKeeps == ASSUME IInv, NEW w \in Worker, cq_pop(w) PROVE IInv'
<1> USE DEF wakeup
<1>1. /\ worker[w].pc = "pop" /\ UNCHANGED <<clients, conn, pool, io, RSP, pipe, notify_lock, up>>
      /\ worker[w] \in WorkerType /\ worker[w].c = NULL
  BY InHand DEF cq_pop
<1>2. CASE REQ = <<>> /\ worker' = [worker EXCEPT ![w].pc = "wait"] /\ UNCHANGED REQ
  <2> DEFINE r == [worker[w] EXCEPT !.pc = "wait"]
  <2>1. /\ Becomes(w, r) /\ r.c = worker[w].c /\ ~Notifies(r) /\ ~Notifies(worker[w])
    BY <1>1, <1>2 DEF Becomes, WorkerType, Notifies
  <2> HIDE DEF r
  <2>2. /\ worker' \in [Worker -> WorkerType] /\ FullHands(worker')
        /\ HandsOf(worker') = HandsOf(worker) /\ SingleHands(worker')
        /\ NotifyingOf(worker') = NotifyingOf(worker)
    BY <2>1, WorkerChange
  <2> QED BY <1>1, <1>2, <2>2, Before, WorkersKeep
<1>3. CASE /\ REQ # <<>> /\ REQ' = Tail(REQ)
           /\ worker' = [worker EXCEPT ![w] = [pc |-> "work", c |-> Head(REQ)]]
  <2> DEFINE c == Head(REQ)
             r == [pc |-> "work", c |-> c]
  <2>1. /\ c \in Range(REQ) /\ REQ' \in Seq(Conn) /\ Linear(REQ')
        /\ Range(REQ') = Range(REQ) \ {c} /\ Range(REQ) \subseteq Conn
    BY <1>3, Before, TailRemoves, RangeAt
  <2>2. Owned(LoopOf(io, conn), Range(REQ), HandsOf(worker), Range(RSP), OpenOf(conn), conn)
    BY Before
  <2> HIDE DEF c
  <2>3. c \notin HandsOf(worker) /\ c \in Conn /\ c # NULL
    BY <2>1, <2>2, ServerAssumption DEF Owned, Apart
  <2>4. Becomes(w, r) /\ r.c = c /\ ~Notifies(r) /\ ~Notifies(worker[w])
    BY <1>1, <1>3, <2>3 DEF Becomes, WorkerType, Notifies, c
  <2> HIDE DEF r
  <2>5. /\ worker' \in [Worker -> WorkerType] /\ FullHands(worker')
        /\ HandsOf(worker') = HandsOf(worker) \cup {c} /\ SingleHands(worker')
        /\ NotifyingOf(worker') = NotifyingOf(worker)
    BY <1>1, <2>3, <2>4, WorkerChange
  <2>6. Owned(LoopOf(io, conn), Range(REQ'), HandsOf(worker'), Range(RSP), OpenOf(conn), conn)
    BY <2>1, <2>2, <2>5 DEF Owned, Apart
  <2> QED BY <1>1, <2>1, <2>5, <2>6, Before, WorkersKeep
<1> QED BY <1>2, <1>3 DEF cq_pop

\* The reply is made in the structure the worker has; the next place is RSP.
LEMMA ReplyMadeKeeps ==
  ASSUME IInv, NEW w \in Worker, worker[w].pc = "work", NEW n \in Nat,
         conn' = [conn EXCEPT ![worker[w].c] =
                    [@ EXCEPT !.wbuf = conn[worker[w].c].cmd, !.wbytes = n]],
         worker' = [worker EXCEPT ![w].pc = "push"],
         UNCHANGED <<clients, pool, io, REQ, RSP, wakeup, up>>
  PROVE  IInv'
<1> USE DEF wakeup
<1>1. worker[w] \in WorkerType /\ worker[w].c \in Conn /\ worker[w].c # NULL
  BY InHand, ServerAssumption
<1> DEFINE c == worker[w].c
           cn == [conn[c] EXCEPT !.wbuf = conn[c].cmd, !.wbytes = n]
           r == [worker[w] EXCEPT !.pc = "push"]
<1>2. conn \in [Conn -> ConnType] /\ conn[c] \in ConnType BY <1>1, Before
<1>3. /\ cn \in ConnType /\ cn.state = conn[c].state /\ cn.event = conn[c].event
      /\ cn.ev_flags = conn[c].ev_flags /\ cn.cmd = conn[c].cmd
      /\ cn.rbuf = conn[c].rbuf /\ cn.is_gets = conn[c].is_gets
  BY <1>2 DEF ConnType
<1>4. conn' = [conn EXCEPT ![c] = cn] OBVIOUS
<1>5. Becomes(w, r) /\ r.c = worker[w].c /\ ~Notifies(r) /\ ~Notifies(worker[w])
  BY <1>1 DEF Becomes, WorkerType, Notifies
<1> HIDE DEF cn, r
<1>6. conn' \in [Conn -> ConnType] /\ SameHold(conn, conn')
  <2>1. conn'[c] = cn /\ \A d \in Conn : d # c => conn'[d] = conn[d] BY <1>1, <1>2, <1>4
  <2> HIDE DEF c
  <2> QED BY <2>1, <1>2, <1>3, <1>4 DEF SameHold
<1>7. /\ worker' \in [Worker -> WorkerType] /\ FullHands(worker')
      /\ HandsOf(worker') = HandsOf(worker) /\ SingleHands(worker')
      /\ NotifyingOf(worker') = NotifyingOf(worker)
  BY <1>5, WorkerChange
<1> QED BY <1>6, <1>7, Before, WorkersKeep

LEMMA WorkKeeps == ASSUME IInv, NEW w \in Worker, Work(w) \/ WorkTimeout(w) PROVE IInv'
<1> DEFINE c == worker[w].c
<1>1. worker[w].pc = "work" BY DEF Work, WorkTimeout
<1>2. conn[c] \in ConnType BY <1>1, InHand, Before
<1>3. RespLen \in Nat BY ServerAssumption
<1>4. CASE WorkTimeout(w) BY <1>1, <1>3, <1>4, ReplyMadeKeeps DEF WorkTimeout
<1>5. CASE Work(w)
  <2> DEFINE n == RespLen + IF conn[c].cmd.k = "gets" THEN conn[c].wbytes ELSE 0
  <2>1. n \in Nat BY <1>2, <1>3 DEF ConnType
  <2>2. /\ conn' = [conn EXCEPT ![worker[w].c] =
                      [@ EXCEPT !.wbuf = conn[worker[w].c].cmd, !.wbytes = n]]
        /\ worker' = [worker EXCEPT ![w].pc = "push"]
        /\ UNCHANGED <<clients, pool, io, REQ, RSP, wakeup, up>>
    BY <1>5 DEF Work
  <2> HIDE DEF n
  <2> QED BY <1>1, <2>1, <2>2, ReplyMadeKeeps
<1> QED BY <1>4, <1>5

\* The only step after which nobody holds an open connection.
LEMMA WorkDropKeeps == ASSUME IInv, NEW w \in Worker, WorkDrop(w) PROVE IInv'
<1> USE DEF wakeup
<1> DEFINE c == worker[w].c
           r == [pc |-> "pop", c |-> NULL]
<1>1. /\ worker[w].pc = "work" /\ worker[w] \in WorkerType /\ c \in Conn /\ conn[c].cmd.k = "gets_nomod"
      /\ worker' = [worker EXCEPT ![w] = r]
      /\ UNCHANGED <<clients, conn, pool, io, REQ, RSP, pipe, notify_lock, up>>
  BY InHand DEF WorkDrop
<1>2. Becomes(w, r) /\ r.c = NULL /\ ~Notifies(r) /\ ~Notifies(worker[w])
  BY <1>1 DEF Becomes, WorkerType, Notifies
<1> HIDE DEF r
<1>3. /\ worker' \in [Worker -> WorkerType] /\ FullHands(worker')
      /\ HandsOf(worker') = HandsOf(worker) \ {c} /\ SingleHands(worker')
      /\ NotifyingOf(worker') = NotifyingOf(worker)
  BY <1>2, WorkerChange
<1>4. Owned(LoopOf(io, conn), Range(REQ), HandsOf(worker), Range(RSP), OpenOf(conn), conn)
  BY Before
<1> HIDE DEF c
<1>5. Owned(LoopOf(io, conn), Range(REQ), HandsOf(worker'), Range(RSP), OpenOf(conn), conn)
  BY <1>1, <1>3, <1>4 DEF Owned, Apart
<1> QED BY <1>1, <1>3, <1>5, Before, WorkersKeep

LEMMA PushRspKeeps == ASSUME IInv, NEW w \in Worker, PushRsp(w) PROVE IInv'
<1> USE DEF wakeup
<1> DEFINE c == worker[w].c
           r == [pc |-> "notify", c |-> NULL]
<1>1. /\ worker[w].pc = "push" /\ worker[w] \in WorkerType /\ c \in Conn /\ c \in HandsOf(worker)
      /\ worker' = [worker EXCEPT ![w] = r] /\ RSP' = Append(RSP, c)
      /\ UNCHANGED <<clients, conn, pool, io, REQ, pipe, notify_lock, up>>
  BY InHand DEF PushRsp
<1>2. Becomes(w, r) /\ r.c = NULL /\ Notifies(r) /\ ~Notifies(worker[w])
  BY <1>1 DEF Becomes, WorkerType, Notifies
<1> HIDE DEF r
<1>3. /\ worker' \in [Worker -> WorkerType] /\ FullHands(worker')
      /\ HandsOf(worker') = HandsOf(worker) \ {c} /\ SingleHands(worker')
      /\ Cardinality(NotifyingOf(worker')) = Cardinality(NotifyingOf(worker)) + 1
      /\ Cardinality(NotifyingOf(worker)) \in Nat
  BY <1>2, WorkerChange
<1>4. Owned(LoopOf(io, conn), Range(REQ), HandsOf(worker), Range(RSP), OpenOf(conn), conn)
  BY Before
<1>5. c \notin Range(RSP) BY <1>1, <1>4 DEF Owned, Apart
<1> HIDE DEF c
<1>6. /\ RSP' \in Seq(Conn) /\ Len(RSP') = Len(RSP) + 1 /\ Linear(RSP')
      /\ Range(RSP') = Range(RSP) \cup {c}
  BY <1>1, <1>5, Before, AppendLinks
<1>7. Owned(LoopOf(io, conn), Range(REQ), HandsOf(worker'), Range(RSP'), OpenOf(conn), conn)
  BY <1>1, <1>3, <1>4, <1>6 DEF Owned, Apart
<1>8. Len(RSP') = pipe' + Cardinality(NotifyingOf(worker')) + IF io.pc = "peek" THEN 1 ELSE 0
  BY <1>1, <1>3, <1>6, Before
<1> QED BY <1>1, <1>3, <1>6, <1>7, <1>8, Before, WorkersKeep

LEMMA NotifyKeeps ==
  ASSUME IInv, NEW w \in Worker, NotifyLock(w) \/ NotifyWrite(w)
  PROVE  IInv'
<1> USE DEF wakeup
<1>1. worker[w] \in WorkerType BY InHand
<1>2. CASE NotifyLock(w)
  <2> DEFINE r == [worker[w] EXCEPT !.pc = "write"]
  <2>1. /\ Becomes(w, r) /\ r.c = worker[w].c /\ Notifies(r) /\ Notifies(worker[w])
    BY <1>1, <1>2, InHand DEF NotifyLock, Becomes, WorkerType, Notifies
  <2> HIDE DEF r
  <2>2. /\ worker' \in [Worker -> WorkerType] /\ FullHands(worker')
        /\ HandsOf(worker') = HandsOf(worker) /\ SingleHands(worker')
        /\ NotifyingOf(worker') = NotifyingOf(worker)
    BY <2>1, WorkerChange
  <2>3. /\ notify_lock' \in Worker \cup {NULL}
        /\ UNCHANGED <<clients, conn, pool, io, REQ, RSP, pipe, up>>
    BY <1>2 DEF NotifyLock
  <2> QED BY <2>2, <2>3, Before, WorkersKeep
<1>3. CASE NotifyWrite(w)
  <2> DEFINE r == [worker[w] EXCEPT !.pc = "pop"]
  <2>1. /\ Becomes(w, r) /\ r.c = worker[w].c /\ ~Notifies(r) /\ Notifies(worker[w])
    BY <1>1, <1>3, InHand DEF NotifyWrite, Becomes, WorkerType, Notifies
  <2> HIDE DEF r
  <2>2. /\ worker' \in [Worker -> WorkerType] /\ FullHands(worker')
        /\ HandsOf(worker') = HandsOf(worker) /\ SingleHands(worker')
        /\ Cardinality(NotifyingOf(worker')) = Cardinality(NotifyingOf(worker)) - 1
        /\ Cardinality(NotifyingOf(worker)) \in Nat
    BY <2>1, WorkerChange
  <2>3. /\ notify_lock' \in Worker \cup {NULL} /\ pipe < PipeCap /\ pipe' = pipe + 1
        /\ UNCHANGED <<clients, conn, pool, io, REQ, RSP, up>>
    BY <1>3 DEF NotifyWrite
  <2>4. PipeCap \in Nat BY ServerAssumption
  <2>5. pipe' \in 0 .. PipeCap BY <2>3, <2>4, Before
  <2>6. Len(RSP') = pipe' + Cardinality(NotifyingOf(worker')) + IF io.pc = "peek" THEN 1 ELSE 0
    BY <2>2, <2>3, Before
  <2> QED BY <2>2, <2>3, <2>5, <2>6, Before, WorkersKeep
<1> QED BY <1>2, <1>3

-----------------------------------------------------------------------------
(* The I/O thread between events *)

\* When the I/O thread has no connection in hand but c, it may change c.
LEMMA OneChanged ==
  ASSUME IInv, NEW c \in Conn, NEW r \in ConnType, conn' = [conn EXCEPT ![c] = r],
         r.state \in {"conn_read", "conn_write"} => r.event = r.ev_flags,
         r.state # "conn_closing", io.pc # "drive" \/ io.c = c
  PROVE  /\ conn' \in [Conn -> ConnType] /\ FlagsTrue' /\ ClosesAtOnce'
         /\ conn'[c] = r /\ \A d \in Conn : d # c => conn'[d] = conn[d]
<1>1. /\ conn' \in [Conn -> ConnType]
      /\ conn'[c] = r /\ \A d \in Conn : d # c => conn'[d] = conn[d]
  BY Before
<1>2. FlagsTrue' BY <1>1 DEF IInv, FlagsTrue
<1>3. \A d \in Conn : conn'[d].state # "conn_closing"
  <2> SUFFICES ASSUME NEW d \in Conn, d # c, conn[d].state = "conn_closing" PROVE FALSE
    BY <1>1
  <2> QED BY DEF IInv, ClosesAtOnce, Driving
<1> QED BY <1>1, <1>2, <1>3 DEF ClosesAtOnce

LEMMA NoDriveClosed ==
  ASSUME IInv, io.pc # "drive"
  PROVE  \A c \in Conn : conn[c].state # "conn_closing"
BY DEF IInv, ClosesAtOnce, Driving

LEMMA event_handlerKeeps == ASSUME IInv, NEW c \in Conn, event_handler(c) PROVE IInv'
<1> USE DEF pool, wakeup, clients
<1>1. /\ io.pc = "loop" /\ io' = [pc |-> "drive", c |-> c] /\ conn[c].event # "none"
      /\ UNCHANGED <<clients, conn, pool, REQ, RSP, wakeup, worker, up>>
  BY DEF event_handler, Ready, Drive
<1>2. TypeOK'
  <2>1. TypeOK BY DEF IInv
  <2> QED BY <1>1, <2>1 DEF TypeOK
<1>3. HandsFull' BY <1>1, ServerAssumption DEF IInv, HandsFull
<1>4. FlagsTrue' BY <1>1 DEF IInv, FlagsTrue
<1>5. ClosesAtOnce' BY <1>1, NoDriveClosed DEF ClosesAtOnce
<1>6. LoopOf(io', conn') = LoopOf(io, conn) BY <1>1 DEF LoopOf
<1>7. OneOwner' /\ OnlyModuleMissLoses' BY <1>1, <1>6, Owners, OwnersNext DEF IInv
<1>8. NotifyBalance' BY <1>1 DEF IInv, NotifyBalance
<1>9. Accounting' BY <1>1 DEF IInv, Accounting, Open
<1> QED BY <1>2, <1>3, <1>4, <1>5, <1>7, <1>8, <1>9 DEF IInv

LEMMA NotifyReadKeeps == ASSUME IInv, NotifyRead PROVE IInv'
<1> USE DEF pool, wakeup, clients
<1>1. /\ io.pc = "loop" /\ io' = [pc |-> "peek", c |-> NULL] /\ pipe > 0 /\ pipe' = pipe - 1
      /\ UNCHANGED <<clients, conn, pool, REQ, RSP, notify_lock, worker, up>>
  BY DEF NotifyRead
<1>2. PipeCap \in Nat BY ServerAssumption
<1>3. TypeOK'
  <2>1. TypeOK BY DEF IInv
  <2>2. pipe' \in 0 .. PipeCap BY <1>1, <1>2, Before
  <2> QED BY <1>1, <2>1, <2>2 DEF TypeOK
<1>4. HandsFull' BY <1>1 DEF IInv, HandsFull
<1>5. FlagsTrue' BY <1>1 DEF IInv, FlagsTrue
<1>6. ClosesAtOnce' BY <1>1, NoDriveClosed DEF ClosesAtOnce
<1>7. LoopOf(io', conn') = LoopOf(io, conn) BY <1>1 DEF LoopOf
<1>8. OneOwner' /\ OnlyModuleMissLoses' BY <1>1, <1>7, Owners, OwnersNext DEF IInv
<1>9. NotifyBalance'
  <2> DEFINE k == Cardinality(NotifyingOf(worker))
  <2>1. Len(RSP) = pipe + k + 0 /\ pipe \in Nat BY <1>1, <1>2, Before
  <2>2. k \in Nat
    <3>1. IsFiniteSet(Worker) /\ NotifyingOf(worker) \subseteq Worker
      BY ServerAssumption DEF NotifyingOf
    <3> QED BY <3>1, FS_Subset, FS_CardinalityType
  <2>3. NotifyingOf(worker') = NotifyingOf(worker) /\ RSP' = RSP BY <1>1
  <2> HIDE DEF k
  <2>4. Len(RSP') = pipe' + k + 1 BY <1>1, <2>1, <2>2, <2>3
  <2> QED BY <1>1, <2>3, <2>4 DEF NotifyBalance, NotifyingOf, k
<1>10. Accounting' BY <1>1 DEF IInv, Accounting, Open
<1> QED BY <1>3, <1>4, <1>5, <1>6, <1>8, <1>9, <1>10 DEF IInv

\* A byte was read for it, so a connection is there, and nobody has it.
LEMMA NotifyPeekKeeps == ASSUME IInv, NotifyPeek PROVE IInv'
<1> USE DEF pool, wakeup, clients
<1>1. /\ io.pc = "peek"
      /\ UNCHANGED <<clients, pool, REQ, wakeup, worker, up>>
  BY DEF NotifyPeek
<1>2. Len(RSP) = pipe + Cardinality(NotifyingOf(worker)) + 1 /\ pipe \in Nat /\ PipeCap \in Nat
  BY <1>1, Before, ServerAssumption
<1>3. Cardinality(NotifyingOf(worker)) \in Nat
  <2>1. IsFiniteSet(Worker) /\ NotifyingOf(worker) \subseteq Worker
    BY ServerAssumption DEF NotifyingOf
  <2> QED BY <2>1, FS_Subset, FS_CardinalityType
<1>4. RSP # <<>>
  <2>1. Len(RSP) # 0 BY <1>2, <1>3
  <2> QED BY <2>1
<1> DEFINE c == Head(RSP)
           r == [conn[c] EXCEPT !.state = "conn_write", !.write_and_go = "conn_read"]
<1>5. /\ conn' = [conn EXCEPT ![c] = r] /\ RSP' = Tail(RSP)
      /\ io' = [pc |-> "drive", c |-> c]
  BY <1>4 DEF NotifyPeek, Drive
<1>6. /\ c \in Range(RSP) /\ RSP' \in Seq(Conn) /\ Len(RSP') = Len(RSP) - 1
      /\ Range(RSP') = Range(RSP) \ {c} /\ Linear(RSP') /\ Range(RSP) \subseteq Conn
  BY <1>4, <1>5, Before, TailRemoves, RangeAt
<1>7. Owned(LoopOf(io, conn), Range(REQ), HandsOf(worker), Range(RSP), OpenOf(conn), conn)
  BY Before
<1> HIDE DEF c
<1>8. c \in Conn /\ c \in OpenOf(conn) /\ c # NULL
  BY <1>6, <1>7, ServerAssumption DEF Owned, Apart
<1>9. conn[c].state \in {"conn_read", "conn_write"} /\ conn[c] \in ConnType
  <2>1. conn[c] \in ConnType BY <1>8, Before
  <2>2. conn[c].state # "free" /\ conn[c].state # "conn_closing"
    BY <1>1, <1>8, NoDriveClosed DEF OpenOf
  <2> QED BY <2>1, <2>2 DEF ConnType
<1>10. /\ r \in ConnType /\ r.state = "conn_write" /\ r.event = r.ev_flags
       /\ r.cmd = conn[c].cmd /\ r.event = conn[c].event
  <2>1. conn[c].event = conn[c].ev_flags BY <1>8, <1>9 DEF IInv, FlagsTrue
  <2> QED BY <1>9, <2>1 DEF ConnType
<1> HIDE DEF r
<1>11. /\ conn' \in [Conn -> ConnType] /\ FlagsTrue' /\ ClosesAtOnce'
       /\ conn'[c] = r /\ \A d \in Conn : d # c => conn'[d] = conn[d]
  BY <1>1, <1>5, <1>8, <1>10, OneChanged
<1>12. TypeOK'
  <2>1. TypeOK BY DEF IInv
  <2> QED BY <1>1, <1>5, <1>6, <1>8, <1>11, <2>1 DEF TypeOK, ConnType
<1>13. HandsFull' BY <1>1, <1>5, <1>8 DEF IInv, HandsFull
<1>14. LoopOf(io', conn') = LoopOf(io, conn) \cup {c}
  BY <1>1, <1>5, <1>8, <1>10, <1>11 DEF LoopOf
<1>15. OpenOf(conn') = OpenOf(conn) /\ \A d \in Conn : conn'[d].cmd = conn[d].cmd
  BY <1>8, <1>10, <1>11 DEF OpenOf
<1>16. OneOwner' /\ OnlyModuleMissLoses'
  <2>1. \A d \in OpenOf(conn) : conn'[d].cmd = conn[d].cmd BY <1>15 DEF OpenOf
  <2>2. Owned(LoopOf(io', conn'), Range(REQ'), HandsOf(worker'), Range(RSP'), OpenOf(conn'), conn')
    BY <1>1, <1>6, <1>7, <1>14, <1>15, <2>1 DEF Owned, Apart
  <2> QED BY <1>1, <1>6, <2>2, Before, OwnersNext
<1>17. NotifyBalance'
  <2>1. Len(RSP') = pipe + Cardinality(NotifyingOf(worker)) + 0 BY <1>2, <1>3, <1>6
  <2> QED BY <1>1, <1>5, <2>1 DEF NotifyBalance, NotifyingOf
<1>18. Accounting'
  <2>1. Open' = Open BY <1>15 DEF Open, OpenOf
  <2> QED BY <1>1, <2>1 DEF IInv, Accounting
<1> QED BY <1>11, <1>12, <1>13, <1>16, <1>17, <1>18 DEF IInv

\* What IInv says of the pool, and that Open and structs can be counted.
LEMMA PoolBefore ==
  ASSUME IInv
  PROVE  /\ curr_conns = Listeners + Cardinality(OpenOf(conn))
         /\ conn_structs = Listeners + Cardinality(structs)
         /\ Linear(freeconns) /\ Len(freeconns) <= freetotal
         /\ OpenOf(conn) \cap Range(freeconns) = {} /\ OpenOf(conn) \cup Range(freeconns) = structs
         /\ structs \subseteq Conn /\ freeconns \in Seq(Conn) /\ freetotal \in Nat \ {0}
         /\ IsFiniteSet(OpenOf(conn)) /\ IsFiniteSet(structs)
         /\ Cardinality(OpenOf(conn)) \in Nat /\ Cardinality(structs) \in Nat
<1>1. Open = OpenOf(conn) /\ ToSet(freeconns) = Range(freeconns)
  BY DEF Open, OpenOf, ToSet, Range
<1>2. structs \subseteq Conn /\ freeconns \in Seq(Conn) /\ freetotal \in Nat \ {0}
  BY Types DEF IInv
<1>3. IsFiniteSet(Conn) /\ OpenOf(conn) \subseteq Conn BY ServerAssumption DEF OpenOf
<1>4. IsFiniteSet(OpenOf(conn)) /\ IsFiniteSet(structs) BY <1>2, <1>3, FS_Subset
<1>5. Cardinality(OpenOf(conn)) \in Nat /\ Cardinality(structs) \in Nat
  BY <1>4, FS_CardinalityType
<1> QED BY <1>1, <1>2, <1>4, <1>5 DEF IInv, Accounting

LEMMA PoolNext ==
  Accounting' <=>
    /\ curr_conns' = Listeners + Cardinality(OpenOf(conn'))
    /\ conn_structs' = Listeners + Cardinality(structs')
    /\ Linear(freeconns') /\ Len(freeconns') <= freetotal'
    /\ OpenOf(conn') \cap Range(freeconns') = {}
    /\ OpenOf(conn') \cup Range(freeconns') = structs'
<1>1. Open' = OpenOf(conn') /\ ToSet(freeconns') = Range(freeconns')
  BY DEF Open, OpenOf, ToSet, Range
<1> QED BY <1>1 DEF Accounting, Listeners

\* The structure a new connection gets is nobody's.
LEMMA TakenStruct ==
  ASSUME IInv, NEW c \in Conn, TakesStruct(c)
  PROVE  /\ io.pc = "loop" /\ c \notin OpenOf(conn) /\ c \notin LoopOf(io, conn)
         /\ nsess \in Nat /\ nsess' = nsess + 1
         /\ structs' = structs \cup {c}
         /\ conn_structs' = Listeners + Cardinality(structs')
         /\ freeconns # <<>> => /\ c \in structs /\ c \in Range(freeconns)
                                /\ Linear(Front(freeconns)) /\ Front(freeconns) \in Seq(Conn)
                                /\ Len(Front(freeconns)) = Len(freeconns) - 1
                                /\ Range(Front(freeconns)) = Range(freeconns) \ {c}
         /\ freeconns = <<>> => c \notin structs /\ Range(freeconns) = {}
<1>1. /\ io.pc = "loop" /\ nsess' = nsess + 1 /\ structs' = structs \cup {c}
      /\ IF freeconns # <<>> THEN c = Last(freeconns) ELSE c \notin structs
      /\ conn_structs' = IF freeconns # <<>> THEN conn_structs ELSE conn_structs + 1
  BY DEF TakesStruct
<1>2. nsess \in Nat BY Types DEF IInv
<1>3. ASSUME freeconns # <<>>
      PROVE  /\ c \in structs /\ c \in Range(freeconns)
             /\ Linear(Front(freeconns)) /\ Front(freeconns) \in Seq(Conn)
             /\ Len(Front(freeconns)) = Len(freeconns) - 1
             /\ Range(Front(freeconns)) = Range(freeconns) \ {c}
  <2>1. c = Last(freeconns) BY <1>1, <1>3
  <2>2. /\ Last(freeconns) \in Range(freeconns)
        /\ Linear(Front(freeconns)) /\ Front(freeconns) \in Seq(Conn)
        /\ Len(Front(freeconns)) = Len(freeconns) - 1
        /\ Range(Front(freeconns)) = Range(freeconns) \ {Last(freeconns)}
    BY <1>3, PoolBefore, FrontRemoves
  <2> QED BY <2>1, <2>2, PoolBefore
<1>4. freeconns = <<>> => c \notin structs /\ Range(freeconns) = {}
  BY <1>1 DEF Range
<1>5. c \notin OpenOf(conn)
  <2>1. OpenOf(conn) \cap Range(freeconns) = {} /\ OpenOf(conn) \subseteq structs BY PoolBefore
  <2> QED BY <2>1, <1>3, <1>4
<1>6. c \notin LoopOf(io, conn)
  <2>1. LoopOf(io, conn) \subseteq OpenOf(conn) BY Before DEF Owned, Apart
  <2> QED BY <2>1, <1>5
<1>7. conn_structs' = Listeners + Cardinality(structs')
  <2>1. CASE freeconns # <<>>
    <3>1. structs' = structs BY <2>1, <1>1, <1>3
    <3> QED BY <3>1, <2>1, <1>1, PoolBefore
  <2>2. CASE freeconns = <<>>
    <3>1. Cardinality(structs') = Cardinality(structs) + 1
      BY <2>2, <1>1, PoolBefore, FS_AddElement
    <3> QED BY <3>1, <2>2, <1>1, PoolBefore DEF Listeners
  <2> QED BY <2>1, <2>2
<1> QED BY <1>1, <1>2, <1>3, <1>4, <1>5, <1>6, <1>7

LEMMA AcceptKeeps == ASSUME IInv, NEW c \in Conn, Accept(c) PROVE IInv'
<1> USE DEF wakeup
<1> DEFINE r == NewConn(nsess')
<1>1. /\ TakesStruct(c)
      /\ freeconns' = IF freeconns # <<>> THEN Front(freeconns) ELSE freeconns
      /\ curr_conns' = curr_conns + 1
      /\ conn' = [conn EXCEPT ![c] = r]
      /\ client' = [client EXCEPT ![c] = NewClient]
      /\ UNCHANGED <<freetotal, io, REQ, RSP, wakeup, worker, up>>
  BY DEF Accept
<1>2. /\ io.pc = "loop" /\ c \notin OpenOf(conn) /\ c \notin LoopOf(io, conn)
      /\ nsess' \in Nat /\ structs' = structs \cup {c}
      /\ conn_structs' = Listeners + Cardinality(structs')
  BY <1>1, TakenStruct
<1>3. /\ r \in ConnType /\ r.state = "conn_read" /\ r.event = "read" /\ r.ev_flags = "read"
  BY <1>2, NewConnType DEF NewConn
<1> HIDE DEF r
<1>4. /\ conn' \in [Conn -> ConnType] /\ FlagsTrue' /\ ClosesAtOnce'
      /\ conn'[c] = r /\ \A d \in Conn : d # c => conn'[d] = conn[d]
  BY <1>1, <1>2, <1>3, OneChanged
<1>5. /\ freeconns' \in Seq(Conn) /\ Linear(freeconns') /\ Len(freeconns') <= freetotal'
      /\ Range(freeconns') = Range(freeconns) \ {c}
  <2>1. CASE freeconns # <<>>
    <3>1. /\ Linear(Front(freeconns)) /\ Front(freeconns) \in Seq(Conn)
          /\ Len(Front(freeconns)) = Len(freeconns) - 1
          /\ Range(Front(freeconns)) = Range(freeconns) \ {c}
      BY <1>1, <2>1, TakenStruct
    <3>2. Len(freeconns) \in Nat /\ Len(freeconns) <= freetotal /\ freetotal \in Nat
      BY PoolBefore
    <3> QED BY <1>1, <2>1, <3>1, <3>2
  <2>2. CASE freeconns = <<>>
    <3>1. Range(freeconns) = {} BY <1>1, <2>2, TakenStruct
    <3> QED BY <1>1, <2>2, <3>1, PoolBefore
  <2> QED BY <2>1, <2>2
<1>6. TypeOK'
  <2>1. client' \in [Conn -> ClientType] BY <1>1, Types, NewClientType DEF IInv
  <2>2. curr_conns' \in Int /\ conn_structs' \in Int /\ structs' \subseteq Conn
    <3>1. Cardinality(structs') \in Nat
      BY <1>2, PoolBefore, FS_AddElement, FS_CardinalityType
    <3>2. curr_conns \in Int BY Types DEF IInv
    <3>3. structs' \subseteq Conn BY <1>2, PoolBefore
    <3> QED BY <3>1, <3>2, <3>3, <1>1, <1>2 DEF Listeners
  <2>3. TypeOK BY DEF IInv
  <2> QED BY <1>1, <1>2, <1>4, <1>5, <2>1, <2>2, <2>3 DEF TypeOK, ConnType, ClientType
<1>7. HandsFull' BY <1>1, <1>2 DEF IInv, HandsFull
<1>8. LoopOf(io', conn') = LoopOf(io, conn) \cup {c} /\ OpenOf(conn') = OpenOf(conn) \cup {c}
  BY <1>1, <1>3, <1>4 DEF LoopOf, OpenOf
<1>9. OneOwner' /\ OnlyModuleMissLoses'
  <2>1. Owned(LoopOf(io, conn), Range(REQ), HandsOf(worker), Range(RSP), OpenOf(conn), conn)
    BY Before
  <2>2. \A d \in OpenOf(conn) : conn'[d].cmd = conn[d].cmd BY <1>2, <1>4 DEF OpenOf
  <2>3. Owned(LoopOf(io', conn'), Range(REQ'), HandsOf(worker'), Range(RSP'), OpenOf(conn'), conn')
    <3>1. Apart(LoopOf(io', conn'), Range(REQ), HandsOf(worker), Range(RSP), OpenOf(conn'))
      BY <1>2, <1>8, <2>1 DEF Owned, Apart
    <3>2. ASSUME NEW d \in OpenOf(conn'), d \notin LoopOf(io', conn'), d \notin Range(REQ),
                 d \notin HandsOf(worker), d \notin Range(RSP)
          PROVE  conn'[d].cmd.k = "gets_nomod"
      <4>1. d \in OpenOf(conn) /\ d \notin LoopOf(io, conn) BY <1>8, <3>2
      <4> QED BY <4>1, <3>2, <2>1, <2>2 DEF Owned
    <3> QED BY <1>1, <3>1, <3>2 DEF Owned
  <2> QED BY <1>1, <2>3, Before, OwnersNext
<1>10. NotifyBalance' BY <1>1 DEF IInv, NotifyBalance
<1>11. Accounting'
  <2>1. curr_conns' = Listeners + Cardinality(OpenOf(conn'))
    <3>1. Cardinality(OpenOf(conn')) = Cardinality(OpenOf(conn)) + 1
      BY <1>2, <1>8, PoolBefore, FS_AddElement
    <3> QED BY <3>1, <1>1, PoolBefore DEF Listeners
  <2>2. OpenOf(conn') \cap Range(freeconns') = {} /\ OpenOf(conn') \cup Range(freeconns') = structs'
    BY <1>2, <1>5, <1>8, PoolBefore
  <2> QED BY <1>2, <1>5, <2>1, <2>2, PoolNext
<1> QED BY <1>4, <1>6, <1>7, <1>9, <1>10, <1>11 DEF IInv

LEMMA AcceptFailKeeps == ASSUME IInv, NEW c \in Conn, AcceptFail(c) PROVE IInv'
<1> USE DEF wakeup
<1> DEFINE r == Closed(NewConn(nsess'))
<1>1. /\ TakesStruct(c)
      /\ freeconns' = IF freeconns # <<>> THEN freeconns ELSE <<c>>
      /\ conn' = [conn EXCEPT ![c] = r]
      /\ UNCHANGED <<client, freetotal, curr_conns, io, REQ, RSP, wakeup, worker, up>>
  BY DEF AcceptFail
<1>2. /\ io.pc = "loop" /\ c \notin OpenOf(conn) /\ c \notin LoopOf(io, conn)
      /\ nsess' \in Nat /\ structs' = structs \cup {c}
      /\ conn_structs' = Listeners + Cardinality(structs')
  BY <1>1, TakenStruct
<1>3. /\ r \in ConnType /\ r.state = "free" /\ r.event = "none"
  <2>1. NewConn(nsess') \in ConnType BY <1>2, NewConnType
  <2> QED BY <2>1, ClosedType DEF Closed, ConnType
<1> HIDE DEF r
<1>4. /\ conn' \in [Conn -> ConnType] /\ FlagsTrue' /\ ClosesAtOnce'
      /\ conn'[c] = r /\ \A d \in Conn : d # c => conn'[d] = conn[d]
  BY <1>1, <1>2, <1>3, OneChanged
<1>5. /\ freeconns' \in Seq(Conn) /\ Linear(freeconns') /\ Len(freeconns') <= freetotal'
      /\ Range(freeconns') = Range(freeconns) \cup {c}
  <2>1. CASE freeconns # <<>>
    <3>1. c \in Range(freeconns) BY <1>1, <2>1, TakenStruct
    <3> QED BY <1>1, <2>1, <3>1, PoolBefore
  <2>2. CASE freeconns = <<>>
    <3>1. Range(freeconns) = {} /\ freeconns' = <<c>> BY <1>1, <2>2, TakenStruct
    <3>2. freetotal' \in Nat \ {0} BY <1>1, PoolBefore
    <3>3. <<c>> \in Seq(Conn) /\ Len(<<c>>) = 1 /\ DOMAIN <<c>> = {1} /\ <<c>>[1] = c
      OBVIOUS
    <3> QED BY <3>1, <3>2, <3>3 DEF Linear, Range
  <2> QED BY <2>1, <2>2
<1>6. TypeOK'
  <2>1. conn_structs' \in Int /\ structs' \subseteq Conn
    <3>1. Cardinality(structs') \in Nat
      BY <1>2, PoolBefore, FS_AddElement, FS_CardinalityType
    <3>2. structs' \subseteq Conn BY <1>2, PoolBefore
    <3> QED BY <3>1, <3>2, <1>2 DEF Listeners
  <2>2. TypeOK BY DEF IInv
  <2> QED BY <1>1, <1>2, <1>4, <1>5, <2>1, <2>2 DEF TypeOK, ConnType
<1>7. HandsFull' BY <1>1, <1>2 DEF IInv, HandsFull
<1>8. LoopOf(io', conn') = LoopOf(io, conn) /\ OpenOf(conn') = OpenOf(conn)
  BY <1>1, <1>2, <1>3, <1>4 DEF LoopOf, OpenOf
<1>9. OneOwner' /\ OnlyModuleMissLoses'
  <2>1. Owned(LoopOf(io, conn), Range(REQ), HandsOf(worker), Range(RSP), OpenOf(conn), conn)
    BY Before
  <2>2. \A d \in OpenOf(conn) : conn'[d].cmd = conn[d].cmd BY <1>2, <1>4 DEF OpenOf
  <2>3. Owned(LoopOf(io', conn'), Range(REQ'), HandsOf(worker'), Range(RSP'), OpenOf(conn'), conn')
    BY <1>1, <1>8, <2>1, <2>2 DEF Owned
  <2> QED BY <1>1, <2>3, Before, OwnersNext
<1>10. NotifyBalance' BY <1>1 DEF IInv, NotifyBalance
<1>11. Accounting'
  <2>1. OpenOf(conn') \cap Range(freeconns') = {} /\ OpenOf(conn') \cup Range(freeconns') = structs'
    BY <1>2, <1>5, <1>8, PoolBefore
  <2> QED BY <1>1, <1>2, <1>5, <1>8, <2>1, PoolBefore, PoolNext
<1> QED BY <1>4, <1>6, <1>7, <1>9, <1>10, <1>11 DEF IInv

-----------------------------------------------------------------------------
(* The I/O thread gives a connection away, and closes one *)

LEMMA ForwardKeeps == ASSUME IInv, NEW c \in Conn, Forward(c) PROVE IInv'
<1> USE DEF pool, wakeup, clients
<1> DEFINE r == [conn[c] EXCEPT !.event = "none", !.ev_flags = "none", !.cmd = Command(c)]
<1>1. /\ Driving(c) /\ conn[c].state = "conn_read" /\ HasCommand(c) /\ Signal
      /\ conn' = [conn EXCEPT ![c] = r] /\ REQ' = Append(REQ, c)
      /\ io' = [io EXCEPT !.pc = "consume"]
      /\ UNCHANGED <<clients, pool, RSP, wakeup, up>>
  BY DEF Forward, Forwardable, Reading
<1>2. /\ io.pc = "drive" /\ io.c = c /\ TypeOK
      /\ io \in [pc : {"loop", "drive", "consume", "peek"}, c : Conn \cup {NULL}]
  BY <1>1, Types DEF Driving, IInv
<1>3. io' = [pc |-> "consume", c |-> c] BY <1>1, <1>2
<1>4. conn[c] \in ConnType /\ Command(c) \in Unit BY <1>1, <1>2, Before, CommandType
<1>5. /\ r \in ConnType /\ r.state = "conn_read" /\ r.event = "none" /\ r.ev_flags = "none"
      /\ r.rbuf = conn[c].rbuf /\ r.is_gets = conn[c].is_gets
  BY <1>1, <1>4 DEF ConnType, Events
<1> HIDE DEF r
<1>6. /\ conn' \in [Conn -> ConnType] /\ FlagsTrue' /\ ClosesAtOnce'
      /\ conn'[c] = r /\ \A d \in Conn : d # c => conn'[d] = conn[d]
  BY <1>1, <1>2, <1>5, OneChanged
<1>7. Owned(LoopOf(io, conn), Range(REQ), HandsOf(worker), Range(RSP), OpenOf(conn), conn)
  BY Before
<1>8. c \in LoopOf(io, conn) /\ c \in OpenOf(conn) BY <1>1, <1>2 DEF LoopOf, OpenOf
<1>9. c \notin Range(REQ) BY <1>7, <1>8 DEF Owned, Apart
<1>10. REQ' \in Seq(Conn) /\ Linear(REQ') /\ Range(REQ') = Range(REQ) \cup {c}
  BY <1>1, <1>9, Before, AppendLinks
<1>11. /\ worker' \in [Worker -> WorkerType]
       /\ HandsOf(worker') = HandsOf(worker) /\ SingleHands(worker')
       /\ NotifyingOf(worker') = NotifyingOf(worker)
       /\ \A w \in Worker : worker'[w].c # NULL <=> worker'[w].pc \in {"work", "push"}
  BY <1>1, SignalSame
<1>12. TypeOK' BY <1>1, <1>2, <1>3, <1>6, <1>10, <1>11 DEF TypeOK, ConnType, WorkerType
<1>13. HandsFull'
  <2>1. HasCommand(c)' BY <1>1, <1>5, <1>6 DEF HasCommand
  <2>2. HasCommand(io.c)' BY <2>1, <1>3 DEF HasCommand
  <2>3. c # NULL BY ServerAssumption
  <2> QED BY <2>2, <2>3, <1>3, <1>11 DEF HandsFull
<1>14. LoopOf(io', conn') = LoopOf(io, conn) \ {c} /\ OpenOf(conn') = OpenOf(conn)
  BY <1>2, <1>3, <1>5, <1>6, <1>8 DEF LoopOf, OpenOf
<1>15. OneOwner' /\ OnlyModuleMissLoses'
  <2>1. Apart(LoopOf(io', conn'), Range(REQ'), HandsOf(worker'), Range(RSP), OpenOf(conn'))
    BY <1>7, <1>8, <1>10, <1>11, <1>14 DEF Owned, Apart
  <2>2. ASSUME NEW d \in OpenOf(conn'), d \notin LoopOf(io', conn'), d \notin Range(REQ'),
               d \notin HandsOf(worker'), d \notin Range(RSP)
        PROVE  conn'[d].cmd.k = "gets_nomod"
    <3>1. d # c /\ d \in OpenOf(conn) /\ d \notin LoopOf(io, conn) /\ d \notin Range(REQ)
      BY <2>2, <1>10, <1>14
    <3>2. conn'[d] = conn[d] BY <3>1, <1>6 DEF OpenOf
    <3> QED BY <3>1, <3>2, <2>2, <1>7, <1>11 DEF Owned
  <2>3. Owned(LoopOf(io', conn'), Range(REQ'), HandsOf(worker'), Range(RSP'), OpenOf(conn'), conn')
    BY <1>1, <2>1, <2>2 DEF Owned
  <2> QED BY <1>1, <1>10, <1>11, <2>3, Before, OwnersNext
<1>16. NotifyBalance'
  <2>1. NotifyBalance BY DEF IInv
  <2> QED BY <2>1, <1>1, <1>2, <1>3, <1>11 DEF NotifyBalance, NotifyingOf
<1>17. Accounting' BY <1>1, <1>14, PoolBefore, PoolNext
<1> QED BY <1>6, <1>12, <1>13, <1>15, <1>16, <1>17 DEF IInv

LEMMA ConsumeKeeps == ASSUME IInv, NEW c \in Conn, Consume(c) PROVE IInv'
<1> USE DEF pool, wakeup, clients
<1> DEFINE r == [conn[c] EXCEPT !.rbuf = RestOf(c), !.is_gets = FALSE]
<1>1. /\ io.pc = "consume" /\ io.c = c /\ io' = [pc |-> "loop", c |-> NULL]
      /\ conn' = [conn EXCEPT ![c] = r]
      /\ UNCHANGED <<clients, pool, REQ, RSP, wakeup, worker, up>>
  BY DEF Consume, Loop
<1>2. TypeOK /\ HasCommand(c) BY <1>1 DEF IInv, HandsFull
<1>3. conn[c] \in ConnType /\ RestOf(c) \in Seq(Unit) BY <1>2, Before, CommandType
<1>4. conn[c].state # "conn_closing" BY <1>1, NoDriveClosed
<1>5. /\ r \in ConnType /\ r.state = conn[c].state /\ r.event = conn[c].event
      /\ r.ev_flags = conn[c].ev_flags /\ r.cmd = conn[c].cmd
  BY <1>3 DEF ConnType
<1>6. r.state \in {"conn_read", "conn_write"} => r.event = r.ev_flags
  BY <1>5 DEF IInv, FlagsTrue
<1> HIDE DEF r
<1>7. /\ conn' \in [Conn -> ConnType] /\ FlagsTrue' /\ ClosesAtOnce'
      /\ conn'[c] = r /\ \A d \in Conn : d # c => conn'[d] = conn[d]
  BY <1>1, <1>4, <1>5, <1>6, OneChanged
<1>8. TypeOK' BY <1>1, <1>2, <1>7 DEF TypeOK, ConnType
<1>9. HandsFull' BY <1>1 DEF IInv, HandsFull
<1>10. /\ LoopOf(io', conn') = LoopOf(io, conn) /\ OpenOf(conn') = OpenOf(conn)
       /\ \A d \in OpenOf(conn) : conn'[d].cmd = conn[d].cmd
  BY <1>1, <1>5, <1>7 DEF LoopOf, OpenOf
<1>11. OneOwner' /\ OnlyModuleMissLoses' BY <1>1, <1>10, Before, OwnersNext DEF Owned
<1>12. NotifyBalance' BY <1>1 DEF IInv, NotifyBalance
<1>13. Accounting' BY <1>1, <1>10, PoolBefore, PoolNext
<1> QED BY <1>7, <1>8, <1>9, <1>11, <1>12, <1>13 DEF IInv

LEMMA conn_closeKeeps == ASSUME IInv, NEW c \in Conn, conn_close(c) PROVE IInv'
<1> USE DEF wakeup
<1> DEFINE r == Closed(conn[c])
<1>1. /\ Driving(c) /\ conn[c].state = "conn_closing"
      /\ conn' = [conn EXCEPT ![c] = r] /\ client' = [client EXCEPT ![c] = NewClient]
      /\ curr_conns' = curr_conns - 1 /\ io' = [pc |-> "loop", c |-> NULL]
      /\ UNCHANGED <<nsess, REQ, RSP, wakeup, worker, up>>
  BY DEF conn_close, Loop
<1>2. io.pc = "drive" /\ io.c = c /\ conn[c] \in ConnType BY <1>1, Before DEF Driving
<1>3. r \in ConnType /\ r.state = "free" /\ r.event = "none"
  BY <1>2, ClosedType DEF Closed, ConnType
<1> HIDE DEF r
<1>4. /\ conn' \in [Conn -> ConnType] /\ FlagsTrue' /\ ClosesAtOnce'
      /\ conn'[c] = r /\ \A d \in Conn : d # c => conn'[d] = conn[d]
  BY <1>1, <1>2, <1>3, OneChanged
<1>5. c \in LoopOf(io, conn) /\ c \in OpenOf(conn) BY <1>1, <1>2 DEF LoopOf, OpenOf
<1>6. LoopOf(io', conn') = LoopOf(io, conn) \ {c} /\ OpenOf(conn') = OpenOf(conn) \ {c}
  BY <1>1, <1>2, <1>3, <1>4 DEF LoopOf, OpenOf
<1>7. c \in structs /\ c \notin Range(freeconns) BY <1>5, PoolBefore
<1>8. /\ Linear(freeconns') /\ Len(freeconns') <= freetotal' /\ freeconns' \in Seq(Conn)
      /\ freetotal' \in Nat \ {0} /\ structs' \subseteq Conn
      /\ conn_structs' = Listeners + Cardinality(structs') /\ conn_structs' \in Int
      /\ OpenOf(conn') \cap Range(freeconns') = {} /\ OpenOf(conn') \cup Range(freeconns') = structs'
  <2>1. CASE /\ freeconns' = Append(freeconns, c)
             /\ freetotal' = IF Len(freeconns) < freetotal THEN freetotal ELSE 2 * freetotal
             /\ UNCHANGED <<structs, conn_structs>>
    <3>1. /\ freeconns' \in Seq(Conn) /\ Len(freeconns') = Len(freeconns) + 1
          /\ Range(freeconns') = Range(freeconns) \cup {c} /\ Linear(freeconns')
      BY <1>7, <2>1, PoolBefore, AppendLinks
    <3>2. freetotal' \in Nat \ {0} /\ Len(freeconns') <= freetotal'
      <4>1. Len(freeconns) \in Nat /\ Len(freeconns) <= freetotal /\ freetotal \in Nat \ {0}
        BY PoolBefore
      <4> QED BY <4>1, <3>1, <2>1
    <3>3. OpenOf(conn') \cap Range(freeconns') = {} /\ OpenOf(conn') \cup Range(freeconns') = structs'
      BY <1>5, <1>6, <2>1, <3>1, PoolBefore
    <3>4. conn_structs \in Int BY Types DEF IInv
    <3> QED BY <2>1, <3>1, <3>2, <3>3, <3>4, PoolBefore
  <2>2. CASE /\ structs' = structs \ {c} /\ conn_structs' = conn_structs - 1
             /\ UNCHANGED <<freeconns, freetotal>>
    <3>1. Cardinality(structs') = Cardinality(structs) - 1
      BY <1>7, <2>2, PoolBefore, FS_RemoveElement
    <3>2. OpenOf(conn') \cap Range(freeconns') = {} /\ OpenOf(conn') \cup Range(freeconns') = structs'
      BY <1>6, <1>7, <2>2, PoolBefore
    <3>3. conn_structs' = Listeners + Cardinality(structs') /\ conn_structs' \in Int
      BY <2>2, <3>1, PoolBefore DEF Listeners
    <3> QED BY <2>2, <3>2, <3>3, PoolBefore
  <2> QED BY <2>1, <2>2 DEF conn_close
<1>9. TypeOK'
  <2>1. client' \in [Conn -> ClientType] BY <1>1, Types, NewClientType DEF IInv
  <2>2. curr_conns' \in Int BY <1>1, Types DEF IInv
  <2>3. TypeOK BY DEF IInv
  <2> QED BY <1>1, <1>4, <1>8, <2>1, <2>2, <2>3 DEF TypeOK, ConnType, ClientType
<1>10. HandsFull' BY <1>1 DEF IInv, HandsFull
<1>11. OneOwner' /\ OnlyModuleMissLoses'
  <2>1. Owned(LoopOf(io, conn), Range(REQ), HandsOf(worker), Range(RSP), OpenOf(conn), conn)
    BY Before
  <2>2. Apart(LoopOf(io', conn'), Range(REQ), HandsOf(worker), Range(RSP), OpenOf(conn'))
    BY <1>5, <1>6, <2>1 DEF Owned, Apart
  <2>3. ASSUME NEW d \in OpenOf(conn'), d \notin LoopOf(io', conn'), d \notin Range(REQ),
               d \notin HandsOf(worker), d \notin Range(RSP)
        PROVE  conn'[d].cmd.k = "gets_nomod"
    <3>1. d # c /\ d \in OpenOf(conn) /\ d \notin LoopOf(io, conn) BY <2>3, <1>6
    <3>2. conn'[d] = conn[d] BY <3>1, <1>4 DEF OpenOf
    <3> QED BY <3>1, <3>2, <2>3, <2>1 DEF Owned
  <2>4. Owned(LoopOf(io', conn'), Range(REQ'), HandsOf(worker'), Range(RSP'), OpenOf(conn'), conn')
    BY <1>1, <2>2, <2>3 DEF Owned
  <2> QED BY <1>1, <2>4, Before, OwnersNext
<1>12. NotifyBalance' BY <1>1, <1>2 DEF IInv, NotifyBalance
<1>13. Accounting'
  <2>1. curr_conns' = Listeners + Cardinality(OpenOf(conn'))
    <3>1. Cardinality(OpenOf(conn')) = Cardinality(OpenOf(conn)) - 1
      BY <1>5, <1>6, PoolBefore, FS_RemoveElement
    <3> QED BY <3>1, <1>1, PoolBefore DEF Listeners
  <2> QED BY <1>8, <2>1, PoolNext
<1> QED BY <1>4, <1>9, <1>10, <1>11, <1>12, <1>13 DEF IInv

-----------------------------------------------------------------------------
(* The invariant *)

LEMMA InitInv == Init => IInv
<1> SUFFICES ASSUME Init PROVE IInv OBVIOUS
<1> USE ServerAssumption
<1>1. TypeOK BY InitTypes
<1>2. /\ io = [pc |-> "loop", c |-> NULL] /\ REQ = <<>> /\ RSP = <<>> /\ freeconns = <<>>
      /\ structs = {} /\ pipe = 0 /\ freetotal = FreeTotal
      /\ worker = [w \in Worker |-> [pc |-> "pop", c |-> NULL]]
      /\ curr_conns = Listeners /\ conn_structs = Listeners
      /\ \A c \in Conn : conn[c].state = "free" /\ conn[c].event = "none"
  <2>1. \A c \in Conn : conn[c] = Closed(NewConn(0)) BY DEF Init
  <2>2. Closed(NewConn(0)).state = "free" /\ Closed(NewConn(0)).event = "none"
    BY DEF Closed, NewConn
  <2> QED BY <2>1, <2>2 DEF Init, conn_init, cq_init
<1>3. HandsFull /\ FlagsTrue /\ ClosesAtOnce
  BY <1>2 DEF HandsFull, FlagsTrue, ClosesAtOnce
<1>4. OneOwner /\ OnlyModuleMissLoses
  <2>1. LoopOf(io, conn) = {} /\ OpenOf(conn) = {} BY <1>2 DEF LoopOf, OpenOf
  <2>2. HandsOf(worker) = {} /\ SingleHands(worker) BY <1>2 DEF HandsOf, SingleHands
  <2>3. Range(REQ) = {} /\ Range(RSP) = {} /\ Linear(REQ) /\ Linear(RSP)
    BY <1>2 DEF Range, Linear
  <2>4. Owned(LoopOf(io, conn), Range(REQ), HandsOf(worker), Range(RSP), OpenOf(conn), conn)
    BY <2>1, <2>2, <2>3 DEF Owned, Apart
  <2> QED BY <2>1, <2>2, <2>3, <2>4, Owners
<1>5. NotifyBalance
  <2>1. {w \in Worker : worker[w].pc \in {"notify", "write"}} = {} BY <1>2
  <2>2. Cardinality({}) = 0 BY FS_EmptySet
  <2>3. Len(RSP) = 0 /\ pipe = 0 /\ io.pc = "loop" BY <1>2
  <2>4. Cardinality({w \in Worker : worker[w].pc \in {"notify", "write"}}) = 0
    BY <2>1, <2>2
  <2> QED BY <2>3, <2>4 DEF NotifyBalance
<1>6. Accounting
  <2>1. Open = {} /\ ToSet(freeconns) = {} /\ Linear(freeconns) /\ Len(freeconns) = 0
    BY <1>2 DEF Open, ToSet, Linear
  <2>2. Cardinality({}) = 0 /\ FreeTotal \in Nat /\ 0 <= FreeTotal BY FS_EmptySet
  <2> QED BY <1>2, <2>1, <2>2 DEF Accounting, Listeners
<1> QED BY <1>1, <1>3, <1>4, <1>5, <1>6 DEF IInv

LEMMA DriveKeeps == ASSUME IInv, NEW c \in Conn, drive_machine(c) PROVE IInv'
<1>1. CASE \/ AnswerHere(c) \/ CannotForward(c) \/ GetsHeader(c) \/ Quit(c)
           \/ ReadData(c) \/ ReadNoMemory(c) \/ ReadEnd(c)
  BY <1>1, ReadServes, ServesKeeps
<1>2. CASE ReadAgain(c) \/ WriteDone(c) \/ WriteSome(c) \/ WriteAgain(c) \/ WriteError(c)
  BY <1>2, WriteServes, ServesKeeps
<1>3. CASE Stop(c)
  <2>1. client \in [Conn -> ClientType] BY Types DEF IInv
  <2> QED BY <1>3, <2>1, OutsideKeeps DEF Stop, clients
<1>4. CASE Forward(c) BY <1>4, ForwardKeeps
<1>5. CASE Consume(c) BY <1>5, ConsumeKeeps
<1>6. CASE conn_close(c) BY <1>6, conn_closeKeeps
<1> QED BY <1>1, <1>2, <1>3, <1>4, <1>5, <1>6 DEF drive_machine

LEMMA StepInv == IInv /\ [Next]_vars => IInv'
<1> SUFFICES ASSUME IInv, [Next]_vars PROVE IInv' OBVIOUS
<1>1. client \in [Conn -> ClientType] /\ up \in BOOLEAN BY Types DEF IInv
<1>2. CASE UNCHANGED vars BY <1>1, <1>2, OutsideKeeps DEF vars, clients
<1>3. CASE Quiet BY <1>1, <1>3, OutsideKeeps DEF Quiet, vars, clients
<1>4. ASSUME NEW c \in Conn, NEW k \in AllKinds \cup Bodies, Send(c, k) PROVE IInv'
  <2>1. client' \in [Conn -> ClientType] BY <1>4, SendType DEF IInv
  <2> QED BY <1>1, <1>4, <2>1, OutsideKeeps DEF Send
<1>5. ASSUME NEW c \in Conn, HangUp(c) PROVE IInv'
  <2>1. client' \in [Conn -> ClientType] BY <1>5, HangUpType DEF IInv
  <2> QED BY <1>1, <1>5, <2>1, OutsideKeeps DEF HangUp
<1>6. ASSUME NEW c \in Conn, Accept(c) \/ AcceptFail(c) PROVE IInv'
  BY <1>6, AcceptKeeps, AcceptFailKeeps
<1>7. ASSUME NEW c \in Conn, event_handler(c) \/ drive_machine(c) PROVE IInv'
  BY <1>7, event_handlerKeeps, DriveKeeps
<1>8. CASE NotifyRead \/ NotifyPeek BY <1>8, NotifyReadKeeps, NotifyPeekKeeps
<1>9. ASSUME NEW w \in Worker, WorkerStep(w) PROVE IInv'
  BY <1>9, cq_popKeeps, WorkKeeps, WorkDropKeeps, PushRspKeeps, NotifyKeeps DEF WorkerStep
<1> QED BY <1>2, <1>3, <1>4, <1>5, <1>6, <1>7, <1>8, <1>9 DEF Next

\* Every reachable state of lushan's event loop, queues and workers satisfies
\* IInv, for any number of connections and workers.
THEOREM ServerInvariant == Spec => []IInv
<1>1. Init => IInv BY InitInv
<1>2. IInv /\ [Next]_vars => IInv' BY StepInv
<1> QED BY <1>1, <1>2, PTL DEF Spec

\* A connection is never in the hands of the I/O thread and a worker, or of two
\* workers, or twice in a queue (event_del before cq_push, lushan.c:373-380, 397-404).
THEOREM OneOwnerHolds == Spec => []OneOwner
<1>1. IInv => OneOwner BY DEF IInv
<1> QED BY <1>1, ServerInvariant, PTL

\* Only a gets for a module that is not mounted loses a connection
\* (lushan.c:964-973): no error path of the event loop or of a handover does.
THEOREM OnlyModuleMissLosesHolds == Spec => []OnlyModuleMissLoses
<1>1. IInv => OnlyModuleMissLoses BY DEF IInv
<1> QED BY <1>1, ServerInvariant, PTL

\* Every connection in RSP has its byte, written or about to be, and
\* notify_handler never reads one for nothing.
THEOREM NotifyBalanceHolds == Spec => []NotifyBalance
<1>1. IInv => NotifyBalance BY DEF IInv
<1> QED BY <1>1, ServerInvariant, PTL

\* curr_conns, conn_structs and the pool of conn structures agree with the
\* connections that are open.
THEOREM AccountingHolds == Spec => []Accounting
<1>1. IInv => Accounting BY DEF IInv
<1> QED BY <1>1, ServerInvariant, PTL

-----------------------------------------------------------------------------
(* Requests and replies in order. IInv does not say what is in a buffer: with  *)
(* OrderInv, the units a connection has and those on its wire are the ones its *)
(* client sent, from the request after the one it is at.                       *)

\* Unit v comes right after u: the body of a header, or the next request.
Follows(u, v) ==
  IF u.k \in Headers THEN v.k \in Bodies /\ v.n = u.n
  ELSE v.k \notin Bodies /\ v.n = u.n + 1

\* Unit u is the last one client cl has sent.
Newest(u, cl) ==
  IF u.k \in Headers THEN cl.owes = u.k /\ cl.sent + 1 = u.n
  ELSE cl.owes = "none" /\ cl.sent = u.n

\* The units of s follow u in its session one after the other, up to the newest.
InStep(u, s, cl) ==
  /\ \A i \in 1 .. Len(s) : s[i].s = u.s /\ Follows(IF i = 1 THEN u ELSE s[i - 1], s[i])
  /\ Newest(IF s = <<>> THEN u ELSE s[Len(s)], cl)

\* The newest request that is out of the input buffer of structure cn: the one
\* being answered, when cn writes or is given away and consumed, or the last
\* one answered. l: cn is in the event loop; k: its command is to be consumed.
Taken(cn, l, k) ==
  [s |-> cn.sess, k |-> "get",
   n |-> cn.answered + IF cn.state = "conn_write" \/ ~(l \/ k) THEN 1 ELSE 0]

\* cn goes on with the input it has.
GoesOn(cn) ==
  cn.state = "conn_read" \/ (cn.state = "conn_write" /\ cn.write_and_go = "conn_read")

\* Unit u is, or answers, the request after the last one answered.
IsNext(u, cn) == u.s = cn.sess /\ u.n = cn.answered + 1

\* What keeps replies in order, of an open structure cn and its client cl.
\* l, q, m, k: cn is in the event loop, in REQ, has its reply made by a worker,
\* is given away with its command still to be consumed.
InOrder(cn, cl, l, q, m, k) ==
  /\ ~l => cn.state = "conn_read" /\ IsNext(cn.cmd, cn)
  /\ cn.state = "conn_write" \/ m => IsNext(cn.wbuf, cn)
  /\ cn.state = "conn_read" /\ (l \/ q) => cn.wbytes = 0
  /\ cn.is_gets => cn.rbuf # <<>> /\ Head(cn.rbuf).k \in Headers
  /\ k => ~l /\ (cn.is_gets \/ Head(cn.rbuf).k \notin Headers)
  /\ GoesOn(cn) => InStep(Taken(cn, l, k), cn.rbuf \o cl.wire, cl)

\* The connections whose reply a worker has made.
MadeOf(r, h) == Range(r) \cup {h[w].c : w \in {v \in Worker : h[v].pc = "push"}}

Order(c) ==
  InOrder(conn[c], client[c], c \in LoopOf(io, conn), c \in Range(REQ),
          c \in MadeOf(RSP, worker), io.pc = "consume" /\ io.c = c)

OrderInv == \A c \in Conn : conn[c].state # "free" => Order(c)

-----------------------------------------------------------------------------
(* Units in a sequence *)

LEMMA HeadInStep ==
  ASSUME NEW s \in Seq(Unit), s # <<>>, NEW u, NEW cl, InStep(u, s, cl)
  PROVE  Head(s).s = u.s /\ Follows(u, Head(s)) /\ InStep(Head(s), Tail(s), cl)
<1> DEFINE t == Tail(s)
           h == Head(s)
<1>1. /\ t \in Seq(Unit) /\ Len(s) \in Nat \ {0} /\ Len(t) = Len(s) - 1 /\ h = s[1]
      /\ \A i \in 1 .. Len(t) : t[i] = s[i + 1]
  OBVIOUS
<1>2. t = <<>> <=> Len(t) = 0 BY <1>1
<1>3. /\ \A i \in 1 .. Len(s) : s[i].s = u.s /\ Follows(IF i = 1 THEN u ELSE s[i - 1], s[i])
      /\ Newest(s[Len(s)], cl)
  BY DEF InStep
<1> HIDE DEF t, h
<1>4. h.s = u.s /\ Follows(u, h)
  <2>1. 1 \in 1 .. Len(s) BY <1>1
  <2> QED BY <2>1, <1>1, <1>3
<1>5. ASSUME NEW i \in 1 .. Len(t)
      PROVE  t[i].s = h.s /\ Follows(IF i = 1 THEN h ELSE t[i - 1], t[i])
  <2>1. i + 1 \in 1 .. Len(s) /\ i + 1 # 1 /\ (i + 1) - 1 = i BY <1>1
  <2>2. Follows(s[i], s[i + 1]) /\ s[i + 1].s = h.s BY <2>1, <1>3, <1>4
  <2>3. s[i] = IF i = 1 THEN h ELSE t[i - 1]
    <3>1. CASE i # 1
      <4>1. i - 1 \in 1 .. Len(t) /\ (i - 1) + 1 = i BY <3>1, <1>1
      <4> QED BY <3>1, <4>1, <1>1
    <3> QED BY <3>1, <1>1
  <2> QED BY <2>2, <2>3, <1>1
<1>6. Newest(IF t = <<>> THEN h ELSE t[Len(t)], cl)
  <2>1. CASE t = <<>>
    <3>1. Len(s) = 1 BY <2>1, <1>1, <1>2
    <3> QED BY <3>1, <2>1, <1>1, <1>3
  <2>2. CASE t # <<>>
    <3>1. Len(t) \in 1 .. Len(t) /\ Len(t) + 1 = Len(s) BY <2>2, <1>1, <1>2
    <3>2. t[Len(t)] = s[Len(s)] BY <3>1, <1>1
    <3> QED BY <3>2, <2>2, <1>3
  <2> QED BY <2>1, <2>2
<1>7. InStep(h, t, cl) BY <1>5, <1>6 DEF InStep
<1> QED BY <1>4, <1>7 DEF t, h

\* What comes after a whole request depends on its session and number only.
LEMMA SameInStep ==
  ASSUME NEW s, NEW u, NEW v, NEW cl, InStep(u, s, cl),
         v.s = u.s, v.n = u.n, u.k \notin Headers, v.k \notin Headers
  PROVE  InStep(v, s, cl)
<1>1. \A x : Follows(u, x) <=> Follows(v, x) BY DEF Follows
<1>2. Newest(u, cl) <=> Newest(v, cl) BY DEF Newest
<1>3. \A i \in 1 .. Len(s) : s[i].s = v.s /\ Follows(IF i = 1 THEN v ELSE s[i - 1], s[i])
  BY <1>1 DEF InStep
<1>4. Newest(IF s = <<>> THEN v ELSE s[Len(s)], cl) BY <1>2 DEF InStep
<1> QED BY <1>3, <1>4 DEF InStep

\* A client that has sent no more.
LEMMA ClientInStep ==
  ASSUME NEW s, NEW u, NEW cl, NEW dl, InStep(u, s, cl), dl.sent = cl.sent, dl.owes = cl.owes
  PROVE  InStep(u, s, dl)
BY DEF InStep, Newest

LEMMA AppendInStep ==
  ASSUME NEW s \in Seq(Unit), NEW u, NEW x \in Unit, NEW cl, NEW dl, InStep(u, s, cl),
         \A z : z.s = u.s /\ Newest(z, cl) => Follows(z, x), x.s = u.s, Newest(x, dl)
  PROVE  InStep(u, Append(s, x), dl)
<1> DEFINE t == Append(s, x)
<1>1. /\ t \in Seq(Unit) /\ Len(s) \in Nat /\ Len(t) = Len(s) + 1 /\ t[Len(s) + 1] = x
      /\ \A i \in 1 .. Len(s) : t[i] = s[i]
  OBVIOUS
<1>2. s = <<>> <=> Len(s) = 0 OBVIOUS
<1> HIDE DEF t
<1>3. Len(t) # 0 /\ Len(<<>>) = 0 BY <1>1
<1>4. t # <<>> BY <1>3
<1>5. ASSUME NEW i \in 1 .. Len(t)
      PROVE  t[i].s = u.s /\ Follows(IF i = 1 THEN u ELSE t[i - 1], t[i])
  <2>1. CASE i \in 1 .. Len(s)
    <3>1. i # 1 => i - 1 \in 1 .. Len(s) BY <2>1, <1>1
    <3>2. s[i].s = u.s /\ Follows(IF i = 1 THEN u ELSE s[i - 1], s[i]) BY <2>1 DEF InStep
    <3> QED BY <2>1, <3>1, <3>2, <1>1
  <2>2. CASE i = Len(s) + 1
    <3>1. Follows(IF s = <<>> THEN u ELSE s[Len(s)], x)
      <4>1. s # <<>> => Len(s) \in 1 .. Len(s) BY <1>1, <1>2
      <4> QED BY <4>1 DEF InStep
    <3>2. i - 1 = Len(s) /\ (i = 1 <=> s = <<>>) BY <2>2, <1>1, <1>2
    <3>3. s # <<>> => t[i - 1] = s[Len(s)]
      <4>1. s # <<>> => Len(s) \in 1 .. Len(s) BY <1>1, <1>2
      <4> QED BY <4>1, <3>2, <1>1
    <3> QED BY <2>2, <3>1, <3>2, <3>3, <1>1
  <2>3. i \in 1 .. Len(s) \/ i = Len(s) + 1 BY <1>1
  <2> QED BY <2>1, <2>2, <2>3
<1>6. InStep(u, t, dl) BY <1>1, <1>4, <1>5 DEF InStep
<1> QED BY <1>6 DEF t

LEMMA ConcatTail ==
  ASSUME NEW r \in Seq(Unit), NEW w \in Seq(Unit), r # <<>>
  PROVE  /\ r \o w \in Seq(Unit) /\ r \o w # <<>>
         /\ Head(r \o w) = Head(r) /\ Tail(r \o w) = Tail(r) \o w
<1>1. /\ r \o w \in Seq(Unit) /\ Len(r \o w) = Len(r) + Len(w)
      /\ Len(r) \in Nat \ {0} /\ Len(w) \in Nat
      /\ \A i \in 1 .. Len(r) + Len(w) :
           (r \o w)[i] = IF i <= Len(r) THEN r[i] ELSE w[i - Len(r)]
  BY ConcatProperties
<1> DEFINE c == r \o w
           a == Tail(c)
           b == Tail(r) \o w
<1>2. c # <<>>
  <2>1. Len(c) # 0 /\ Len(<<>>) = 0 BY <1>1
  <2> HIDE DEF c
  <2> QED BY <2>1
<1>3. Head(c) = Head(r)
  <2>1. 1 \in 1 .. Len(r) + Len(w) /\ 1 <= Len(r) BY <1>1
  <2>2. c[1] = r[1] BY <2>1, <1>1
  <2> HIDE DEF c
  <2> QED BY <2>2
<1>4. /\ a \in Seq(Unit) /\ Len(a) = Len(r) + Len(w) - 1
      /\ \A i \in 1 .. Len(a) : a[i] = c[i + 1]
  <2>1. c \in Seq(Unit) /\ Len(c) = Len(r) + Len(w) BY <1>1
  <2> HIDE DEF c
  <2>2. Len(Tail(c)) = Len(c) - 1 /\ Tail(c) \in Seq(Unit) /\ \A i \in 1 .. Len(c) - 1 : Tail(c)[i] = c[i + 1]
    BY <2>1, <1>2
  <2> QED BY <2>1, <2>2
<1>5. /\ Tail(r) \in Seq(Unit) /\ Len(Tail(r)) = Len(r) - 1
      /\ \A i \in 1 .. Len(r) - 1 : Tail(r)[i] = r[i + 1]
  BY <1>1
<1>6. /\ b \in Seq(Unit) /\ Len(b) = Len(Tail(r)) + Len(w)
      /\ \A i \in 1 .. Len(Tail(r)) + Len(w) :
           b[i] = IF i <= Len(Tail(r)) THEN Tail(r)[i] ELSE w[i - Len(Tail(r))]
  <2> DEFINE q == Tail(r)
  <2>1. q \in Seq(Unit) BY <1>5
  <2> HIDE DEF q
  <2>2. /\ q \o w \in Seq(Unit) /\ Len(q \o w) = Len(q) + Len(w)
        /\ \A i \in 1 .. Len(q) + Len(w) :
             (q \o w)[i] = IF i <= Len(q) THEN q[i] ELSE w[i - Len(q)]
    BY <2>1, ConcatProperties
  <2> QED BY <2>2 DEF q
<1>7. Len(a) = Len(b) BY <1>1, <1>4, <1>5, <1>6
<1>8. ASSUME NEW i \in 1 .. Len(a) PROVE a[i] = b[i]
  <2>1. i + 1 \in 1 .. Len(r) + Len(w) /\ i \in 1 .. Len(Tail(r)) + Len(w)
    BY <1>1, <1>4, <1>5
  <2>2. a[i] = IF i + 1 <= Len(r) THEN r[i + 1] ELSE w[(i + 1) - Len(r)]
    BY <2>1, <1>1, <1>4
  <2>3. b[i] = IF i <= Len(r) - 1 THEN Tail(r)[i] ELSE w[i - (Len(r) - 1)]
    BY <2>1, <1>5, <1>6
  <2>4. /\ i + 1 <= Len(r) <=> i <= Len(r) - 1
        /\ (i + 1) - Len(r) = i - (Len(r) - 1)
        /\ i <= Len(r) - 1 => i \in 1 .. Len(r) - 1
    BY <1>1, <1>4
  <2>5. i <= Len(r) - 1 => Tail(r)[i] = r[i + 1] BY <2>4, <1>5
  <2> HIDE DEF a, b, c
  <2> QED BY <2>2, <2>3, <2>4, <2>5
<1>9. a = b
  <2> HIDE DEF a, b, c
  <2>1. DOMAIN a = 1 .. Len(a) /\ DOMAIN b = 1 .. Len(b) BY <1>4, <1>6
  <2> QED BY <2>1, <1>4, <1>6, <1>7, <1>8, SeqEqual
<1> QED BY <1>1, <1>2, <1>3, <1>9

LEMMA ConcatInStep ==
  ASSUME NEW r \in Seq(Unit), NEW w \in Seq(Unit), r # <<>>, NEW u, NEW cl, InStep(u, r \o w, cl)
  PROVE  /\ Head(r).s = u.s /\ Follows(u, Head(r))
         /\ InStep(Head(r), Tail(r) \o w, cl)
<1> DEFINE s == r \o w
<1>1. s \in Seq(Unit) /\ s # <<>> /\ Head(s) = Head(r) /\ Tail(s) = Tail(r) \o w
  BY ConcatTail
<1>2. InStep(u, s, cl) OBVIOUS
<1> HIDE DEF s
<1>3. Head(s).s = u.s /\ Follows(u, Head(s)) /\ InStep(Head(s), Tail(s), cl)
  BY <1>1, <1>2, HeadInStep
<1> QED BY <1>1, <1>3

LEMMA ConcatAppend ==
  ASSUME NEW r \in Seq(Unit), NEW w \in Seq(Unit), NEW x \in Unit
  PROVE  r \o Append(w, x) = Append(r \o w, x) /\ r \o w \in Seq(Unit)
  OBVIOUS

\* What is read moves from the wire to the buffer.
LEMMA ConcatSplit ==
  ASSUME NEW r \in Seq(Unit), NEW w \in Seq(Unit), NEW n \in 1 .. Len(w)
  PROVE  (r \o SubSeq(w, 1, n)) \o SubSeq(w, n + 1, Len(w)) = r \o w
<1> DEFINE a == SubSeq(w, 1, n)
           b == SubSeq(w, n + 1, Len(w))
           c == r \o a
           d == c \o b
           e == r \o w
<1>1. n \in Nat \ {0} /\ Len(w) \in Nat /\ n <= Len(w) /\ Len(r) \in Nat
  OBVIOUS
<1>2. a \in Seq(Unit) /\ Len(a) = n /\ \A i \in 1 .. n : a[i] = w[i]
  OBVIOUS
<1>3. /\ b \in Seq(Unit) /\ Len(b) = Len(w) - n
      /\ \A i \in 1 .. Len(w) - n : b[i] = w[n + i]
  OBVIOUS
<1> HIDE DEF a, b
<1>4. /\ c \in Seq(Unit) /\ Len(c) = Len(r) + n
      /\ \A i \in 1 .. Len(r) + n : c[i] = IF i <= Len(r) THEN r[i] ELSE a[i - Len(r)]
  BY <1>2, ConcatProperties
<1> HIDE DEF c
<1>5. /\ d \in Seq(Unit) /\ Len(d) = Len(r) + n + (Len(w) - n)
      /\ \A i \in 1 .. Len(r) + n + (Len(w) - n) :
           d[i] = IF i <= Len(r) + n THEN c[i] ELSE b[i - (Len(r) + n)]
  <2>1. /\ d \in Seq(Unit) /\ Len(d) = Len(c) + Len(b)
        /\ \A i \in 1 .. Len(c) + Len(b) : d[i] = IF i <= Len(c) THEN c[i] ELSE b[i - Len(c)]
    BY <1>3, <1>4, ConcatProperties
  <2> HIDE DEF d
  <2> QED BY <2>1, <1>3, <1>4
<1>6. /\ e \in Seq(Unit) /\ Len(e) = Len(r) + Len(w)
      /\ \A i \in 1 .. Len(r) + Len(w) : e[i] = IF i <= Len(r) THEN r[i] ELSE w[i - Len(r)]
  BY ConcatProperties
<1> HIDE DEF d, e
<1>7. Len(d) = Len(e) BY <1>1, <1>5, <1>6
<1>8. ASSUME NEW i \in 1 .. Len(d) PROVE d[i] = e[i]
  <2>1. i \in 1 .. Len(r) + Len(w) /\ i \in 1 .. Len(r) + n + (Len(w) - n)
    BY <1>1, <1>5
  <2>2. CASE i <= Len(r)
    <3>1. i <= Len(r) + n /\ i \in 1 .. Len(r) + n BY <2>1, <2>2, <1>1
    <3> QED BY <2>1, <2>2, <3>1, <1>4, <1>5, <1>6
  <2>3. CASE ~(i <= Len(r)) /\ i <= Len(r) + n
    <3>1. i \in 1 .. Len(r) + n /\ i - Len(r) \in 1 .. n BY <2>1, <2>3, <1>1
    <3>2. d[i] = a[i - Len(r)] BY <2>1, <2>3, <3>1, <1>4, <1>5
    <3> QED BY <2>1, <2>3, <3>1, <3>2, <1>2, <1>6
  <2>4. CASE ~(i <= Len(r) + n)
    <3>1. /\ i - (Len(r) + n) \in 1 .. Len(w) - n /\ ~(i <= Len(r))
          /\ n + (i - (Len(r) + n)) = i - Len(r)
      BY <2>1, <2>4, <1>1
    <3>2. d[i] = b[i - (Len(r) + n)] BY <2>1, <2>4, <1>5
    <3>3. d[i] = w[i - Len(r)] BY <3>1, <3>2, <1>3
    <3> QED BY <2>1, <3>1, <3>3, <1>6
  <2> QED BY <2>2, <2>3, <2>4
<1>9. d = e BY <1>5, <1>6, <1>7, <1>8, SeqEqual
<1> QED BY <1>9 DEF a, b, c, d, e
-----------------------------------------------------------------------------
(* One connection moves *)

\* A whole command leaves the buffer: it is the next request, and what is left
\* comes after it.
LEMMA CommandInStep ==
  ASSUME NEW cn \in ConnType, NEW cl \in ClientType, NEW u, u.k = "get",
         InStep(u, cn.rbuf \o cl.wire, cl),
         Len(cn.rbuf) >= IF cn.is_gets THEN 2 ELSE 1,
         cn.is_gets <=> Head(cn.rbuf).k \in Headers
  PROVE  LET rest == IF cn.is_gets THEN Tail(Tail(cn.rbuf)) ELSE Tail(cn.rbuf)
         IN /\ rest \in Seq(Unit)
            /\ Head(cn.rbuf) \in Unit /\ Head(cn.rbuf).s = u.s /\ Head(cn.rbuf).n = u.n + 1
            /\ InStep([s |-> u.s, k |-> "get", n |-> u.n + 1], rest \o cl.wire, cl)
<1> DEFINE b == cn.rbuf
           w == cl.wire
           h == Head(b)
           v == [s |-> u.s, k |-> "get", n |-> u.n + 1]
<1>1. b \in Seq(Unit) /\ w \in Seq(Unit) /\ cn.is_gets \in BOOLEAN
  BY DEF ConnType, ClientType
<1>2. Len(b) >= 1 /\ (cn.is_gets => Len(b) >= 2) OBVIOUS
<1>3. InStep(u, b \o w, cl) /\ (cn.is_gets <=> h.k \in Headers) OBVIOUS
<1> HIDE DEF b, w
<1>4. b # <<>> /\ h \in Unit /\ Tail(b) \in Seq(Unit) /\ Len(Tail(b)) = Len(b) - 1
  BY <1>1, <1>2
<1>5. h.s = u.s /\ Follows(u, h) /\ InStep(h, Tail(b) \o w, cl)
  BY <1>1, <1>3, <1>4, ConcatInStep DEF h
<1>6. h.s = u.s /\ h.n = u.n + 1 BY <1>5 DEF Follows, Headers
<1>7. v.s = h.s /\ v.n = h.n /\ v.k \notin Headers BY <1>6 DEF Headers
<1> HIDE DEF h, v
<1>8. ASSUME ~cn.is_gets PROVE InStep(v, Tail(b) \o w, cl)
  BY <1>3, <1>5, <1>7, <1>8, SameInStep
<1>9. ASSUME cn.is_gets PROVE Tail(Tail(b)) \in Seq(Unit) /\ InStep(v, Tail(Tail(b)) \o w, cl)
  <2> DEFINE t == Tail(b)
             g == Head(t)
  <2>1. Len(b) \in Nat BY <1>1
  <2>2. t \in Seq(Unit) /\ Len(t) >= 1 BY <1>2, <1>4, <1>9, <2>1
  <2> HIDE DEF t
  <2>3. t # <<>> /\ Tail(t) \in Seq(Unit) BY <2>2
  <2>4. InStep(h, t \o w, cl) BY <1>5 DEF t
  <2>5. g.s = h.s /\ Follows(h, g) /\ InStep(g, Tail(t) \o w, cl)
    BY <1>1, <2>2, <2>3, <2>4, ConcatInStep
  <2>6. g.s = h.s /\ g.n = h.n /\ g.k \in Bodies BY <2>5, <1>3, <1>9 DEF Follows
  <2>7. g.k \notin Headers BY <2>6 DEF Headers, Bodies
  <2> HIDE DEF g
  <2>8. InStep(v, Tail(t) \o w, cl) BY <2>5, <2>6, <2>7, <1>7, SameInStep
  <2> QED BY <2>3, <2>8 DEF t
<1> QED BY <1>1, <1>4, <1>6, <1>8, <1>9 DEF b, w, h, v

\* A connection whose structure, client and place stay, or that leaves a queue.
LEMMA StaysInOrder ==
  ASSUME NEW cn, NEW cl, NEW l \in BOOLEAN, NEW q \in BOOLEAN, NEW m \in BOOLEAN, NEW k \in BOOLEAN,
         NEW q2 \in BOOLEAN, NEW m2 \in BOOLEAN, q2 => q, m2 => m, InOrder(cn, cl, l, q, m, k)
  PROVE  InOrder(cn, cl, l, q2, m2, k)
BY DEF InOrder

\* The connections but c are where they were, or have left a queue.
OthersStay(c) ==
  \A d \in Conn \ {c} :
    /\ conn'[d] = conn[d] /\ client'[d] = client[d]
    /\ d \in LoopOf(io', conn') <=> d \in LoopOf(io, conn)
    /\ d \in Range(REQ') => d \in Range(REQ)
    /\ d \in MadeOf(RSP', worker') => d \in MadeOf(RSP, worker)
    /\ (io'.pc = "consume" /\ io'.c = d) <=> (io.pc = "consume" /\ io.c = d)

LEMMA OneMoves ==
  ASSUME OrderInv, NEW c \in Conn, OthersStay(c),
         conn'[c].state # "free" =>
           InOrder(conn'[c], client'[c], c \in LoopOf(io', conn'), c \in Range(REQ'),
                   c \in MadeOf(RSP', worker'), io'.pc = "consume" /\ io'.c = c)
  PROVE  OrderInv'
<1> SUFFICES ASSUME NEW d \in Conn, conn'[d].state # "free"
             PROVE  InOrder(conn'[d], client'[d], d \in LoopOf(io', conn'), d \in Range(REQ'),
                            d \in MadeOf(RSP', worker'), io'.pc = "consume" /\ io'.c = d)
  BY DEF OrderInv, Order
<1>1. CASE d = c BY <1>1
<1>2. CASE d # c
  <2>1. /\ conn'[d] = conn[d] /\ client'[d] = client[d]
        /\ d \in LoopOf(io', conn') <=> d \in LoopOf(io, conn)
        /\ d \in Range(REQ') => d \in Range(REQ)
        /\ d \in MadeOf(RSP', worker') => d \in MadeOf(RSP, worker)
        /\ (io'.pc = "consume" /\ io'.c = d) <=> (io.pc = "consume" /\ io.c = d)
    BY <1>2 DEF OthersStay
  <2>2. InOrder(conn[d], client[d], d \in LoopOf(io, conn), d \in Range(REQ),
                d \in MadeOf(RSP, worker), io.pc = "consume" /\ io.c = d)
    BY <2>1 DEF OrderInv, Order
  <2>3. InOrder(conn[d], client[d], d \in LoopOf(io, conn), d \in Range(REQ'),
                d \in MadeOf(RSP', worker'), io.pc = "consume" /\ io.c = d)
    <3> DEFINE l == d \in LoopOf(io, conn)
               q == d \in Range(REQ)
               m == d \in MadeOf(RSP, worker)
               k == io.pc = "consume" /\ io.c = d
               q2 == d \in Range(REQ')
               m2 == d \in MadeOf(RSP', worker')
    <3>1. l \in BOOLEAN /\ q \in BOOLEAN /\ m \in BOOLEAN /\ k \in BOOLEAN
          /\ q2 \in BOOLEAN /\ m2 \in BOOLEAN
      OBVIOUS
    <3>2. InOrder(conn[d], client[d], l, q, m, k) /\ (q2 => q) /\ (m2 => m) BY <2>1, <2>2
    <3> HIDE DEF l, q, m, k, q2, m2
    <3>3. InOrder(conn[d], client[d], l, q2, m2, k) BY <3>1, <3>2, StaysInOrder
    <3> QED BY <3>3 DEF l, q2, m2, k
  <2> QED BY <2>1, <2>3
<1> QED BY <1>1, <1>2

\* Where a connection is says where it is not.
LEMMA OnePlace ==
  ASSUME IInv, NEW c \in Conn
  PROVE  /\ c \in LoopOf(io, conn) => c \notin Range(REQ) /\ c \notin MadeOf(RSP, worker)
         /\ c \in MadeOf(RSP, worker) => c \notin LoopOf(io, conn) /\ c \notin Range(REQ)
         /\ c \in HandsOf(worker) => c \notin LoopOf(io, conn) /\ c \notin Range(REQ)
         /\ conn[c].state = "free" => /\ c \notin LoopOf(io, conn) /\ c \notin Range(REQ)
                                      /\ c \notin MadeOf(RSP, worker)
<1>1. Apart(LoopOf(io, conn), Range(REQ), HandsOf(worker), Range(RSP), OpenOf(conn))
  BY Before DEF Owned
<1>2. c \in MadeOf(RSP, worker) => c \in Range(RSP) \cup HandsOf(worker)
  BY ServerAssumption DEF MadeOf, HandsOf
<1>3. conn[c].state = "free" => c \notin OpenOf(conn) BY DEF OpenOf
<1> QED BY <1>1, <1>2, <1>3 DEF Apart

\* The parts of InOrder for a connection in the event loop.
LoopInOrder(cn, cl) ==
  /\ cn.state = "conn_write" => IsNext(cn.wbuf, cn)
  /\ cn.state = "conn_read" => cn.wbytes = 0
  /\ cn.is_gets => cn.rbuf # <<>> /\ Head(cn.rbuf).k \in Headers
  /\ GoesOn(cn) => InStep([s |-> cn.sess, k |-> "get",
                           n |-> cn.answered + IF cn.state = "conn_write" THEN 1 ELSE 0],
                          cn.rbuf \o cl.wire, cl)

LEMMA InLoopInOrder ==
  ASSUME NEW cn, NEW cl
  PROVE  LoopInOrder(cn, cl) <=> InOrder(cn, cl, TRUE, FALSE, FALSE, FALSE)
BY DEF LoopInOrder, InOrder, Taken

LEMMA DrivenInOrder ==
  ASSUME IInv, OrderInv, NEW c \in Conn, Driving(c)
  PROVE  LoopInOrder(conn[c], client[c]) /\ client[c] \in ClientType
<1>1. c \in LoopOf(io, conn) /\ conn[c].state # "free" /\ io.pc = "drive" /\ io.c = c
  BY DrivenOpen DEF Driving, LoopOf
<1>2. InOrder(conn[c], client[c], c \in LoopOf(io, conn), c \in Range(REQ),
              c \in MadeOf(RSP, worker), io.pc = "consume" /\ io.c = c)
  BY <1>1 DEF OrderInv, Order
<1>3. (c \in LoopOf(io, conn)) = TRUE /\ (c \in Range(REQ)) = FALSE
      /\ (c \in MadeOf(RSP, worker)) = FALSE /\ (io.pc = "consume" /\ io.c = c) = FALSE
  BY <1>1, OnePlace
<1>4. InOrder(conn[c], client[c], TRUE, FALSE, FALSE, FALSE) BY <1>2, <1>3
<1>5. client[c] \in ClientType BY Types DEF IInv
<1> QED BY <1>4, <1>5, InLoopInOrder

\* The I/O thread answers, reads or writes.
LEMMA ServesInOrder ==
  ASSUME IInv, OrderInv, NEW c \in Conn, Serves(c), NEW r, conn' = [conn EXCEPT ![c] = r],
         \A d \in Conn \ {c} : client'[d] = client[d], LoopInOrder(r, client'[c])
  PROVE  OrderInv'
<1>1. PICK s \in ConnType :
        /\ conn' = [conn EXCEPT ![c] = s]
        /\ s.state # "free" /\ s.state \in {"conn_read", "conn_write"} => s.event = s.ev_flags
        /\ io' = io \/ (Loop /\ s.event # "none" /\ s.state # "conn_closing")
  BY DEF Serves
<1>2. /\ conn \in [Conn -> ConnType] /\ io.pc = "drive" /\ io.c = c /\ Driving(c)
      /\ UNCHANGED <<REQ, RSP, worker>>
  BY Before DEF Serves, Driving
<1>3. conn'[c] = r /\ \A d \in Conn \ {c} : conn'[d] = conn[d] BY <1>2
<1>4. io' = io \/ (io' = [pc |-> "loop", c |-> NULL] /\ r.event # "none")
  <2>1. s = r BY <1>1, <1>2
  <2> QED BY <2>1, <1>1 DEF Loop
<1>5. c \in LoopOf(io', conn') BY <1>2, <1>3, <1>4 DEF LoopOf
<1>6. ~(io'.pc = "consume" /\ io'.c = c) BY <1>2, <1>4
<1>7. OthersStay(c) BY <1>2, <1>3, <1>4 DEF OthersStay, LoopOf
<1>8. c \notin Range(REQ') /\ c \notin MadeOf(RSP', worker')
  <2>1. c \in LoopOf(io, conn) BY <1>2 DEF LoopOf
  <2> QED BY <2>1, <1>2, OnePlace
<1>9. InOrder(conn'[c], client'[c], TRUE, FALSE, FALSE, FALSE) BY <1>3, InLoopInOrder
<1>10. (c \in LoopOf(io', conn')) = TRUE /\ (c \in Range(REQ')) = FALSE
       /\ (c \in MadeOf(RSP', worker')) = FALSE /\ (io'.pc = "consume" /\ io'.c = c) = FALSE
  BY <1>5, <1>6, <1>8
<1>11. InOrder(conn'[c], client'[c], c \in LoopOf(io', conn'), c \in Range(REQ'),
               c \in MadeOf(RSP', worker'), io'.pc = "consume" /\ io'.c = c)
  BY <1>9, <1>10
<1> QED BY <1>7, <1>11, OneMoves
-----------------------------------------------------------------------------
(* The I/O thread answers, reads and writes *)

\* The reply to the command in the buffer.
LEMMA AnswersInOrder ==
  ASSUME IInv, OrderInv, NEW c \in Conn, Reading(c), HasCommand(c),
         conn[c].is_gets \/ Command(c).k \notin Headers,
         Reply(c, Command(c).n, RestOf(c), "conn_read"), Serves(c)
  PROVE  OrderInv'
<1> DEFINE cn == conn[c]
           r == [cn EXCEPT !.wbuf = [s |-> cn.sess, n |-> Command(c).n, k |-> "get"],
                           !.wbytes = RespLen, !.state = "conn_write",
                           !.write_and_go = "conn_read", !.rbuf = RestOf(c), !.is_gets = FALSE]
           u == [s |-> cn.sess, k |-> "get", n |-> cn.answered]
<1>1. cn \in ConnType /\ cn.state = "conn_read" BY DrivenOpen DEF Reading
<1>2. client[c] \in ClientType /\ LoopInOrder(cn, client[c]) BY DrivenInOrder DEF Reading
<1>3. conn' = [conn EXCEPT ![c] = r] /\ client' = client BY DEF Reply, clients
<1>4. /\ RestOf(c) = IF cn.is_gets THEN Tail(Tail(cn.rbuf)) ELSE Tail(cn.rbuf)
      /\ Command(c) = Head(cn.rbuf) /\ Len(cn.rbuf) >= IF cn.is_gets THEN 2 ELSE 1
  BY DEF RestOf, Command, HasCommand
<1>5. /\ r.state = "conn_write" /\ r.sess = cn.sess /\ r.answered = cn.answered
      /\ r.wbuf = [s |-> cn.sess, n |-> Command(c).n, k |-> "get"]
      /\ r.rbuf = RestOf(c) /\ r.is_gets = FALSE
  BY <1>1 DEF ConnType
<1> HIDE DEF cn, r
<1>6. cn.answered \in Nat BY <1>1 DEF ConnType
<1>7. cn.is_gets <=> Head(cn.rbuf).k \in Headers
  <2>1. cn.is_gets \in BOOLEAN BY <1>1 DEF ConnType
  <2> QED BY <2>1, <1>2, <1>4 DEF LoopInOrder, cn
<1>8. InStep(u, cn.rbuf \o client[c].wire, client[c])
  <2>1. GoesOn(cn) /\ cn.state # "conn_write" BY <1>1 DEF GoesOn
  <2>2. u = [s |-> cn.sess, k |-> "get",
             n |-> cn.answered + IF cn.state = "conn_write" THEN 1 ELSE 0]
    BY <2>1, <1>6
  <2> HIDE DEF u
  <2> QED BY <2>1, <2>2, <1>2 DEF LoopInOrder
<1>9. u.k = "get" /\ u.s = cn.sess /\ u.n = cn.answered OBVIOUS
<1> HIDE DEF u
<1>10. /\ Command(c).n = u.n + 1
       /\ InStep([s |-> u.s, k |-> "get", n |-> u.n + 1], RestOf(c) \o client[c].wire, client[c])
  BY <1>1, <1>2, <1>4, <1>7, <1>8, <1>9, CommandInStep
<1>11. LoopInOrder(r, client'[c]) BY <1>3, <1>5, <1>9, <1>10 DEF LoopInOrder, IsNext
<1> QED BY <1>3, <1>11, ServesInOrder

\* A step that answers nothing and takes no command: the structure comes to be
\* r, which reads, writes or closes.
LEMMA GoesInOrder ==
  ASSUME IInv, OrderInv, NEW c \in Conn, Serves(c), client' = client,
         NEW r, conn' = [conn EXCEPT ![c] = r], LoopInOrder(r, client[c])
  PROVE  OrderInv'
BY ServesInOrder

LEMMA ReadInOrder ==
  ASSUME IInv, OrderInv, NEW c \in Conn,
         \/ AnswerHere(c) \/ CannotForward(c) \/ GetsHeader(c) \/ Quit(c)
         \/ ReadData(c) \/ ReadNoMemory(c) \/ ReadEnd(c)
  PROVE  OrderInv'
<1>1. Serves(c) BY ReadServes
<1>2. Reading(c) /\ Driving(c) /\ conn[c].state = "conn_read"
  BY DEF AnswerHere, CannotForward, Forwardable, GetsHeader, Quit, ReadData, ReadNoMemory,
         ReadEnd, NeedsInput, Reading
<1>3. conn[c] \in ConnType BY <1>2, DrivenOpen
<1>4. client[c] \in ClientType /\ LoopInOrder(conn[c], client[c]) BY <1>2, DrivenInOrder
<1>5. CASE AnswerHere(c) \/ CannotForward(c)
  <2>1. HasCommand(c) /\ Reply(c, Command(c).n, RestOf(c), "conn_read")
    BY <1>5 DEF AnswerHere, CannotForward, Forwardable
  <2>2. conn[c].is_gets \/ Command(c).k \notin Headers
    BY <1>5 DEF AnswerHere, CannotForward, Forwardable, Headers
  <2> QED BY <2>1, <2>2, <1>1, <1>2, AnswersInOrder
<1>6. CASE ReadNoMemory(c)
  <2> DEFINE r == [conn[c] EXCEPT
               !.wbuf = [s |-> conn[c].sess, n |-> conn[c].answered + 1, k |-> "get"],
               !.wbytes = RespLen, !.state = "conn_write",
               !.write_and_go = "conn_closing", !.rbuf = <<>>, !.is_gets = FALSE]
  <2>1. conn' = [conn EXCEPT ![c] = r] /\ client' = client
    BY <1>6 DEF ReadNoMemory, Reply, clients
  <2>2. /\ r.state = "conn_write" /\ r.write_and_go = "conn_closing" /\ r.is_gets = FALSE
        /\ r.wbuf.s = r.sess /\ r.wbuf.n = r.answered + 1
    BY <1>3 DEF ConnType
  <2> HIDE DEF r
  <2>3. LoopInOrder(r, client[c]) BY <2>2 DEF LoopInOrder, IsNext, GoesOn
  <2> QED BY <2>1, <2>3, <1>1, GoesInOrder
<1>7. CASE GetsHeader(c)
  <2> DEFINE r == [conn[c] EXCEPT !.is_gets = TRUE]
  <2>1. conn' = [conn EXCEPT ![c] = r] /\ client' = client
    BY <1>7 DEF GetsHeader, clients
  <2>2. /\ r.state = conn[c].state /\ r.sess = conn[c].sess /\ r.answered = conn[c].answered
        /\ r.wbytes = conn[c].wbytes /\ r.rbuf = conn[c].rbuf
        /\ r.write_and_go = conn[c].write_and_go
    BY <1>3 DEF ConnType
  <2> HIDE DEF r
  <2>3. r.rbuf # <<>>
    <3>1. Len(conn[c].rbuf) >= 1 BY <1>7 DEF GetsHeader, HasCommand
    <3>2. Len(<<>>) = 0 OBVIOUS
    <3> QED BY <3>1, <3>2, <2>2
  <2>4. Head(r.rbuf).k \in Headers BY <1>7, <2>2 DEF GetsHeader, Command
  <2>5. LoopInOrder(r, client[c]) BY <2>2, <2>3, <2>4, <1>2, <1>4 DEF LoopInOrder, GoesOn
  <2> QED BY <2>1, <2>5, <1>1, GoesInOrder
<1>8. CASE Quit(c)
  <2> DEFINE r == [conn[c] EXCEPT !.state = "conn_closing", !.rbuf = RestOf(c)]
  <2>1. conn' = [conn EXCEPT ![c] = r] /\ client' = client BY <1>8 DEF Quit, clients
  <2>2. r.state = "conn_closing" /\ ~r.is_gets BY <1>3, <1>8 DEF Quit, ConnType
  <2> HIDE DEF r
  <2>3. LoopInOrder(r, client[c]) BY <2>2 DEF LoopInOrder, GoesOn
  <2> QED BY <2>1, <2>3, <1>1, GoesInOrder
<1>9. CASE ReadEnd(c)
  <2> DEFINE r == [conn[c] EXCEPT !.state = "conn_closing"]
  <2>1. conn' = [conn EXCEPT ![c] = r] /\ client' = client BY <1>9 DEF ReadEnd, clients
  <2>2. /\ r.state = "conn_closing" /\ r.is_gets = conn[c].is_gets /\ r.rbuf = conn[c].rbuf
    BY <1>3 DEF ConnType
  <2> HIDE DEF r
  <2>3. LoopInOrder(r, client[c]) BY <2>2, <1>4 DEF LoopInOrder, GoesOn
  <2> QED BY <2>1, <2>3, <1>1, GoesInOrder
<1>10. CASE ReadData(c)
  <2>1. PICK n \in 1 .. Len(client[c].wire) :
          /\ client' = [client EXCEPT ![c].wire = SubSeq(@, n + 1, Len(@))]
          /\ conn' = [conn EXCEPT ![c].rbuf = @ \o SubSeq(client[c].wire, 1, n)]
    BY <1>10 DEF ReadData
  <2> DEFINE b == conn[c].rbuf
             w == client[c].wire
             got == SubSeq(w, 1, n)
             left == SubSeq(w, n + 1, Len(w))
             m == [client[c] EXCEPT !.wire = left]
             r == [conn[c] EXCEPT !.rbuf = b \o got]
  <2>2. client' = [client EXCEPT ![c] = m] /\ conn' = [conn EXCEPT ![c] = r] BY <2>1
  <2>3. b \in Seq(Unit) /\ w \in Seq(Unit) BY <1>3, <1>4 DEF ConnType, ClientType
  <2>4. m.wire = left /\ m.sent = client[c].sent /\ m.owes = client[c].owes
    BY <1>4 DEF ClientType
  <2>5. /\ r.state = conn[c].state /\ r.sess = conn[c].sess /\ r.answered = conn[c].answered
        /\ r.wbytes = conn[c].wbytes /\ r.rbuf = b \o got /\ r.is_gets = conn[c].is_gets
        /\ r.write_and_go = conn[c].write_and_go
    BY <1>3 DEF ConnType
  <2>6. client \in [Conn -> ClientType] BY Types DEF IInv
  <2>7. client'[c] = m /\ \A d \in Conn \ {c} : client'[d] = client[d] BY <2>2, <2>6
  <2> HIDE DEF m, r
  <2>8. (b \o got) \o left = b \o w BY <2>3, ConcatSplit
  <2>9. b # <<>> => b \o got # <<>> /\ Head(b \o got) = Head(b)
    <3>1. got \in Seq(Unit) BY <2>3
    <3> HIDE DEF b, got
    <3> QED BY <3>1, <2>3, ConcatTail
  <2>10. LoopInOrder(r, m)
    <3>1. r.state # "conn_write" /\ r.wbytes = 0 BY <2>5, <1>2, <1>4 DEF LoopInOrder
    <3>2. r.is_gets => r.rbuf # <<>> /\ Head(r.rbuf).k \in Headers
      BY <2>5, <2>9, <1>4 DEF LoopInOrder
    <3> DEFINE u == [s |-> conn[c].sess, k |-> "get",
                     n |-> conn[c].answered + IF conn[c].state = "conn_write" THEN 1 ELSE 0]
    <3>3. InStep(u, b \o w, client[c]) BY <1>2, <1>4 DEF LoopInOrder, GoesOn
    <3>4. u = [s |-> r.sess, k |-> "get",
               n |-> r.answered + IF r.state = "conn_write" THEN 1 ELSE 0]
      BY <2>5
    <3>5. r.rbuf \o m.wire = b \o w BY <2>4, <2>5, <2>8
    <3> HIDE DEF u, b, w
    <3>6. InStep(u, b \o w, m) BY <3>3, <2>4, ClientInStep
    <3> QED BY <3>1, <3>2, <3>4, <3>5, <3>6 DEF LoopInOrder
  <2> QED BY <2>2, <2>7, <2>10, <1>1, ServesInOrder
<1> QED BY <1>5, <1>6, <1>7, <1>8, <1>9, <1>10

LEMMA UpdateInOrder ==
  ASSUME IInv, OrderInv, NEW c \in Conn, Serves(c), NEW flags \in {"read", "write"},
         update_event(c, flags), client' = client
  PROVE  OrderInv'
<1>1. Driving(c) BY DEF Serves
<1>2. conn[c] \in ConnType /\ conn \in [Conn -> ConnType] BY Before
<1>3. LoopInOrder(conn[c], client[c]) BY <1>1, DrivenInOrder
<1>4. CASE conn' = conn
  <2>1. conn' = [conn EXCEPT ![c] = conn[c]] BY <1>2, <1>4
  <2> QED BY <2>1, <1>3, GoesInOrder
<1>5. CASE conn' = [conn EXCEPT ![c] = [@ EXCEPT !.ev_flags = flags, !.event = flags]]
  <2> DEFINE r == [conn[c] EXCEPT !.ev_flags = flags, !.event = flags]
  <2>1. conn' = [conn EXCEPT ![c] = r] BY <1>5
  <2>2. /\ r.state = conn[c].state /\ r.sess = conn[c].sess /\ r.answered = conn[c].answered
        /\ r.wbytes = conn[c].wbytes /\ r.rbuf = conn[c].rbuf /\ r.is_gets = conn[c].is_gets
        /\ r.write_and_go = conn[c].write_and_go /\ r.wbuf = conn[c].wbuf
    BY <1>2 DEF ConnType
  <2> HIDE DEF r
  <2>3. LoopInOrder(r, client[c]) BY <2>2, <1>3 DEF LoopInOrder, GoesOn, IsNext
  <2> QED BY <2>1, <2>3, GoesInOrder
<1>6. CASE conn' = [conn EXCEPT ![c] =
             [@ EXCEPT !.ev_flags = flags, !.event = "none", !.state = "conn_closing"]]
  <2> DEFINE r == [conn[c] EXCEPT !.ev_flags = flags, !.event = "none", !.state = "conn_closing"]
  <2>1. conn' = [conn EXCEPT ![c] = r] BY <1>6
  <2>2. r.state = "conn_closing" /\ r.is_gets = conn[c].is_gets /\ r.rbuf = conn[c].rbuf
    BY <1>2 DEF ConnType
  <2> HIDE DEF r
  <2>3. LoopInOrder(r, client[c]) BY <2>2, <1>3 DEF LoopInOrder, GoesOn
  <2> QED BY <2>1, <2>3, GoesInOrder
<1> QED BY <1>4, <1>5, <1>6 DEF update_event

LEMMA WriteInOrder ==
  ASSUME IInv, OrderInv, NEW c \in Conn,
         ReadAgain(c) \/ WriteDone(c) \/ WriteSome(c) \/ WriteAgain(c) \/ WriteError(c)
  PROVE  OrderInv'
<1>1. Serves(c) BY WriteServes
<1>2. conn[c] \in ConnType /\ LoopInOrder(conn[c], client[c])
  <2>1. Driving(c) BY <1>1 DEF Serves
  <2> QED BY <2>1, Before, DrivenInOrder
<1>3. CASE ReadAgain(c) \/ WriteAgain(c)
  <2>1. client' = client /\ (update_event(c, "read") \/ update_event(c, "write"))
    BY <1>3 DEF ReadAgain, WriteAgain, clients
  <2> QED BY <2>1, <1>1, UpdateInOrder
<1>4. CASE WriteDone(c)
  <2> DEFINE r == [conn[c] EXCEPT !.state = conn[c].write_and_go,
                                  !.answered = conn[c].answered + 1]
  <2>1. /\ conn' = [conn EXCEPT ![c] = r] /\ client' = client
        /\ conn[c].wbytes = 0 /\ conn[c].state = "conn_write"
    BY <1>4 DEF WriteDone, Writing, clients
  <2>2. /\ r.state = conn[c].write_and_go /\ r.sess = conn[c].sess /\ r.wbytes = conn[c].wbytes
        /\ r.answered = conn[c].answered + 1 /\ r.rbuf = conn[c].rbuf
        /\ r.is_gets = conn[c].is_gets
    BY <1>2 DEF ConnType
  <2>3. r.state \in {"conn_read", "conn_closing"} /\ conn[c].answered \in Nat
    BY <2>2, <1>2 DEF ConnType
  <2> HIDE DEF r
  <2>4. ASSUME GoesOn(r)
        PROVE  InStep([s |-> r.sess, k |-> "get",
                       n |-> r.answered + IF r.state = "conn_write" THEN 1 ELSE 0],
                      r.rbuf \o client[c].wire, client[c])
    <3>1. GoesOn(conn[c]) BY <2>1, <2>2, <2>3, <2>4 DEF GoesOn
    <3>2. r.answered + (IF r.state = "conn_write" THEN 1 ELSE 0)
            = conn[c].answered + (IF conn[c].state = "conn_write" THEN 1 ELSE 0)
      BY <2>1, <2>2, <2>3
    <3> QED BY <3>1, <3>2, <2>2, <1>2 DEF LoopInOrder
  <2>5. LoopInOrder(r, client[c])
    BY <2>1, <2>2, <2>3, <2>4, <1>2 DEF LoopInOrder
  <2> QED BY <2>1, <2>5, <1>1, GoesInOrder
<1>5. CASE WriteSome(c)
  <2>1. PICK n \in 1 .. conn[c].wbytes : conn' = [conn EXCEPT ![c].wbytes = @ - n]
    BY <1>5 DEF WriteSome
  <2> DEFINE r == [conn[c] EXCEPT !.wbytes = conn[c].wbytes - n]
  <2>2. /\ conn' = [conn EXCEPT ![c] = r] /\ client' = client /\ conn[c].state = "conn_write"
    BY <2>1, <1>5 DEF WriteSome, Writing, clients
  <2>3. /\ r.state = conn[c].state /\ r.sess = conn[c].sess /\ r.answered = conn[c].answered
        /\ r.rbuf = conn[c].rbuf /\ r.is_gets = conn[c].is_gets
        /\ r.write_and_go = conn[c].write_and_go /\ r.wbuf = conn[c].wbuf
    BY <1>2 DEF ConnType
  <2> HIDE DEF r
  <2>4. LoopInOrder(r, client[c]) BY <2>2, <2>3, <1>2 DEF LoopInOrder, GoesOn, IsNext
  <2> QED BY <2>2, <2>4, <1>1, GoesInOrder
<1>6. CASE WriteError(c)
  <2> DEFINE r == [conn[c] EXCEPT !.state = "conn_closing"]
  <2>1. conn' = [conn EXCEPT ![c] = r] /\ client' = client BY <1>6 DEF WriteError, clients
  <2>2. r.state = "conn_closing" /\ r.is_gets = conn[c].is_gets /\ r.rbuf = conn[c].rbuf
    BY <1>2 DEF ConnType
  <2> HIDE DEF r
  <2>3. LoopInOrder(r, client[c]) BY <2>2, <1>2 DEF LoopInOrder, GoesOn
  <2> QED BY <2>1, <2>3, <1>1, GoesInOrder
<1> QED BY <1>3, <1>4, <1>5, <1>6
-----------------------------------------------------------------------------
(* The other steps *)

LEMMA SendInOrder ==
  ASSUME IInv, OrderInv, NEW c \in Conn, NEW k \in AllKinds \cup Bodies, Send(c, k)
  PROVE  OrderInv'
<1> DEFINE x == [s |-> conn[c].sess, n |-> client[c].sent + 1, k |-> k]
           m == [client[c] EXCEPT
                   !.wire = Append(client[c].wire, x),
                   !.sent = IF k \notin Headers THEN x.n ELSE client[c].sent,
                   !.owes = IF k \notin Headers THEN "none" ELSE k]
           cn == conn[c]
           cl == client[c]
<1>1. /\ client' = [client EXCEPT ![c] = m]
      /\ UNCHANGED <<conn, io, REQ, RSP, worker>>
      /\ cn.state # "free"
      /\ IF cl.owes = "none" THEN k \in Kinds ELSE k \in Bodies
  BY DEF Send, Open
<1>2. cn \in ConnType /\ cl \in ClientType /\ client \in [Conn -> ClientType]
  BY Types DEF IInv
<1>3. /\ m.wire = Append(cl.wire, x)
      /\ m.sent = (IF k \notin Headers THEN x.n ELSE cl.sent)
      /\ m.owes = (IF k \notin Headers THEN "none" ELSE k)
  BY <1>2 DEF ClientType
<1>4. x \in Unit /\ x.s = cn.sess /\ x.n = cl.sent + 1 /\ x.k = k /\ cl.sent \in Nat
  <2>1. cn.sess \in Nat /\ cl.sent \in Nat BY <1>2 DEF ConnType, ClientType
  <2>2. cl.sent + 1 \in Nat BY <2>1
  <2> QED BY <2>1, <2>2 DEF Unit
<1>5. client'[c] = m /\ \A d \in Conn \ {c} : client'[d] = client[d] BY <1>1, <1>2
<1> HIDE DEF m, x
<1>6. OthersStay(c) BY <1>1, <1>5 DEF OthersStay
<1>7. Newest(x, m) BY <1>3, <1>4 DEF Newest
<1>8. ASSUME NEW z, z.s = cn.sess, Newest(z, cl) PROVE Follows(z, x)
  <2>1. CASE z.k \in Headers
    <3>1. cl.owes = z.k /\ cl.sent + 1 = z.n /\ cl.owes # "none"
      BY <2>1, <1>8 DEF Newest, Headers
    <3>2. k \in Bodies BY <3>1, <1>1
    <3> QED BY <2>1, <3>1, <3>2, <1>4, <1>8 DEF Follows
  <2>2. CASE z.k \notin Headers
    <3>1. cl.owes = "none" /\ cl.sent = z.n BY <2>2, <1>8 DEF Newest
    <3>2. k \in Kinds BY <3>1, <1>1
    <3>3. k \notin Bodies BY <3>2, ServerAssumption DEF AllKinds, Bodies
    <3> QED BY <2>2, <3>1, <3>3, <1>4, <1>8 DEF Follows
  <2> QED BY <2>1, <2>2
<1>9. ASSUME NEW u, u.s = cn.sess, InStep(u, cn.rbuf \o cl.wire, cl)
      PROVE  InStep(u, cn.rbuf \o m.wire, m)
  <2> DEFINE b == cn.rbuf
             w == cl.wire
             t == b \o w
  <2>1. b \in Seq(Unit) /\ w \in Seq(Unit) BY <1>2 DEF ConnType, ClientType
  <2>2. InStep(u, t, cl) BY <1>9
  <2>3. b \o m.wire = Append(t, x) /\ t \in Seq(Unit)
    <3> HIDE DEF b, w
    <3>1. b \o Append(w, x) = Append(b \o w, x) /\ b \o w \in Seq(Unit)
      BY <2>1, <1>4, ConcatAppend
    <3> QED BY <3>1, <1>3 DEF w
  <2> HIDE DEF t
  <2>4. \A z : z.s = u.s /\ Newest(z, cl) => Follows(z, x) BY <1>8, <1>9
  <2> HIDE DEF cl, cn
  <2>5. x \in Unit /\ x.s = u.s BY <1>4, <1>9
  <2>6. InStep(u, Append(t, x), m) BY <2>2, <2>3, <2>4, <2>5, <1>7, AppendInStep
  <2> QED BY <2>3, <2>6
<1>10. ASSUME NEW l \in BOOLEAN, NEW q \in BOOLEAN, NEW d \in BOOLEAN, NEW g \in BOOLEAN,
              InOrder(cn, cl, l, q, d, g)
       PROVE  InOrder(cn, m, l, q, d, g)
  <2>1. ASSUME GoesOn(cn) PROVE InStep(Taken(cn, l, g), cn.rbuf \o m.wire, m)
    <3> DEFINE u == Taken(cn, l, g)
    <3>1. u.s = cn.sess BY DEF Taken
    <3>2. InStep(u, cn.rbuf \o cl.wire, cl) BY <1>10, <2>1 DEF InOrder
    <3> HIDE DEF u, cn, cl
    <3>3. InStep(u, cn.rbuf \o m.wire, m) BY <3>1, <3>2, <1>9
    <3> QED BY <3>3 DEF u
  <2> HIDE DEF cn, cl
  <2> QED BY <1>10, <2>1 DEF InOrder
<1> DEFINE l == c \in LoopOf(io, conn)
           q == c \in Range(REQ)
           d == c \in MadeOf(RSP, worker)
           g == io.pc = "consume" /\ io.c = c
<1>11. l \in BOOLEAN /\ q \in BOOLEAN /\ d \in BOOLEAN /\ g \in BOOLEAN OBVIOUS
<1>12. InOrder(cn, cl, l, q, d, g) BY <1>1 DEF OrderInv, Order
<1> HIDE DEF l, q, d, g, cn, cl
<1>13. InOrder(cn, m, l, q, d, g) BY <1>10, <1>11, <1>12
<1>14. InOrder(conn'[c], client'[c], c \in LoopOf(io', conn'), c \in Range(REQ'),
               c \in MadeOf(RSP', worker'), io'.pc = "consume" /\ io'.c = c)
  BY <1>1, <1>5, <1>13 DEF l, q, d, g, cn
<1> QED BY <1>6, <1>14, OneMoves

\* Steps that leave the connections and their clients as they are, and every
\* connection where it is or out of a queue.
LEMMA StillInOrder ==
  ASSUME OrderInv, conn' = conn,
         \A d \in Conn : client'[d].wire = client[d].wire /\ client'[d].sent = client[d].sent
                         /\ client'[d].owes = client[d].owes,
         LoopOf(io', conn) = LoopOf(io, conn), Range(REQ') \subseteq Range(REQ),
         MadeOf(RSP', worker') \subseteq MadeOf(RSP, worker),
         \A d \in Conn : (io'.pc = "consume" /\ io'.c = d) <=> (io.pc = "consume" /\ io.c = d)
  PROVE  OrderInv'
<1> SUFFICES ASSUME NEW d \in Conn, conn[d].state # "free"
             PROVE  InOrder(conn[d], client'[d], d \in LoopOf(io, conn), d \in Range(REQ'),
                            d \in MadeOf(RSP', worker'), io.pc = "consume" /\ io.c = d)
  <2>1. ASSUME NEW d \in Conn
        PROVE  /\ (d \in LoopOf(io', conn')) = (d \in LoopOf(io, conn))
               /\ (io'.pc = "consume" /\ io'.c = d) = (io.pc = "consume" /\ io.c = d)
    OBVIOUS
  <2> QED BY <2>1 DEF OrderInv, Order
<1> DEFINE l == d \in LoopOf(io, conn)
           q == d \in Range(REQ)
           m == d \in MadeOf(RSP, worker)
           k == io.pc = "consume" /\ io.c = d
           q2 == d \in Range(REQ')
           m2 == d \in MadeOf(RSP', worker')
           cl == client[d]
           dl == client'[d]
<1>1. l \in BOOLEAN /\ q \in BOOLEAN /\ m \in BOOLEAN /\ k \in BOOLEAN
      /\ q2 \in BOOLEAN /\ m2 \in BOOLEAN
  OBVIOUS
<1>2. InOrder(conn[d], cl, l, q, m, k) /\ (q2 => q) /\ (m2 => m) BY DEF OrderInv, Order
<1>3. dl.wire = cl.wire /\ dl.sent = cl.sent /\ dl.owes = cl.owes OBVIOUS
<1> HIDE DEF l, q, m, k, q2, m2, cl, dl
<1>4. InOrder(conn[d], cl, l, q2, m2, k) BY <1>1, <1>2, StaysInOrder
<1>5. InOrder(conn[d], dl, l, q2, m2, k)
  <2>1. ASSUME NEW u, NEW s, InStep(u, s, cl) PROVE InStep(u, s, dl)
    BY <1>3, <2>1, ClientInStep
  <2> QED BY <1>3, <1>4, <2>1 DEF InOrder
<1> QED BY <1>5 DEF l, q2, m2, k, dl

LEMMA HangUpInOrder ==
  ASSUME IInv, OrderInv, NEW c \in Conn, HangUp(c)
  PROVE  OrderInv'
<1>1. client' = [client EXCEPT ![c].eof = TRUE] /\ UNCHANGED <<conn, io, REQ, RSP, worker>>
  BY DEF HangUp
<1>2. client \in [Conn -> ClientType] BY Types DEF IInv
<1>3. ASSUME NEW d \in Conn
      PROVE  client'[d].wire = client[d].wire /\ client'[d].sent = client[d].sent
             /\ client'[d].owes = client[d].owes
  BY <1>1, <1>2 DEF ClientType
<1> QED BY <1>1, <1>3, StillInOrder

LEMMA IdleInOrder ==
  ASSUME IInv, OrderInv, UNCHANGED <<client, conn, io, REQ, RSP, worker>>
  PROVE  OrderInv'
BY StillInOrder

LEMMA EventInOrder ==
  ASSUME IInv, OrderInv,
         (\E c \in Conn : event_handler(c)) \/ NotifyRead
  PROVE  OrderInv'
<1>1. /\ io.pc = "loop" /\ io'.pc # "consume"
      /\ UNCHANGED <<client, conn, REQ, RSP, worker>>
  BY DEF event_handler, NotifyRead, Drive, clients
<1>2. LoopOf(io', conn) = LoopOf(io, conn)
  BY DEF event_handler, NotifyRead, Drive, Ready, LoopOf
<1> QED BY <1>1, <1>2, StillInOrder

\* Nobody has the structure a new connection gets.
LEMMA AcceptInOrder ==
  ASSUME IInv, OrderInv, NEW c \in Conn, Accept(c) \/ AcceptFail(c)
  PROVE  OrderInv'
<1>1. TakesStruct(c) /\ UNCHANGED <<io, REQ, RSP, worker>> BY DEF Accept, AcceptFail
<1>2. io.pc = "loop" /\ c \notin OpenOf(conn) /\ nsess' \in Nat BY <1>1, TakenStruct
<1>3. /\ conn \in [Conn -> ConnType] /\ client \in [Conn -> ClientType]
  BY Types DEF IInv
<1>4. /\ \E r : conn' = [conn EXCEPT ![c] = r]
      /\ client' = client \/ client' = [client EXCEPT ![c] = NewClient]
  BY DEF Accept, AcceptFail
<1>5. \A d \in Conn \ {c} : conn'[d] = conn[d] /\ client'[d] = client[d] BY <1>3, <1>4
<1>6. OthersStay(c) BY <1>1, <1>2, <1>5 DEF OthersStay, LoopOf
<1>7. CASE AcceptFail(c)
  <2>1. conn'[c] = Closed(NewConn(nsess')) BY <1>3, <1>7 DEF AcceptFail
  <2>2. conn'[c].state = "free" BY <2>1 DEF Closed, NewConn
  <2> QED BY <1>6, <2>2, OneMoves
<1>8. CASE Accept(c)
  <2> DEFINE r == NewConn(nsess')
             cl == NewClient
  <2>1. conn'[c] = r /\ client'[c] = cl BY <1>3, <1>8 DEF Accept
  <2>2. /\ r.state = "conn_read" /\ r.wbytes = 0 /\ r.is_gets = FALSE /\ r.answered = 0
        /\ r.rbuf = <<>> /\ cl.wire = <<>> /\ cl.sent = 0 /\ cl.owes = "none"
        /\ r.event = "read"
    BY DEF NewConn, NewClient
  <2> HIDE DEF r, cl
  <2>3. c \in LoopOf(io', conn') BY <2>1, <2>2 DEF LoopOf
  <2>4. c \notin Range(REQ') /\ c \notin MadeOf(RSP', worker')
    <3>1. conn[c].state = "free" BY <1>2 DEF OpenOf
    <3> QED BY <3>1, <1>1, OnePlace
  <2>5. LoopInOrder(r, cl)
    <3> DEFINE u == [s |-> r.sess, k |-> "get",
                     n |-> r.answered + IF r.state = "conn_write" THEN 1 ELSE 0]
    <3>1. u.n = 0 /\ u.k = "get" BY <2>2
    <3> HIDE DEF u
    <3>2. InStep(u, <<>>, cl)
      <4>1. Len(<<>>) = 0 /\ 1 .. 0 = {} OBVIOUS
      <4>2. Newest(u, cl) BY <3>1, <2>2 DEF Newest, Headers
      <4> QED BY <4>1, <4>2 DEF InStep
    <3>3. r.rbuf \o cl.wire = <<>> BY <2>2
    <3>4. InStep(u, r.rbuf \o cl.wire, cl) BY <3>2, <3>3
    <3> QED BY <2>2, <3>4 DEF LoopInOrder, u
  <2>6. InOrder(r, cl, TRUE, FALSE, FALSE, FALSE) BY <2>5, InLoopInOrder
  <2>7. (c \in LoopOf(io', conn')) = TRUE /\ (c \in Range(REQ')) = FALSE
        /\ (c \in MadeOf(RSP', worker')) = FALSE /\ (io'.pc = "consume" /\ io'.c = c) = FALSE
    BY <1>1, <1>2, <2>3, <2>4
  <2>8. InOrder(conn'[c], client'[c], c \in LoopOf(io', conn'), c \in Range(REQ'),
                c \in MadeOf(RSP', worker'), io'.pc = "consume" /\ io'.c = c)
    BY <2>1, <2>6, <2>7
  <2> QED BY <1>6, <2>8, OneMoves
<1> QED BY <1>7, <1>8

LEMMA conn_closeInOrder ==
  ASSUME IInv, OrderInv, NEW c \in Conn, conn_close(c)
  PROVE  OrderInv'
<1>1. /\ io.pc = "drive" /\ io.c = c /\ io' = [pc |-> "loop", c |-> NULL]
      /\ conn' = [conn EXCEPT ![c] = Closed(conn[c])]
      /\ client' = [client EXCEPT ![c] = NewClient]
      /\ UNCHANGED <<REQ, RSP, worker>>
  BY DEF conn_close, Driving, Loop
<1>2. conn \in [Conn -> ConnType] /\ client \in [Conn -> ClientType] BY Types DEF IInv
<1>3. /\ \A d \in Conn \ {c} : conn'[d] = conn[d] /\ client'[d] = client[d]
      /\ conn'[c] = Closed(conn[c])
  BY <1>1, <1>2
<1>4. conn'[c].state = "free" BY <1>2, <1>3 DEF Closed, ConnType
<1>5. OthersStay(c) BY <1>1, <1>3 DEF OthersStay, LoopOf
<1> QED BY <1>4, <1>5, OneMoves
\* A reply comes back: the connection writes it.
LEMMA NotifyPeekInOrder ==
  ASSUME IInv, OrderInv, NotifyPeek
  PROVE  OrderInv'
<1>1. io.pc = "peek" /\ UNCHANGED <<client, REQ, worker>> BY DEF NotifyPeek, clients
<1>2. CASE RSP = <<>>
  <2>1. io' = [pc |-> "loop", c |-> NULL] /\ UNCHANGED <<conn, RSP>>
    BY <1>2 DEF NotifyPeek, Loop
  <2>2. LoopOf(io', conn) = LoopOf(io, conn) BY <1>1, <2>1 DEF LoopOf
  <2> QED BY <1>1, <2>1, <2>2, StillInOrder
<1>3. CASE RSP # <<>>
  <2> DEFINE c == Head(RSP)
             cn == conn[c]
             r == [cn EXCEPT !.state = "conn_write", !.write_and_go = "conn_read"]
  <2>1. /\ conn' = [conn EXCEPT ![c] = r] /\ RSP' = Tail(RSP)
        /\ io' = [pc |-> "drive", c |-> c]
    BY <1>3 DEF NotifyPeek, Drive
  <2>2. c \in Range(RSP) /\ Range(RSP') = Range(RSP) \ {c} /\ Range(RSP) \subseteq Conn
    BY <1>3, <2>1, Before, TailRemoves, RangeAt
  <2>3. Apart(LoopOf(io, conn), Range(REQ), HandsOf(worker), Range(RSP), OpenOf(conn))
    BY Before DEF Owned
  <2>4. c \in MadeOf(RSP, worker) /\ c \in Conn BY <2>2 DEF MadeOf
  <2> HIDE DEF c
  <2>5. c \notin LoopOf(io, conn) /\ cn.state # "free" /\ cn \in ConnType
    BY <2>2, <2>3, <2>4, Before DEF Apart, OpenOf
  <2>6. InOrder(cn, client[c], FALSE, c \in Range(REQ), TRUE, FALSE)
    <3>1. InOrder(cn, client[c], c \in LoopOf(io, conn), c \in Range(REQ),
                  c \in MadeOf(RSP, worker), io.pc = "consume" /\ io.c = c)
      BY <2>4, <2>5 DEF OrderInv, Order
    <3>2. (c \in LoopOf(io, conn)) = FALSE /\ (c \in MadeOf(RSP, worker)) = TRUE
          /\ (io.pc = "consume" /\ io.c = c) = FALSE
      BY <1>1, <2>4, <2>5
    <3> QED BY <3>1, <3>2
  <2>7. /\ r.state = "conn_write" /\ r.sess = cn.sess /\ r.answered = cn.answered
        /\ r.rbuf = cn.rbuf /\ r.is_gets = cn.is_gets /\ r.wbuf = cn.wbuf
        /\ r.write_and_go = "conn_read"
    BY <2>5 DEF ConnType
  <2>8. conn'[c] = r /\ \A d \in Conn \ {c} : conn'[d] = conn[d] BY <2>1, <2>4, Before
  <2> HIDE DEF cn, r
  <2>9. ASSUME NEW q \in BOOLEAN, NEW m \in BOOLEAN
        PROVE  InOrder(r, client[c], TRUE, q, m, FALSE)
    <3>1. cn.state = "conn_read" /\ IsNext(cn.wbuf, cn) BY <2>6 DEF InOrder
    <3>2. IsNext(r.wbuf, r) BY <3>1, <2>7 DEF IsNext
    <3>3. InStep(Taken(cn, FALSE, FALSE), cn.rbuf \o client[c].wire, client[c])
      BY <3>1, <2>6 DEF InOrder, GoesOn
    <3>4. Taken(r, TRUE, FALSE) = Taken(cn, FALSE, FALSE) BY <2>7 DEF Taken
    <3>5. InStep(Taken(r, TRUE, FALSE), r.rbuf \o client[c].wire, client[c])
      BY <3>3, <3>4, <2>7
    <3>6. r.is_gets => r.rbuf # <<>> /\ Head(r.rbuf).k \in Headers BY <2>6, <2>7 DEF InOrder
    <3> QED BY <2>7, <3>2, <3>5, <3>6 DEF InOrder
  <2>10. OthersStay(c)
    <3>1. ASSUME NEW d \in Conn, d # c
          PROVE  /\ d \in LoopOf(io', conn') <=> d \in LoopOf(io, conn)
                 /\ d \in MadeOf(RSP', worker') => d \in MadeOf(RSP, worker)
      <4>1. d \in LoopOf(io', conn') <=> d \in LoopOf(io, conn)
        BY <1>1, <2>1, <2>8, <3>1 DEF LoopOf
      <4>2. d \in MadeOf(RSP', worker') => d \in MadeOf(RSP, worker)
        BY <1>1, <2>2 DEF MadeOf
      <4> QED BY <4>1, <4>2
    <3> QED BY <1>1, <2>1, <2>8, <3>1 DEF OthersStay
  <2>11. c \in LoopOf(io', conn') BY <2>1, <2>4 DEF LoopOf
  <2>12. InOrder(conn'[c], client'[c], c \in LoopOf(io', conn'), c \in Range(REQ'),
                 c \in MadeOf(RSP', worker'), io'.pc = "consume" /\ io'.c = c)
    <3> DEFINE q == c \in Range(REQ')
               m == c \in MadeOf(RSP', worker')
    <3>1. q \in BOOLEAN /\ m \in BOOLEAN OBVIOUS
    <3> HIDE DEF q, m
    <3>2. InOrder(r, client[c], TRUE, q, m, FALSE) BY <2>9, <3>1
    <3>3. (c \in LoopOf(io', conn')) = TRUE /\ (io'.pc = "consume" /\ io'.c = c) = FALSE
      BY <2>1, <2>11
    <3> QED BY <1>1, <2>8, <3>2, <3>3 DEF q, m
  <2> QED BY <2>4, <2>10, <2>12, OneMoves
<1> QED BY <1>2, <1>3

LEMMA SignalMade ==
  ASSUME IInv, Signal
  PROVE  MadeOf(RSP, worker') \subseteq MadeOf(RSP, worker)
<1>1. worker \in [Worker -> WorkerType] BY Before
<1>2. CASE worker' = worker BY <1>2
<1>3. ASSUME NEW w \in Worker, worker' = [worker EXCEPT ![w].pc = "pop"]
      PROVE  MadeOf(RSP, worker') \subseteq MadeOf(RSP, worker)
  <2>1. \A v \in Worker : worker'[v].pc = "push" => worker'[v] = worker[v]
    <3>1. worker'[w].pc = "pop" /\ \A v \in Worker : v # w => worker'[v] = worker[v]
      BY <1>1, <1>3 DEF WorkerType
    <3> QED BY <3>1
  <2> QED BY <2>1 DEF MadeOf
<1> QED BY <1>2, <1>3 DEF Signal

\* The command goes to the workers as the next request, with nothing left to
\* write before it.
LEMMA ForwardInOrder ==
  ASSUME IInv, OrderInv, NEW c \in Conn, Forward(c)
  PROVE  OrderInv'
<1> DEFINE cn == conn[c]
           cl == client[c]
           r == [cn EXCEPT !.event = "none", !.ev_flags = "none", !.cmd = Command(c)]
           u == [s |-> cn.sess, k |-> "get", n |-> cn.answered]
<1>1. /\ Driving(c) /\ cn.state = "conn_read" /\ HasCommand(c) /\ Signal
      /\ cn.is_gets \/ Command(c).k \notin Headers
      /\ conn' = [conn EXCEPT ![c] = r] /\ REQ' = Append(REQ, c)
      /\ io' = [io EXCEPT !.pc = "consume"] /\ UNCHANGED <<client, RSP>>
  BY DEF Forward, Forwardable, Reading, Headers, clients
<1>2. io.pc = "drive" /\ io.c = c /\ io' = [pc |-> "consume", c |-> c]
  <2>1. io \in [pc : {"loop", "drive", "consume", "peek"}, c : Conn \cup {NULL}]
    BY Types DEF IInv
  <2> QED BY <2>1, <1>1 DEF Driving
<1>3. cn \in ConnType /\ cl \in ClientType /\ LoopInOrder(cn, cl)
  BY <1>1, Before, DrivenInOrder
<1>4. /\ r.state = "conn_read" /\ r.sess = cn.sess /\ r.answered = cn.answered
      /\ r.rbuf = cn.rbuf /\ r.is_gets = cn.is_gets /\ r.wbuf = cn.wbuf
      /\ r.wbytes = cn.wbytes /\ r.cmd = Command(c) /\ r.event = "none"
  BY <1>1, <1>3 DEF ConnType
<1>5. conn'[c] = r /\ \A d \in Conn \ {c} : conn'[d] = conn[d] BY <1>1, Before
<1>6. /\ Command(c) = Head(cn.rbuf) /\ Len(cn.rbuf) >= IF cn.is_gets THEN 2 ELSE 1
      /\ cn.is_gets \in BOOLEAN /\ cn.answered \in Nat
  BY <1>1, <1>3 DEF Command, HasCommand, ConnType
<1> HIDE DEF cn, cl, r
<1>7. cn.is_gets <=> Head(cn.rbuf).k \in Headers BY <1>1, <1>3, <1>6 DEF LoopInOrder
<1>8. InStep(u, cn.rbuf \o cl.wire, cl)
  <2>1. GoesOn(cn) BY <1>1 DEF GoesOn
  <2>2. u = [s |-> cn.sess, k |-> "get",
             n |-> cn.answered + IF cn.state = "conn_write" THEN 1 ELSE 0]
    BY <1>1, <1>6
  <2> HIDE DEF u
  <2> QED BY <2>1, <2>2, <1>3 DEF LoopInOrder
<1>9. u.k = "get" /\ u.s = cn.sess /\ u.n = cn.answered OBVIOUS
<1>10. Taken(r, FALSE, TRUE) = u BY <1>4, <1>6 DEF Taken
<1> HIDE DEF u
<1>11. Head(cn.rbuf).s = u.s /\ Head(cn.rbuf).n = u.n + 1
  BY <1>3, <1>6, <1>7, <1>8, <1>9, CommandInStep
<1>12. InOrder(r, cl, FALSE, TRUE, FALSE, TRUE)
  <2>1. IsNext(r.cmd, r) BY <1>4, <1>6, <1>9, <1>11 DEF IsNext
  <2>2. r.wbytes = 0 BY <1>1, <1>3, <1>4 DEF LoopInOrder
  <2>3. r.is_gets => r.rbuf # <<>> /\ Head(r.rbuf).k \in Headers
    BY <1>3, <1>4 DEF LoopInOrder
  <2>4. InStep(Taken(r, FALSE, TRUE), r.rbuf \o cl.wire, cl) BY <1>4, <1>8, <1>10
  <2>5. r.is_gets \/ Head(r.rbuf).k \notin Headers BY <1>1, <1>4, <1>6
  <2> QED BY <2>1, <2>2, <2>3, <2>4, <2>5, <1>4 DEF InOrder
<1>13. MadeOf(RSP', worker') \subseteq MadeOf(RSP, worker) BY <1>1, SignalMade
<1>14. Range(REQ') = Range(REQ) \cup {c} BY <1>1, Before, AppendLinks
<1>15. OthersStay(c) BY <1>1, <1>2, <1>5, <1>13, <1>14 DEF OthersStay, LoopOf
<1>16. (c \in LoopOf(io', conn')) = FALSE /\ (c \in Range(REQ')) = TRUE
       /\ (c \in MadeOf(RSP', worker')) = FALSE /\ (io'.pc = "consume" /\ io'.c = c) = TRUE
  <2>1. c \in LoopOf(io, conn) BY <1>2 DEF LoopOf
  <2>2. c \notin LoopOf(io', conn') BY <1>2, <1>4, <1>5 DEF LoopOf
  <2> QED BY <2>1, <2>2, <1>2, <1>13, <1>14, OnePlace
<1>17. InOrder(conn'[c], client'[c], c \in LoopOf(io', conn'), c \in Range(REQ'),
               c \in MadeOf(RSP', worker'), io'.pc = "consume" /\ io'.c = c)
  BY <1>1, <1>5, <1>12, <1>16 DEF cl
<1> QED BY <1>15, <1>17, OneMoves

\* The command leaves the buffer when a worker may have it already.
LEMMA ConsumeInOrder ==
  ASSUME IInv, OrderInv, NEW c \in Conn, Consume(c)
  PROVE  OrderInv'
<1> DEFINE cn == conn[c]
           cl == client[c]
           r == [cn EXCEPT !.rbuf = RestOf(c), !.is_gets = FALSE]
           u == [s |-> cn.sess, k |-> "get", n |-> cn.answered]
           l == c \in LoopOf(io, conn)
           q == c \in Range(REQ)
           m == c \in MadeOf(RSP, worker)
<1>1. /\ io.pc = "consume" /\ io.c = c /\ io' = [pc |-> "loop", c |-> NULL]
      /\ conn' = [conn EXCEPT ![c] = r]
      /\ UNCHANGED <<client, REQ, RSP, worker>>
  BY DEF Consume, Loop, clients
<1>2. HasCommand(c) BY <1>1 DEF IInv, HandsFull
<1>3. cn \in ConnType /\ cl \in ClientType BY Types DEF IInv
<1>4. /\ r.state = cn.state /\ r.sess = cn.sess /\ r.answered = cn.answered
      /\ r.rbuf = RestOf(c) /\ r.is_gets = FALSE /\ r.wbuf = cn.wbuf
      /\ r.wbytes = cn.wbytes /\ r.cmd = cn.cmd /\ r.event = cn.event
  BY <1>3 DEF ConnType
<1>5. conn'[c] = r /\ \A d \in Conn \ {c} : conn'[d] = conn[d] BY <1>1, Before
<1>6. /\ RestOf(c) = IF cn.is_gets THEN Tail(Tail(cn.rbuf)) ELSE Tail(cn.rbuf)
      /\ Len(cn.rbuf) >= IF cn.is_gets THEN 2 ELSE 1
      /\ cn.is_gets \in BOOLEAN /\ cn.answered \in Nat
  BY <1>2, <1>3 DEF RestOf, HasCommand, ConnType
<1>7. OthersStay(c) BY <1>1, <1>5 DEF OthersStay, LoopOf
<1>8. ASSUME r.state # "free" PROVE InOrder(r, cl, l, q, m, FALSE)
  <2>1. InOrder(cn, cl, l, q, m, TRUE)
    <3>1. InOrder(cn, cl, l, q, m, io.pc = "consume" /\ io.c = c)
      BY <1>4, <1>8 DEF OrderInv, Order
    <3>2. (io.pc = "consume" /\ io.c = c) = TRUE BY <1>1
    <3> QED BY <3>1, <3>2
  <2> HIDE DEF cn, cl, r, l, q, m
  <2>2. ~l /\ cn.state = "conn_read" /\ (cn.is_gets <=> Head(cn.rbuf).k \in Headers)
    BY <2>1, <1>6 DEF InOrder
  <2>3. Taken(cn, l, TRUE) = u BY <2>2, <1>6 DEF Taken
  <2>4. u.k = "get" /\ u.s = cn.sess /\ u.n = cn.answered OBVIOUS
  <2> HIDE DEF u
  <2>5. InStep(u, cn.rbuf \o cl.wire, cl)
    <3>1. InStep(Taken(cn, l, TRUE), cn.rbuf \o cl.wire, cl) BY <2>1, <2>2 DEF InOrder, GoesOn
    <3> QED BY <3>1, <2>3
  <2>6. InStep([s |-> u.s, k |-> "get", n |-> u.n + 1], RestOf(c) \o cl.wire, cl)
    BY <2>2, <2>4, <2>5, <1>3, <1>6, CommandInStep
  <2>7. Taken(r, l, FALSE) = [s |-> u.s, k |-> "get", n |-> u.n + 1]
    BY <2>2, <2>4, <1>4 DEF Taken
  <2>8. InStep(Taken(r, l, FALSE), r.rbuf \o cl.wire, cl) BY <2>6, <2>7, <1>4
  <2> QED BY <2>1, <2>2, <2>8, <1>4 DEF InOrder, IsNext
<1>9. (c \in LoopOf(io', conn')) = l /\ (io'.pc = "consume" /\ io'.c = c) = FALSE
  BY <1>1, <1>4, <1>5 DEF LoopOf
<1>10. conn'[c].state # "free" =>
         InOrder(conn'[c], client'[c], c \in LoopOf(io', conn'), c \in Range(REQ'),
                 c \in MadeOf(RSP', worker'), io'.pc = "consume" /\ io'.c = c)
  BY <1>1, <1>5, <1>8, <1>9
<1> QED BY <1>7, <1>10, OneMoves

-----------------------------------------------------------------------------
(* The steps of a worker *)

LEMMA WorkerMade ==
  ASSUME IInv, NEW w \in Worker, NEW x, worker' = [worker EXCEPT ![w] = x]
  PROVE  /\ MadeOf(RSP, worker') \subseteq MadeOf(RSP, worker) \cup {x.c}
         /\ x.pc # "push" => MadeOf(RSP, worker') \subseteq MadeOf(RSP, worker)
<1>1. worker'[w] = x /\ \A v \in Worker : v # w => worker'[v] = worker[v] BY Before
<1> QED BY <1>1 DEF MadeOf

LEMMA HandOverInOrder ==
  ASSUME IInv, OrderInv, NEW w \in Worker,
         cq_pop(w) \/ WorkDrop(w) \/ PushRsp(w) \/ NotifyLock(w) \/ NotifyWrite(w)
  PROVE  OrderInv'
<1>1. UNCHANGED <<client, conn, io>>
  BY DEF cq_pop, WorkDrop, PushRsp, NotifyLock, NotifyWrite, clients
<1>2. worker \in [Worker -> WorkerType] /\ REQ \in Seq(Conn) /\ RSP \in Seq(Conn) /\ Linear(REQ)
  BY Before
<1>3. CASE PushRsp(w)
  <2> DEFINE x == [pc |-> "notify", c |-> NULL]
  <2>1. /\ worker[w].pc = "push" /\ worker' = [worker EXCEPT ![w] = x]
        /\ RSP' = Append(RSP, worker[w].c) /\ REQ' = REQ
    BY <1>3 DEF PushRsp
  <2>2. worker[w].c \in Conn BY <2>1, InHand
  <2>3. Range(RSP') = Range(RSP) \cup {worker[w].c} BY <1>2, <2>1, <2>2, AppendLinks
  <2>4. worker[w].c \in MadeOf(RSP, worker) BY <2>1 DEF MadeOf
  <2>5. x.pc # "push" OBVIOUS
  <2> HIDE DEF x
  <2>6. MadeOf(RSP', worker') \subseteq MadeOf(RSP, worker)
    <3>1. MadeOf(RSP, worker') \subseteq MadeOf(RSP, worker) BY <2>1, <2>5, WorkerMade
    <3>2. MadeOf(RSP', worker') = MadeOf(RSP, worker') \cup {worker[w].c}
      BY <2>3 DEF MadeOf
    <3> QED BY <3>1, <3>2, <2>4
  <2> QED BY <1>1, <2>1, <2>6, StillInOrder
<1>4. CASE cq_pop(w) \/ WorkDrop(w) \/ NotifyLock(w) \/ NotifyWrite(w)
  <2>1. RSP' = RSP /\ \E x : worker' = [worker EXCEPT ![w] = x] /\ x.pc # "push"
    <3>1. RSP' = RSP BY <1>4 DEF cq_pop, WorkDrop, NotifyLock, NotifyWrite
    <3>2. CASE cq_pop(w)
      <4>1. CASE worker' = [worker EXCEPT ![w].pc = "wait"]
        <5> DEFINE x == [worker[w] EXCEPT !.pc = "wait"]
        <5>1. worker' = [worker EXCEPT ![w] = x] BY <4>1
        <5>2. x.pc = "wait" BY <1>2 DEF WorkerType
        <5> HIDE DEF x
        <5> QED BY <3>1, <5>1, <5>2
      <4>2. CASE worker' = [worker EXCEPT ![w] = [pc |-> "work", c |-> Head(REQ)]]
        <5> DEFINE x == [pc |-> "work", c |-> Head(REQ)]
        <5>1. worker' = [worker EXCEPT ![w] = x] /\ x.pc # "push" BY <4>2
        <5> HIDE DEF x
        <5> QED BY <3>1, <5>1
      <4> QED BY <3>2, <4>1, <4>2 DEF cq_pop
    <3>3. CASE WorkDrop(w)
      <4> DEFINE x == [pc |-> "pop", c |-> NULL]
      <4>1. worker' = [worker EXCEPT ![w] = x] /\ x.pc # "push" BY <3>3 DEF WorkDrop
      <4> HIDE DEF x
      <4> QED BY <3>1, <4>1
    <3>4. CASE NotifyLock(w)
      <4> DEFINE x == [worker[w] EXCEPT !.pc = "write"]
      <4>1. worker' = [worker EXCEPT ![w] = x] BY <3>4 DEF NotifyLock
      <4>2. x.pc = "write" BY <1>2 DEF WorkerType
      <4> HIDE DEF x
      <4> QED BY <3>1, <4>1, <4>2
    <3>5. CASE NotifyWrite(w)
      <4> DEFINE x == [worker[w] EXCEPT !.pc = "pop"]
      <4>1. worker' = [worker EXCEPT ![w] = x] BY <3>5 DEF NotifyWrite
      <4>2. x.pc = "pop" BY <1>2 DEF WorkerType
      <4> HIDE DEF x
      <4> QED BY <3>1, <4>1, <4>2
    <3> QED BY <1>4, <3>2, <3>3, <3>4, <3>5
  <2>2. MadeOf(RSP', worker') \subseteq MadeOf(RSP, worker) BY <2>1, WorkerMade
  <2>3. Range(REQ') \subseteq Range(REQ)
    <3>1. CASE REQ' = REQ BY <3>1
    <3>2. CASE REQ # <<>> /\ REQ' = Tail(REQ) BY <3>2, <1>2, TailRemoves
    <3> QED BY <1>4, <3>1, <3>2 DEF cq_pop, WorkDrop, NotifyLock, NotifyWrite
  <2> QED BY <1>1, <2>2, <2>3, StillInOrder
<1> QED BY <1>3, <1>4

\* A worker makes the reply to the command it was given, which is the next one.
LEMMA ReplyMadeInOrder ==
  ASSUME IInv, OrderInv, NEW w \in Worker, worker[w].pc = "work", NEW n,
         conn' = [conn EXCEPT ![worker[w].c] =
                    [@ EXCEPT !.wbuf = conn[worker[w].c].cmd, !.wbytes = n]],
         worker' = [worker EXCEPT ![w].pc = "push"], UNCHANGED <<client, io, REQ, RSP>>
  PROVE  OrderInv'
<1> DEFINE c == worker[w].c
           cn == conn[c]
           cl == client[c]
           r == [cn EXCEPT !.wbuf = cn.cmd, !.wbytes = n]
           x == [worker[w] EXCEPT !.pc = "push"]
<1>1. worker[w] \in WorkerType /\ c \in Conn /\ c \in HandsOf(worker) BY InHand
<1>2. c \notin LoopOf(io, conn) /\ c \notin Range(REQ) /\ cn \in ConnType
  BY <1>1, OnePlace, Before
<1>3. /\ r.state = cn.state /\ r.sess = cn.sess /\ r.answered = cn.answered
      /\ r.rbuf = cn.rbuf /\ r.is_gets = cn.is_gets /\ r.wbuf = cn.cmd
      /\ r.write_and_go = cn.write_and_go /\ r.cmd = cn.cmd /\ r.event = cn.event
  BY <1>2 DEF ConnType
<1>4. conn' = [conn EXCEPT ![c] = r] /\ worker' = [worker EXCEPT ![w] = x] OBVIOUS
<1>5. x.c = c /\ x.pc = "push" BY <1>1 DEF WorkerType
<1> HIDE DEF c, r, x
<1>6. conn'[c] = r /\ \A d \in Conn \ {c} : conn'[d] = conn[d] BY <1>1, <1>4, Before
<1>7. OthersStay(c)
  <2>1. MadeOf(RSP, worker') \subseteq MadeOf(RSP, worker) \cup {c}
    BY <1>4, <1>5, WorkerMade
  <2> QED BY <1>6, <2>1 DEF OthersStay, LoopOf
<1> DEFINE k == io.pc = "consume" /\ io.c = c
           m == c \in MadeOf(RSP, worker)
           m2 == c \in MadeOf(RSP', worker')
<1>8. ASSUME cn.state # "free" PROVE InOrder(r, cl, FALSE, FALSE, m2, k)
  <2>1. InOrder(cn, cl, FALSE, FALSE, m, k)
    <3>1. InOrder(cn, cl, c \in LoopOf(io, conn), c \in Range(REQ), m, k)
      BY <1>1, <1>8 DEF OrderInv, Order
    <3>2. (c \in LoopOf(io, conn)) = FALSE /\ (c \in Range(REQ)) = FALSE BY <1>2
    <3> QED BY <3>1, <3>2
  <2> HIDE DEF cn, cl, k, m, m2
  <2>2. cn.state = "conn_read" /\ IsNext(cn.cmd, cn) BY <2>1 DEF InOrder
  <2>3. IsNext(r.cmd, r) /\ IsNext(r.wbuf, r) BY <2>2, <1>3 DEF IsNext
  <2>4. Taken(r, FALSE, k) = Taken(cn, FALSE, k) BY <1>3 DEF Taken
  <2>5. InStep(Taken(cn, FALSE, k), cn.rbuf \o cl.wire, cl) BY <2>1, <2>2 DEF InOrder, GoesOn
  <2>6. InStep(Taken(r, FALSE, k), r.rbuf \o cl.wire, cl) BY <2>4, <2>5, <1>3
  <2> QED BY <2>1, <2>2, <2>3, <2>6, <1>3 DEF InOrder
<1>9. (c \in LoopOf(io', conn')) = FALSE /\ (c \in Range(REQ')) = FALSE
  <2>1. c \notin LoopOf(io', conn') BY <1>2, <1>3, <1>6 DEF LoopOf
  <2> QED BY <2>1, <1>2
<1>10. conn'[c].state # "free" =>
         InOrder(conn'[c], client'[c], c \in LoopOf(io', conn'), c \in Range(REQ'),
                 c \in MadeOf(RSP', worker'), io'.pc = "consume" /\ io'.c = c)
  BY <1>3, <1>6, <1>8, <1>9
<1> QED BY <1>1, <1>7, <1>10, OneMoves

LEMMA WorkInOrder ==
  ASSUME IInv, OrderInv, NEW w \in Worker, Work(w) \/ WorkTimeout(w)
  PROVE  OrderInv'
<1>1. worker[w].pc = "work" /\ worker' = [worker EXCEPT ![w].pc = "push"]
      /\ UNCHANGED <<client, io, REQ, RSP>>
  BY DEF Work, WorkTimeout, clients
<1>2. \E n : conn' = [conn EXCEPT ![worker[w].c] =
                        [@ EXCEPT !.wbuf = conn[worker[w].c].cmd, !.wbytes = n]]
  BY DEF Work, WorkTimeout
<1> QED BY <1>1, <1>2, ReplyMadeInOrder

-----------------------------------------------------------------------------
(* Replies come in order *)

LEMMA InitInOrder == Init => OrderInv
<1> SUFFICES ASSUME Init, NEW c \in Conn PROVE conn[c].state = "free" BY DEF OrderInv
<1>1. conn[c] = Closed(NewConn(0)) BY DEF Init
<1> QED BY <1>1 DEF Closed, NewConn

LEMMA DriveInOrder == ASSUME IInv, OrderInv, NEW c \in Conn, drive_machine(c) PROVE OrderInv'
<1>1. CASE \/ AnswerHere(c) \/ CannotForward(c) \/ GetsHeader(c) \/ Quit(c)
           \/ ReadData(c) \/ ReadNoMemory(c) \/ ReadEnd(c)
  BY <1>1, ReadInOrder
<1>2. CASE ReadAgain(c) \/ WriteDone(c) \/ WriteSome(c) \/ WriteAgain(c) \/ WriteError(c)
  BY <1>2, WriteInOrder
<1>3. CASE Stop(c) BY <1>3, IdleInOrder DEF Stop, clients
<1>4. CASE Forward(c) BY <1>4, ForwardInOrder
<1>5. CASE Consume(c) BY <1>5, ConsumeInOrder
<1>6. CASE conn_close(c) BY <1>6, conn_closeInOrder
<1> QED BY <1>1, <1>2, <1>3, <1>4, <1>5, <1>6 DEF drive_machine

LEMMA StepInOrder == IInv /\ OrderInv /\ [Next]_vars => OrderInv'
<1> SUFFICES ASSUME IInv, OrderInv, [Next]_vars PROVE OrderInv' OBVIOUS
<1>1. CASE UNCHANGED vars BY <1>1, IdleInOrder DEF vars, clients
<1>2. CASE Quiet BY <1>2, IdleInOrder DEF Quiet, vars, clients
<1>3. ASSUME NEW c \in Conn, NEW k \in AllKinds \cup Bodies, Send(c, k) PROVE OrderInv'
  BY <1>3, SendInOrder
<1>4. ASSUME NEW c \in Conn, HangUp(c) PROVE OrderInv' BY <1>4, HangUpInOrder
<1>5. ASSUME NEW c \in Conn, Accept(c) \/ AcceptFail(c) PROVE OrderInv' BY <1>5, AcceptInOrder
<1>6. ASSUME NEW c \in Conn, event_handler(c) PROVE OrderInv' BY <1>6, EventInOrder
<1>7. ASSUME NEW c \in Conn, drive_machine(c) PROVE OrderInv' BY <1>7, DriveInOrder
<1>8. CASE NotifyRead \/ NotifyPeek BY <1>8, EventInOrder, NotifyPeekInOrder
<1>9. ASSUME NEW w \in Worker, WorkerStep(w) PROVE OrderInv'
  BY <1>9, HandOverInOrder, WorkInOrder DEF WorkerStep
<1> QED BY <1>1, <1>2, <1>3, <1>4, <1>5, <1>6, <1>7, <1>8, <1>9 DEF Next

\* In every reachable state, what an open connection still has to read is in
\* the order its client sent it, from the request after the one it is at.
THEOREM OrderInvariant == Spec => []OrderInv
<1>1. Init => OrderInv BY InitInOrder
<1>2. IInv /\ OrderInv /\ [Next]_vars => OrderInv' BY StepInOrder
<1> QED BY <1>1, <1>2, ServerInvariant, PTL DEF Spec

\* Pipelined requests are answered in the order they were sent, each once, and a
\* reused structure never carries a reply of the session before (drive_machine,
\* lushan.c:546-660, which takes the next request only when a reply is out).
THEOREM RepliesInOrderHolds == Spec => []RepliesInOrder
<1>1. ASSUME OrderInv PROVE RepliesInOrder
  <2> SUFFICES ASSUME NEW c \in Open, conn[c].state = "conn_write"
               PROVE  conn[c].wbuf.s = conn[c].sess /\ conn[c].wbuf.n = conn[c].answered + 1
    BY DEF RepliesInOrder
  <2>1. c \in Conn /\ Order(c) BY <1>1 DEF OrderInv, Open
  <2> QED BY <2>1 DEF Order, InOrder, IsNext
<1> QED BY <1>1, OrderInvariant, PTL

\* A connection in REQ has nothing left to write, and its command is the next
\* one: what a gets module appends at wbytes comes first in the reply.
THEOREM CleanHandoffHolds == Spec => []CleanHandoff
<1>1. ASSUME IInv, OrderInv PROVE CleanHandoff
  <2> SUFFICES ASSUME NEW c \in ToSet(REQ)
               PROVE  /\ conn[c].wbytes = 0
                      /\ conn[c].cmd.s = conn[c].sess /\ conn[c].cmd.n = conn[c].answered + 1
    BY DEF CleanHandoff
  <2>1. c \in Range(REQ) /\ c \in OpenOf(conn) /\ c \notin LoopOf(io, conn)
    <3>1. c \in Range(REQ) BY DEF ToSet, Range
    <3> QED BY <3>1, <1>1, Before DEF Owned, Apart
  <2>2. c \in Conn /\ Order(c) BY <2>1, <1>1 DEF OrderInv, OpenOf
  <2>3. conn[c].state = "conn_read" /\ IsNext(conn[c].cmd, conn[c]) BY <2>1, <2>2 DEF Order, InOrder
  <2>4. conn[c].wbytes = 0 BY <2>1, <2>2, <2>3 DEF Order, InOrder
  <2> QED BY <2>3, <2>4 DEF IsNext
<1> QED BY <1>1, ServerInvariant, OrderInvariant, PTL

-----------------------------------------------------------------------------
(* Nothing is stuck *)

\* A queue that is not empty has a worker that is not waiting; a connection that
\* waits for input has no whole command in its buffer; one that was given away
\* is not registered.
Awake == REQ # <<>> => \E w \in Worker : worker[w].pc # "wait"

WaitsForInput(c) ==
  conn[c].event = "read" /\ io.c # c => conn[c].state = "conn_read" /\ ~HasCommand(c)

NotStuck ==
  /\ Awake
  /\ \A c \in Conn : WaitsForInput(c)
  /\ io.pc = "consume" => conn[io.c].event = "none"

LEMMA InitNotStuck == Init => NotStuck
<1> SUFFICES ASSUME Init PROVE NotStuck OBVIOUS
<1>1. REQ = <<>> /\ io.pc = "loop" BY DEF Init, cq_init
<1>2. ASSUME NEW c \in Conn PROVE conn[c].event = "none"
  <2>1. conn[c] = Closed(NewConn(0)) BY DEF Init
  <2> QED BY <2>1 DEF Closed, NewConn
<1> QED BY <1>1, <1>2 DEF NotStuck, Awake, WaitsForInput

\* What neither registers connections nor fills their buffers.
LEMMA RestNotStuck ==
  ASSUME NotStuck, UNCHANGED <<io, REQ, worker>>, SameHold(conn, conn'),
         io \in [pc : {"loop", "drive", "consume", "peek"}, c : Conn \cup {NULL}],
         io.pc = "consume" => io.c # NULL
  PROVE  NotStuck'
<1>1. Awake' BY DEF NotStuck, Awake
<1>2. ASSUME NEW c \in Conn PROVE WaitsForInput(c)'
  BY DEF NotStuck, WaitsForInput, SameHold, HasCommand
<1>3. ASSUME io'.pc = "consume" PROVE conn'[io'.c].event = "none"
  <2>1. io.c \in Conn BY <1>3
  <2> QED BY <1>3, <2>1 DEF NotStuck, SameHold
<1> QED BY <1>1, <1>2, <1>3 DEF NotStuck

LEMMA IoPlace ==
  ASSUME IInv
  PROVE  /\ io \in [pc : {"loop", "drive", "consume", "peek"}, c : Conn \cup {NULL}]
         /\ io.c # NULL <=> io.pc \in {"drive", "consume"}
         /\ NULL \notin Conn /\ conn \in [Conn -> ConnType]
BY Types, ServerAssumption DEF IInv, HandsFull

\* A signal wakes a worker, if all of them wait.
LEMMA SignalWakes ==
  ASSUME IInv, Worker # {}, Signal
  PROVE  \E w \in Worker : worker'[w].pc # "wait"
<1>1. worker \in [Worker -> WorkerType] BY Before
<1>2. CASE worker' = worker /\ {w \in Worker : worker[w].pc = "wait"} = {} BY <1>2
<1>3. ASSUME NEW w \in Worker, worker' = [worker EXCEPT ![w].pc = "pop"]
      PROVE  worker'[w].pc # "wait"
  BY <1>1, <1>3 DEF WorkerType
<1> QED BY <1>2, <1>3 DEF Signal

\* A worker waits only when it has found nothing in REQ.
LEMMA WorkersNotStuck ==
  ASSUME IInv, NotStuck, NEW w \in Worker, WorkerStep(w)
  PROVE  NotStuck'
<1>1. worker \in [Worker -> WorkerType] /\ UNCHANGED io
  BY Before DEF WorkerStep, cq_pop, Work, WorkTimeout, WorkDrop, PushRsp, NotifyLock, NotifyWrite
<1>2. Awake'
  <2>1. CASE REQ = <<>> /\ REQ' = REQ BY <2>1 DEF Awake
  <2>2. worker'[w].pc # "wait" \/ (REQ = <<>> /\ REQ' = REQ)
    BY <1>1 DEF WorkerStep, cq_pop, Work, WorkTimeout, WorkDrop, PushRsp, NotifyLock, NotifyWrite,
                WorkerType
  <2> QED BY <2>1, <2>2 DEF Awake
<1>3. SameHold(conn, conn')
  <2>1. CASE conn' = conn BY <2>1 DEF SameHold
  <2>2. CASE Work(w) \/ WorkTimeout(w)
    <3>1. PICK u, n : conn' = [conn EXCEPT ![worker[w].c] =
                                 [conn[worker[w].c] EXCEPT !.wbuf = u, !.wbytes = n]]
      BY <2>2 DEF Work, WorkTimeout
    <3> QED BY <3>1, IoPlace DEF SameHold, ConnType
  <2> QED BY <2>1, <2>2 DEF WorkerStep, cq_pop, WorkDrop, PushRsp, NotifyLock, NotifyWrite
<1>4. ASSUME NEW c \in Conn PROVE WaitsForInput(c)'
  BY <1>1, <1>3 DEF NotStuck, WaitsForInput, SameHold, HasCommand
<1>5. ASSUME io'.pc = "consume" PROVE conn'[io'.c].event = "none"
  <2>1. io.c \in Conn BY <1>1, <1>5, IoPlace
  <2> QED BY <1>1, <1>3, <1>5, <2>1 DEF NotStuck, SameHold
<1> QED BY <1>2, <1>4, <1>5 DEF NotStuck

\* The event loop starts to drive one connection, or a new one comes.
LEMMA EventsNotStuck ==
  ASSUME IInv, NotStuck, UNCHANGED <<REQ, worker>>, io.c = NULL,
         NEW d \in Conn, \A c \in Conn \ {d} : conn'[c] = conn[c],
         conn' = conn \/ io'.c = d \/ WaitsForInput(d)',
         io'.pc # "consume", io'.c \in {NULL, d}
  PROVE  NotStuck'
<1>1. Awake' BY DEF NotStuck, Awake
<1>2. ASSUME NEW c \in Conn PROVE WaitsForInput(c)'
  <2>1. io.c # c BY IoPlace
  <2>2. CASE conn'[c] = conn[c] BY <2>1, <2>2 DEF NotStuck, WaitsForInput, HasCommand
  <2>3. CASE c = d /\ io'.c = d BY <2>3 DEF WaitsForInput
  <2> QED BY <2>2, <2>3
<1> QED BY <1>1, <1>2 DEF NotStuck

LEMMA AcceptNotStuck ==
  ASSUME IInv, NotStuck, NEW d \in Conn, Accept(d) \/ AcceptFail(d)
  PROVE  NotStuck'
<1>1. UNCHANGED <<REQ, worker, io>> /\ io.pc = "loop" /\ io.c = NULL
  BY IoPlace DEF Accept, AcceptFail, TakesStruct
<1>2. PICK s : conn' = [conn EXCEPT ![d] = NewConn(s)] \/ conn' = [conn EXCEPT ![d] = Closed(NewConn(s))]
  BY DEF Accept, AcceptFail
<1>3. \A c \in Conn \ {d} : conn'[c] = conn[c] BY <1>2, IoPlace
<1>4. WaitsForInput(d)'
  <2>1. conn'[d] = NewConn(s) \/ conn'[d] = Closed(NewConn(s)) BY <1>2, IoPlace
  <2>2. NewConn(s).state = "conn_read" /\ NewConn(s).rbuf = <<>> /\ ~NewConn(s).is_gets
    BY DEF NewConn
  <2>3. Closed(NewConn(s)).event = "none" BY DEF Closed, NewConn
  <2> QED BY <2>1, <2>2, <2>3 DEF WaitsForInput, HasCommand
<1> QED BY <1>1, <1>3, <1>4, EventsNotStuck

LEMMA NotifyPeekNotStuck == ASSUME IInv, NotStuck, NotifyPeek PROVE NotStuck'
<1>1. UNCHANGED <<REQ, worker>> /\ io.pc = "peek" /\ io.c = NULL
  BY IoPlace DEF NotifyPeek
<1>2. CASE RSP = <<>>
  <2>1. conn' = conn /\ io' = [pc |-> "loop", c |-> NULL] BY <1>2 DEF NotifyPeek, Loop
  <2>2. ASSUME NEW c \in Conn PROVE WaitsForInput(c)'
    BY <1>1, <2>1, IoPlace DEF NotStuck, WaitsForInput, HasCommand
  <2> QED BY <1>1, <2>1, <2>2 DEF NotStuck, Awake
<1>3. CASE RSP # <<>>
  <2>1. Head(RSP) \in Conn BY <1>3, Before
  <2>2. io' = [pc |-> "drive", c |-> Head(RSP)]
        /\ \A c \in Conn \ {Head(RSP)} : conn'[c] = conn[c]
    BY <1>3, <2>1, IoPlace DEF NotifyPeek, Drive
  <2> QED BY <1>1, <2>1, <2>2, EventsNotStuck
<1> QED BY <1>2, <1>3

\* What update_event leaves in the connection.
LEMMA Registers ==
  ASSUME IInv, NEW d \in Conn, NEW f, update_event(d, f)
  PROVE  \/ conn'[d] = conn[d] /\ conn[d].ev_flags = f
         \/ conn'[d].event = f /\ conn'[d].state = conn[d].state
              /\ conn'[d].rbuf = conn[d].rbuf /\ conn'[d].is_gets = conn[d].is_gets
         \/ conn'[d].event = "none" /\ UNCHANGED io
<1>1. conn \in [Conn -> ConnType] /\ conn[d] \in ConnType BY IoPlace
<1>2. CASE conn[d].ev_flags = f /\ conn' = conn BY <1>2
<1>3. CASE conn' = [conn EXCEPT ![d] = [@ EXCEPT !.ev_flags = f, !.event = f]]
  <2>1. conn'[d] = [conn[d] EXCEPT !.ev_flags = f, !.event = f] BY <1>1, <1>3
  <2> QED BY <1>1, <2>1 DEF ConnType
<1>4. CASE /\ conn' = [conn EXCEPT ![d] =
                [@ EXCEPT !.ev_flags = f, !.event = "none", !.state = "conn_closing"]]
           /\ UNCHANGED io
  <2>1. conn'[d] = [conn[d] EXCEPT !.ev_flags = f, !.event = "none", !.state = "conn_closing"]
    BY <1>1, <1>4
  <2> QED BY <1>1, <1>4, <2>1 DEF ConnType
<1> QED BY <1>2, <1>3, <1>4 DEF update_event

\* drive_machine leaves a connection when libevent has it for writing, when it
\* needs input, when it is given away or closed.
LEMMA DriveNotStuck ==
  ASSUME IInv, NotStuck, Worker # {}, NEW d \in Conn, drive_machine(d)
  PROVE  NotStuck'
<1>1. io.c = d
  BY DEF drive_machine, AnswerHere, CannotForward, Forward, Forwardable, Consume, GetsHeader, Quit,
         Stop, ReadData, ReadNoMemory, ReadEnd, ReadAgain, NeedsInput, Reading, WriteDone, WriteSome,
         WriteAgain, WriteError, Writing, conn_close, Driving
<1>2. \A c \in Conn \ {d} : conn'[c] = conn[c]
  BY IoPlace DEF drive_machine, AnswerHere, CannotForward, Forward, Consume, GetsHeader, Quit,
         Stop, ReadData, ReadNoMemory, ReadEnd, ReadAgain, WriteDone, WriteSome,
         WriteAgain, WriteError, conn_close, update_event, Reply
<1>3. Awake'
  <2>1. CASE Forward(d) BY <2>1, SignalWakes DEF Forward, Awake
  <2>2. CASE UNCHANGED <<REQ, worker>> BY <2>2 DEF NotStuck, Awake
  <2> QED BY <2>1, <2>2
          DEF drive_machine, AnswerHere, CannotForward, Consume, GetsHeader, Quit, Stop, ReadData,
              ReadNoMemory, ReadEnd, ReadAgain, WriteDone, WriteSome, WriteAgain, WriteError,
              conn_close, Reply
<1>4. WaitsForInput(d)'
  <2>1. CASE io'.c = d BY <2>1 DEF WaitsForInput
  <2>2. CASE Consume(d)
    <3>1. conn[d].event = "none" BY <1>1, <2>2 DEF NotStuck, Consume
    <3>2. conn'[d].event = "none" BY <2>2, <3>1, IoPlace DEF Consume, ConnType
    <3> QED BY <3>2 DEF WaitsForInput
  <2>3. CASE ReadAgain(d)
    <3>1. conn[d].state = "conn_read" /\ ~HasCommand(d) /\ update_event(d, "read")
      BY <2>3 DEF ReadAgain, NeedsInput, Reading
    <3>2. \/ conn'[d].event = "none" /\ UNCHANGED io
          \/ conn'[d].state = conn[d].state /\ conn'[d].rbuf = conn[d].rbuf
               /\ conn'[d].is_gets = conn[d].is_gets
      BY <3>1, Registers
    <3> QED BY <3>1, <3>2 DEF WaitsForInput, HasCommand
  <2>4. CASE WriteAgain(d)
    <3>1. conn[d].event = conn[d].ev_flags /\ update_event(d, "write")
      BY <2>4 DEF WriteAgain, Writing, IInv, FlagsTrue
    <3>2. conn'[d].event \in {"write", "none"} BY <3>1, Registers
    <3> QED BY <3>2 DEF WaitsForInput
  <2>5. CASE conn_close(d)
    <3>1. conn'[d].event = "none" BY <2>5, IoPlace DEF conn_close, Closed, ConnType
    <3> QED BY <3>1 DEF WaitsForInput
  <2>6. CASE Forward(d)
    <3>1. io'.c = d BY <1>1, <2>6, IoPlace DEF Forward
    <3> QED BY <2>1, <3>1
  <2>7. CASE UNCHANGED io BY <1>1, <2>1, <2>7
  <2> QED BY <2>2, <2>3, <2>4, <2>5, <2>6, <2>7
          DEF drive_machine, AnswerHere, CannotForward, GetsHeader, Quit, Stop, ReadData,
              ReadNoMemory, ReadEnd, WriteDone, WriteSome, WriteError, Reply
<1>5. ASSUME NEW c \in Conn PROVE WaitsForInput(c)'
  <2>1. CASE c = d BY <1>4, <2>1
  <2>2. CASE c # d
    <3>1. conn'[c] = conn[c] /\ io.c # c BY <1>1, <1>2, <2>2
    <3> QED BY <3>1 DEF NotStuck, WaitsForInput, HasCommand
  <2> QED BY <2>1, <2>2
<1>6. ASSUME io'.pc = "consume" PROVE conn'[io'.c].event = "none"
  <2>1. Forward(d) \/ (UNCHANGED io /\ io.pc = "consume")
    BY <1>6 DEF drive_machine, AnswerHere, CannotForward, Consume, GetsHeader, Quit,
         Stop, ReadData, ReadNoMemory, ReadEnd, ReadAgain, WriteDone, WriteSome,
         WriteAgain, WriteError, conn_close, update_event, Reply, Loop
  <2>2. ~(UNCHANGED io /\ io.pc = "consume")
    BY DEF drive_machine, AnswerHere, CannotForward, Forward, Forwardable, Consume, GetsHeader, Quit,
         Stop, ReadData, ReadNoMemory, ReadEnd, ReadAgain, NeedsInput, Reading, WriteDone, WriteSome,
         WriteAgain, WriteError, Writing, conn_close, Driving, Loop
  <2>3. Forward(d) BY <2>1, <2>2
  <2>4. io'.c = d /\ conn'[d].event = "none" BY <1>1, <2>3, IoPlace DEF Forward, ConnType
  <2> QED BY <2>4
<1> QED BY <1>3, <1>5, <1>6 DEF NotStuck

LEMMA StepNotStuck ==
  ASSUME Worker # {}
  PROVE  IInv /\ NotStuck /\ [Next]_vars => NotStuck'
<1> SUFFICES ASSUME IInv, NotStuck, [Next]_vars PROVE NotStuck' OBVIOUS
<1>0. SameHold(conn, conn) BY DEF SameHold
<1>1. CASE UNCHANGED <<conn, io, REQ, worker>>
  BY <1>0, <1>1, IoPlace, RestNotStuck
<1>2. ASSUME NEW c \in Conn, Accept(c) \/ AcceptFail(c) PROVE NotStuck'
  BY <1>2, AcceptNotStuck
<1>3. ASSUME NEW c \in Conn, event_handler(c) PROVE NotStuck'
  <2>1. /\ UNCHANGED <<REQ, worker, conn>> /\ io.c = NULL
        /\ io'.pc = "drive" /\ io'.c = c
    BY <1>3, IoPlace DEF event_handler, Drive
  <2> QED BY <2>1, EventsNotStuck
<1>4. ASSUME NEW c \in Conn, drive_machine(c) PROVE NotStuck' BY <1>4, DriveNotStuck
<1>5. CASE NotifyRead
  <2>1. UNCHANGED <<REQ, worker, conn>> /\ io'.pc = "peek" /\ io.c = NULL /\ io'.c = NULL
    BY <1>5, IoPlace DEF NotifyRead
  <2>2. ASSUME NEW c \in Conn PROVE WaitsForInput(c)'
    BY <2>1, IoPlace DEF NotStuck, WaitsForInput, HasCommand
  <2> QED BY <2>1, <2>2 DEF NotStuck, Awake
<1>6. CASE NotifyPeek BY <1>6, NotifyPeekNotStuck
<1>7. ASSUME NEW w \in Worker, WorkerStep(w) PROVE NotStuck' BY <1>7, WorkersNotStuck
<1>8. (\E c \in Conn, k \in AllKinds \cup Bodies : Send(c, k)) \/ (\E c \in Conn : HangUp(c))
        \/ Quiet \/ UNCHANGED vars
      => UNCHANGED <<conn, io, REQ, worker>>
  BY DEF Send, HangUp, Quiet, vars
<1> QED BY <1>1, <1>2, <1>3, <1>4, <1>5, <1>6, <1>7, <1>8 DEF Next

\* A connection in the event loop that waits for input, with none on its wire,
\* has had every request answered that its client has sent in full.
LEMMA AllAnswered ==
  ASSUME NEW cn \in ConnType, NEW cl \in ClientType, LoopInOrder(cn, cl),
         cn.state = "conn_read", cl.wire = <<>>,
         ~(Len(cn.rbuf) >= IF cn.is_gets THEN 2 ELSE 1)
  PROVE  cn.answered >= cl.sent
<1> DEFINE u == [s |-> cn.sess, k |-> "get", n |-> cn.answered]
           b == cn.rbuf
<1>1. b \in Seq(Unit) /\ Len(b) \in Nat /\ cn.answered \in Nat /\ cl.sent \in Nat
      /\ cn.is_gets \in BOOLEAN
  BY DEF ConnType, ClientType
<1>2. InStep(u, b \o cl.wire, cl)
  <2>1. cn.answered + (IF cn.state = "conn_write" THEN 1 ELSE 0) = cn.answered BY <1>1
  <2> QED BY <2>1 DEF LoopInOrder, GoesOn
<1>3. InStep(u, b, cl)
  <2> HIDE DEF b
  <2>1. b \o <<>> = b BY <1>1
  <2> QED BY <2>1, <1>2
<1>4. cn.is_gets => b # <<>> /\ Head(b).k \in Headers BY DEF LoopInOrder
<1>5. ~(Len(b) >= IF cn.is_gets THEN 2 ELSE 1) OBVIOUS
<1>6. u.k = "get" /\ u.n = cn.answered OBVIOUS
<1>7. "get" \notin Headers BY DEF Headers
<1> HIDE DEF u, b
<1>8. CASE cn.is_gets
  <2>1. Len(b) = 1 /\ b # <<>> /\ b[1].k \in Headers
    <3>1. b # <<>> /\ Head(b).k \in Headers BY <1>4, <1>8
    <3>2. Len(b) # 0 BY <1>1, <3>1
    <3>3. ~(Len(b) >= 2) BY <1>5, <1>8
    <3>4. Head(b) = b[1] BY <1>1, <3>1
    <3>5. Len(b) = 1
      <4>1. Len(b) \in Nat BY <1>1
      <4>2. \A n \in Nat : n # 0 /\ ~(n >= 2) => n = 1 OBVIOUS
      <4> QED BY <4>1, <4>2, <3>2, <3>3, Zenon
    <3> QED BY <3>1, <3>4, <3>5
  <2>2. Follows(u, b[1]) /\ Newest(b[1], cl) BY <1>3, <2>1 DEF InStep
  <2>3. b[1].n = cn.answered + 1 BY <1>6, <1>7, <2>2 DEF Follows
  <2>4. cl.sent + 1 = b[1].n BY <2>1, <2>2 DEF Newest
  <2> QED BY <1>1, <2>3, <2>4
<1>9. CASE ~cn.is_gets
  <2>1. b = <<>> BY <1>1, <1>5, <1>9
  <2>2. Newest(u, cl) BY <1>3, <2>1 DEF InStep
  <2> QED BY <1>1, <1>6, <1>7, <2>2 DEF Newest
<1> QED BY <1>8, <1>9

\* When every thread waits, each request sent in full is answered in full,
\* unless its connection was dropped by a gets for a module that is not mounted:
\* with at least one worker no request or reply is left behind by a signal, a
\* byte in the pipe, a buffer or a registration (lushan.c:190-219, 295-309,
\* 611-615, 1092-1097).
THEOREM NothingStuckHolds ==
  ASSUME Worker # {}
  PROVE  Spec => []NothingStuck
<1>1. ASSUME IInv, OrderInv, NotStuck PROVE NothingStuck
  <2> SUFFICES ASSUME Idle, NEW c \in Open
               PROVE  conn[c].answered >= client[c].sent \/ Dropped(c)
    BY DEF NothingStuck
  <2>1. /\ c \in Conn /\ conn[c].state # "free" /\ conn[c] \in ConnType /\ client[c] \in ClientType
        /\ io.pc = "loop" /\ io.c = NULL /\ c # NULL /\ pipe = 0 /\ ~Ready(c)
        /\ \A w \in Worker : worker[w].pc = "wait" /\ worker[w].c = NULL
    BY <1>1, IoPlace, Types DEF Open, Idle, IInv, HandsFull
  <2>2. REQ = <<>> BY <1>1, <2>1 DEF NotStuck, Awake
  <2>3. RSP = <<>>
    <3>1. NotifyingOf(worker) = {} BY <2>1 DEF NotifyingOf
    <3>2. Cardinality(NotifyingOf(worker)) = 0 BY <3>1, FS_EmptySet
    <3>3. Len(RSP) = 0 BY <1>1, <2>1, <3>2, Before
    <3>4. RSP \in Seq(Conn) BY <1>1, Before
    <3> QED BY <3>3, <3>4
  <2>4. CASE c \notin LoopOf(io, conn)
    <3>1. /\ InLoop = LoopOf(io, conn) /\ ToSet(REQ) = {} /\ ToSet(RSP) = {} /\ AtWorkers = {}
      BY <2>1, <2>2, <2>3 DEF InLoop, LoopOf, Driving, ToSet, AtWorkers
    <3>2. Places = <<LoopOf(io, conn), {}, {}, {}>> BY <3>1 DEF Places
    <3>3. Held = LoopOf(io, conn) BY <3>2, Pairwise DEF Held
    <3> QED BY <1>1, <2>4, <3>3 DEF Dropped, IInv, OnlyModuleMissLoses
  <2>5. CASE c \in LoopOf(io, conn)
    <3>1. conn[c].event = "read" /\ client[c].wire = <<>>
      BY <2>1, <2>5 DEF LoopOf, Ready, ConnType, Events
    <3>2. conn[c].state = "conn_read" /\ ~HasCommand(c)
      BY <1>1, <2>1, <3>1 DEF NotStuck, WaitsForInput
    <3>3. (c \in LoopOf(io, conn)) = TRUE /\ (c \in Range(REQ)) = FALSE
          /\ (c \in MadeOf(RSP, worker)) = FALSE /\ (io.pc = "consume" /\ io.c = c) = FALSE
      BY <1>1, <2>1, <2>5, OnePlace
    <3>4. InOrder(conn[c], client[c], c \in LoopOf(io, conn), c \in Range(REQ),
                  c \in MadeOf(RSP, worker), io.pc = "consume" /\ io.c = c)
      BY <1>1, <2>1 DEF OrderInv, Order
    <3>5. InOrder(conn[c], client[c], TRUE, FALSE, FALSE, FALSE) BY <3>3, <3>4
    <3>6. LoopInOrder(conn[c], client[c]) BY <3>5, InLoopInOrder
    <3> QED BY <2>1, <3>1, <3>2, <3>6, AllAnswered DEF HasCommand
  <2> QED BY <2>4, <2>5
<1>2. Init => NotStuck BY InitNotStuck
<1>3. IInv /\ NotStuck /\ [Next]_vars => NotStuck' BY StepNotStuck
<1>4. IInv /\ OrderInv /\ NotStuck => NothingStuck BY <1>1
<1> QED BY <1>2, <1>3, <1>4, ServerInvariant, OrderInvariant, PTL DEF Spec
=============================================================================
