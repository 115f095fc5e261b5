------------------------------- MODULE Server -------------------------------
(***************************************************************************)
(* The communication core of src/lushan.c: one I/O thread drives every     *)
(* connection through a state machine, hands complete requests to worker   *)
(* threads over the queue REQ and gets the connections back over the queue *)
(* RSP and a pipe that wakes its event loop. Worker threads block on REQ.  *)
(*                                                                         *)
(* A request is a unit of input: a command line, or for gets a header line *)
(* and a body. What a command computes is left out (Hdb models the table   *)
(* the commands work on); how long a reply is to write is kept. A client   *)
(* of the binary port sends frames that are forwarded as "get" is here.    *)
(***************************************************************************)
EXTENDS Integers, FiniteSets, Lists

CONSTANTS
  Conn,      \* conn structures, each good for one socket at a time
  Worker,
  NULL,
  Kinds,     \* what clients send
  RespLen,   \* writes a reply may need, at most
  PipeCap,   \* bytes the notify pipe holds
  FreeTotal, \* closed conns the pool has room for at first
  MaxReq,    \* bound: requests a client sends in a session
  MaxSess    \* bound: connections accepted

AllKinds == {"get", "stats", "version", "gets", "gets_nomod", "gets_bad", "quit", "stop"}
Headers == {"gets", "gets_nomod"}
Bodies == {"body", "body_bad"}

ASSUME ServerAssumption ==
  /\ NULL \notin Conn \cup Worker
  /\ IsFiniteSet(Conn) /\ IsFiniteSet(Worker)
  /\ Kinds \subseteq AllKinds
  /\ {RespLen, PipeCap, FreeTotal, MaxReq, MaxSess} \subseteq Nat \ {0}

VARIABLES
  client,      \* the client's end of each connection and the bytes in flight
  conn,        \* the conn structures
  structs,     \* conn structures that are allocated
  freeconns,   \* closed ones kept for reuse, and how many it has room for
  freetotal,
  curr_conns, conn_structs,     \* stats
  nsess,       \* connections accepted so far
  io,          \* the I/O thread: where it is, and the connection it drives
  REQ, RSP,
  pipe,        \* bytes in the notify pipe
  notify_lock,
  worker,      \* the worker threads: where each is, and its connection
  up           \* the process runs

clients == <<client, nsess>>
pool == <<structs, freeconns, freetotal, curr_conns, conn_structs>>
wakeup == <<pipe, notify_lock>>
vars == <<clients, conn, pool, io, REQ, RSP, wakeup, worker, up>>

Unit == [s : Nat, n : Nat, k : AllKinds \cup Bodies]
NoUnit == [s |-> 0, n |-> 0, k |-> "get"]

Events == {"none", "read", "write"}

TypeOK ==
  /\ client \in [Conn -> [wire : Seq(Unit), eof : BOOLEAN, sent : Nat,
                          owes : {"none"} \cup Headers]]
  /\ conn \in [Conn -> [state : {"free", "conn_read", "conn_write", "conn_closing"},
                        sess : Nat, ev_flags : Events, event : Events,
                        rbuf : Seq(Unit), is_gets : BOOLEAN, cmd : Unit,
                        wbuf : Unit, wbytes : Nat,
                        write_and_go : {"conn_read", "conn_closing"},
                        answered : Nat]]  \* replies written in full
  /\ structs \subseteq Conn /\ freeconns \in Seq(Conn) /\ freetotal \in Nat \ {0}
  /\ curr_conns \in Int /\ conn_structs \in Int /\ nsess \in Nat
  /\ io \in [pc : {"loop", "drive", "consume", "peek"}, c : Conn \cup {NULL}]
  /\ REQ \in Seq(Conn) /\ RSP \in Seq(Conn)
  /\ pipe \in 0 .. PipeCap
  /\ notify_lock \in Worker \cup {NULL}
  /\ worker \in [Worker -> [pc : {"pop", "wait", "work", "push", "notify", "write"},
                            c : Conn \cup {NULL}]]
  /\ up \in BOOLEAN

Listeners == 2  \* the ascii and the binary port each have a conn

NewConn(s) ==
  [state |-> "conn_read", sess |-> s, ev_flags |-> "read", event |-> "read",
   rbuf |-> <<>>, is_gets |-> FALSE, cmd |-> NoUnit, wbuf |-> NoUnit, wbytes |-> 0,
   write_and_go |-> "conn_read", answered |-> 0]

\* conn_close leaves the fields of the structure as they are.
Closed(cn) == [cn EXCEPT !.state = "free", !.event = "none"]
NewClient == [wire |-> <<>>, eof |-> FALSE, sent |-> 0, owes |-> "none"]

conn_init == structs = {} /\ freeconns = <<>> /\ freetotal = FreeTotal
cq_init == REQ = <<>> /\ RSP = <<>>

\* What main has set up when it enters the event loop.
Init ==
  /\ client = [c \in Conn |-> NewClient]
  /\ conn = [c \in Conn |-> Closed(NewConn(0))]
  /\ conn_init
  /\ curr_conns = Listeners /\ conn_structs = Listeners /\ nsess = 0
  /\ io = [pc |-> "loop", c |-> NULL]
  /\ cq_init
  /\ pipe = 0 /\ notify_lock = NULL
  /\ worker = [w \in Worker |-> [pc |-> "pop", c |-> NULL]]
  /\ up = TRUE

Open == {c \in Conn : conn[c].state # "free"}

-----------------------------------------------------------------------------
(* Clients *)

\* A command line, or the body its gets header announced.
Send(c, k) ==
  /\ c \in Open /\ ~client[c].eof /\ client[c].sent < MaxReq
  /\ IF client[c].owes = "none" THEN k \in Kinds ELSE k \in Bodies
  /\ LET u == [s |-> conn[c].sess, n |-> client[c].sent + 1, k |-> k]
         whole == k \notin Headers
     IN client' = [client EXCEPT ![c] =
          [@ EXCEPT !.wire = Append(client[c].wire, u),
                    !.sent = IF whole THEN u.n ELSE client[c].sent,
                    !.owes = IF whole THEN "none" ELSE k]]
  /\ UNCHANGED <<nsess, conn, pool, io, REQ, RSP, wakeup, worker, up>>

HangUp(c) ==
  /\ c \in Open /\ ~client[c].eof
  /\ client' = [client EXCEPT ![c].eof = TRUE]
  /\ UNCHANGED <<nsess, conn, pool, io, REQ, RSP, wakeup, worker, up>>

-----------------------------------------------------------------------------
(* The I/O thread between events *)

Driving(c) == io.pc = "drive" /\ io.c = c
Drive(c) == io' = [pc |-> "drive", c |-> c]
Loop == io' = [pc |-> "loop", c |-> NULL]

\* The conn structure conn_new takes: the last one freed, or a new one.
TakesStruct(c) ==
  /\ io.pc = "loop" /\ nsess < MaxSess
  /\ IF freeconns # <<>> THEN c = Last(freeconns) ELSE c \notin structs
  /\ nsess' = nsess + 1
  /\ structs' = structs \cup {c}
  /\ conn_structs' = IF freeconns # <<>> THEN conn_structs ELSE conn_structs + 1

\* Wrong: a structure taken from the pool keeps its unwritten bytes.
Accept_KeepsBytes(c) ==
  /\ TakesStruct(c)
  /\ freeconns' = IF freeconns # <<>> THEN Front(freeconns) ELSE freeconns
  /\ curr_conns' = curr_conns + 1
  /\ conn' = [conn EXCEPT ![c] = [NewConn(nsess') EXCEPT !.wbytes = conn[c].wbytes]]
  /\ client' = [client EXCEPT ![c] = NewClient]
  /\ UNCHANGED <<freetotal, io, REQ, RSP, wakeup, worker, up>>

\* conn_listening accepts a connection. Without descriptors, or without memory
\* for conn_new, it does nothing.
Accept(c) ==
  /\ TakesStruct(c)
  /\ freeconns' = IF freeconns # <<>> THEN Front(freeconns) ELSE freeconns
  /\ curr_conns' = curr_conns + 1
  /\ conn' = [conn EXCEPT ![c] = NewConn(nsess')]
  /\ client' = [client EXCEPT ![c] = NewClient]
  /\ UNCHANGED <<freetotal, io, REQ, RSP, wakeup, worker, up>>

\* Wrong: the connection is counted before it is registered.
AcceptFail_Counts(c) ==
  /\ TakesStruct(c)
  /\ freeconns' = IF freeconns # <<>> THEN freeconns ELSE <<c>>
  /\ curr_conns' = curr_conns + 1
  /\ conn' = [conn EXCEPT ![c] = Closed(NewConn(nsess'))]
  /\ UNCHANGED <<client, freetotal, io, REQ, RSP, wakeup, worker, up>>

\* event_add fails: the structure is kept for later and the socket is closed.
AcceptFail(c) ==
  /\ TakesStruct(c)
  /\ freeconns' = IF freeconns # <<>> THEN freeconns ELSE <<c>>
  /\ conn' = [conn EXCEPT ![c] = Closed(NewConn(nsess'))]
  /\ UNCHANGED <<client, freetotal, curr_conns, io, REQ, RSP, wakeup, worker, up>>

Ready(c) ==
  \/ conn[c].event = "read" /\ (client[c].wire # <<>> \/ client[c].eof)
  \/ conn[c].event = "write"

\* libevent calls event_handler for a registered and ready connection.
event_handler(c) ==
  /\ io.pc = "loop" /\ Ready(c)
  /\ Drive(c)
  /\ UNCHANGED <<clients, conn, pool, REQ, RSP, wakeup, worker, up>>

\* notify_handler: one byte read for one connection taken from RSP.
NotifyRead ==
  /\ io.pc = "loop" /\ pipe > 0
  /\ pipe' = pipe - 1
  /\ io' = [pc |-> "peek", c |-> NULL]
  /\ UNCHANGED <<clients, conn, pool, REQ, RSP, notify_lock, worker, up>>

NotifyPeek ==
  /\ io.pc = "peek"
  /\ IF RSP = <<>>
     THEN Loop /\ UNCHANGED <<conn, RSP>>
     ELSE /\ conn' = [conn EXCEPT ![Head(RSP)] =
                        [@ EXCEPT !.state = "conn_write", !.write_and_go = "conn_read"]]
          /\ RSP' = Tail(RSP)
          /\ Drive(Head(RSP))
  /\ UNCHANGED <<clients, pool, REQ, wakeup, worker, up>>

-----------------------------------------------------------------------------
(* drive_machine, conn_read *)

Reading(c) == Driving(c) /\ conn[c].state = "conn_read"

\* A complete command: a line, or a header with its body behind it.
HasCommand(c) == Len(conn[c].rbuf) >= IF conn[c].is_gets THEN 2 ELSE 1
Command(c) == Head(conn[c].rbuf)
RestOf(c) ==
  IF conn[c].is_gets THEN Tail(Tail(conn[c].rbuf)) ELSE Tail(conn[c].rbuf)

\* out_string: a reply the I/O thread makes itself to request number n of c.
Reply(c, n, rest, go) ==
  /\ conn' = [conn EXCEPT ![c] =
       [@ EXCEPT !.wbuf = [s |-> conn[c].sess, n |-> n, k |-> "get"], !.wbytes = RespLen,
                 !.state = "conn_write", !.write_and_go = go,
                 !.rbuf = rest, !.is_gets = FALSE]]
  /\ UNCHANGED <<clients, pool, io, REQ, RSP, wakeup, worker, up>>

\* version, a malformed gets header and a malformed gets body.
AnswerHere(c) ==
  /\ Reading(c) /\ HasCommand(c)
  /\ IF conn[c].is_gets THEN conn[c].rbuf[2].k = "body_bad"
     ELSE Command(c).k \in {"version", "gets_bad"}
  /\ Reply(c, Command(c).n, RestOf(c), "conn_read")

Forwardable(c) ==
  /\ Reading(c) /\ HasCommand(c)
  /\ IF conn[c].is_gets THEN conn[c].rbuf[2].k = "body"
     ELSE Command(c).k \in {"get", "stats"}

\* event_del fails: the request is answered with an error instead.
CannotForward(c) ==
  /\ Forwardable(c)
  /\ Reply(c, Command(c).n, RestOf(c), "conn_read")

\* Wrong: the worker is not woken.
Signal_Forgotten == worker' = worker

\* pthread_cond_signal: one of the workers waiting on REQ, if any, wakes.
Signal ==
  LET waiting == {w \in Worker : worker[w].pc = "wait"}
  IN IF waiting = {} THEN worker' = worker
     ELSE \E w \in waiting : worker' = [worker EXCEPT ![w].pc = "pop"]

\* Wrong: the connection stays registered while a worker has it.
Forward_StaysRegistered(c) ==
  /\ Forwardable(c)
  /\ conn' = [conn EXCEPT ![c].cmd = Command(c)]
  /\ REQ' = Append(REQ, c)
  /\ Signal
  /\ io' = [io EXCEPT !.pc = "consume"]
  /\ UNCHANGED <<clients, pool, RSP, wakeup, up>>

\* Wrong: ev_flags still says that the connection is registered.
Forward_KeepsFlags(c) ==
  /\ Forwardable(c)
  /\ conn' = [conn EXCEPT ![c] = [@ EXCEPT !.event = "none", !.cmd = Command(c)]]
  /\ REQ' = Append(REQ, c)
  /\ Signal
  /\ io' = [io EXCEPT !.pc = "consume"]
  /\ UNCHANGED <<clients, pool, RSP, wakeup, up>>

\* The connection leaves the event loop and goes to the workers.
Forward(c) ==
  /\ Forwardable(c)
  /\ conn' = [conn EXCEPT ![c] =
       [@ EXCEPT !.event = "none", !.ev_flags = "none", !.cmd = Command(c)]]
  /\ REQ' = Append(REQ, c)
  /\ Signal
  /\ io' = [io EXCEPT !.pc = "consume"]
  /\ UNCHANGED <<clients, pool, RSP, wakeup, up>>

\* Wrong: the command stays in the buffer and runs again.
Consume_KeepsCommand(c) ==
  /\ io.pc = "consume" /\ io.c = c
  /\ Loop
  /\ UNCHANGED <<clients, conn, pool, REQ, RSP, wakeup, worker, up>>

\* After cq_push: rcurr, rbytes and is_gets of a connection already given away.
Consume(c) ==
  /\ io.pc = "consume" /\ io.c = c
  /\ conn' = [conn EXCEPT ![c] = [@ EXCEPT !.rbuf = RestOf(c), !.is_gets = FALSE]]
  /\ Loop
  /\ UNCHANGED <<clients, pool, REQ, RSP, wakeup, worker, up>>

\* A good gets header: the line stays in the buffer until its body is there.
GetsHeader(c) ==
  /\ Reading(c) /\ HasCommand(c) /\ ~conn[c].is_gets
  /\ Command(c).k \in Headers
  /\ conn' = [conn EXCEPT ![c].is_gets = TRUE]
  /\ UNCHANGED <<clients, pool, io, REQ, RSP, wakeup, worker, up>>

Quit(c) ==
  /\ Reading(c) /\ HasCommand(c) /\ ~conn[c].is_gets /\ Command(c).k = "quit"
  /\ conn' = [conn EXCEPT ![c] = [@ EXCEPT !.state = "conn_closing", !.rbuf = RestOf(c)]]
  /\ UNCHANGED <<clients, pool, io, REQ, RSP, wakeup, worker, up>>

Stop(c) ==
  /\ Reading(c) /\ HasCommand(c) /\ ~conn[c].is_gets /\ Command(c).k = "stop"
  /\ up' = FALSE
  /\ UNCHANGED <<clients, conn, pool, io, REQ, RSP, wakeup, worker>>

NeedsInput(c) == Reading(c) /\ ~HasCommand(c)

\* try_read_network got data.
ReadData(c) ==
  /\ NeedsInput(c)
  /\ \E n \in 1 .. Len(client[c].wire) :
       /\ client' = [client EXCEPT ![c].wire = SubSeq(@, n + 1, Len(@))]
       /\ conn' = [conn EXCEPT ![c].rbuf = @ \o SubSeq(client[c].wire, 1, n)]
  /\ UNCHANGED <<nsess, pool, io, REQ, RSP, wakeup, worker, up>>

\* The input buffer cannot grow for the request that is arriving: what was read
\* of it is dropped, the client is told and the connection is closed after that.
ReadNoMemory(c) ==
  /\ NeedsInput(c) /\ client[c].wire # <<>>
  /\ Reply(c, conn[c].answered + 1, <<>>, "conn_closing")

\* End of the stream or an error. When data just read filled the buffer exactly
\* the read after it comes here too, and that data is not processed either.
ReadEnd(c) ==
  /\ NeedsInput(c) /\ client[c].eof
  /\ conn' = [conn EXCEPT ![c].state = "conn_closing"]
  /\ UNCHANGED <<clients, pool, io, REQ, RSP, wakeup, worker, up>>

\* update_event registers the connection, unless ev_flags says it is already.
\* When libevent refuses, the connection is closed.
update_event(c, flags) ==
  \/ /\ conn' = IF conn[c].ev_flags = flags THEN conn
                ELSE [conn EXCEPT ![c] = [@ EXCEPT !.ev_flags = flags, !.event = flags]]
     /\ Loop
  \/ /\ conn[c].ev_flags # flags
     /\ conn' = [conn EXCEPT ![c] =
          [@ EXCEPT !.ev_flags = flags, !.event = "none", !.state = "conn_closing"]]
     /\ UNCHANGED io

ReadAgain(c) ==
  /\ NeedsInput(c) /\ client[c].wire = <<>> /\ ~client[c].eof
  /\ update_event(c, "read")
  /\ UNCHANGED <<clients, pool, REQ, RSP, wakeup, worker, up>>

-----------------------------------------------------------------------------
(* drive_machine, conn_write and conn_closing *)

Writing(c) == Driving(c) /\ conn[c].state = "conn_write"

\* Wrong: the connection waits for input with requests in its buffer.
WriteDone_Waits(c) ==
  /\ Writing(c) /\ conn[c].wbytes = 0
  /\ conn' = [conn EXCEPT ![c] =
       [@ EXCEPT !.state = "conn_read", !.answered = conn[c].answered + 1,
                 !.ev_flags = "read", !.event = "read"]]
  /\ Loop
  /\ UNCHANGED <<clients, pool, REQ, RSP, wakeup, worker, up>>

\* The reply is out: the next request may be in the buffer already.
WriteDone(c) ==
  /\ Writing(c) /\ conn[c].wbytes = 0
  /\ conn' = [conn EXCEPT ![c] =
       [@ EXCEPT !.state = conn[c].write_and_go, !.answered = conn[c].answered + 1]]
  /\ UNCHANGED <<clients, pool, io, REQ, RSP, wakeup, worker, up>>

WriteSome(c) ==
  /\ Writing(c)
  /\ \E n \in 1 .. conn[c].wbytes : conn' = [conn EXCEPT ![c].wbytes = @ - n]
  /\ UNCHANGED <<clients, pool, io, REQ, RSP, wakeup, worker, up>>

WriteAgain(c) ==
  /\ Writing(c) /\ conn[c].wbytes > 0
  /\ update_event(c, "write")
  /\ UNCHANGED <<clients, pool, REQ, RSP, wakeup, worker, up>>

WriteError(c) ==
  /\ Writing(c) /\ conn[c].wbytes > 0 /\ client[c].eof
  /\ conn' = [conn EXCEPT ![c].state = "conn_closing"]
  /\ UNCHANGED <<clients, pool, io, REQ, RSP, wakeup, worker, up>>

\* The structure is kept for reuse; when freeconns is full it doubles or, out
\* of memory, the structure is freed.
conn_close(c) ==
  /\ Driving(c) /\ conn[c].state = "conn_closing"
  /\ conn' = [conn EXCEPT ![c] = Closed(@)]
  /\ client' = [client EXCEPT ![c] = NewClient]
  /\ curr_conns' = curr_conns - 1
  /\ \/ /\ freeconns' = Append(freeconns, c)
        /\ freetotal' = IF Len(freeconns) < freetotal THEN freetotal ELSE 2 * freetotal
        /\ UNCHANGED <<structs, conn_structs>>
     \/ /\ Len(freeconns) >= freetotal
        /\ structs' = structs \ {c} /\ conn_structs' = conn_structs - 1
        /\ UNCHANGED <<freeconns, freetotal>>
  /\ Loop
  /\ UNCHANGED <<nsess, REQ, RSP, wakeup, worker, up>>

-----------------------------------------------------------------------------
(* Worker threads *)

cq_pop(w) ==
  /\ worker[w].pc = "pop"
  /\ IF REQ = <<>>
     THEN worker' = [worker EXCEPT ![w].pc = "wait"] /\ UNCHANGED REQ
     ELSE /\ worker' = [worker EXCEPT ![w] = [pc |-> "work", c |-> Head(REQ)]]
          /\ REQ' = Tail(REQ)
  /\ UNCHANGED <<clients, conn, pool, io, RSP, wakeup, up>>

\* The command runs. A gets module appends to what is in wbuf, every other
\* command starts afresh.
Work(w) ==
  /\ worker[w].pc = "work"
  /\ LET c == worker[w].c
         cmd == conn[c].cmd
     IN /\ cmd.k # "gets_nomod"
        /\ conn' = [conn EXCEPT ![c] =
             [@ EXCEPT !.wbuf = cmd,
                       !.wbytes = RespLen + IF cmd.k = "gets" THEN conn[c].wbytes ELSE 0]]
  /\ worker' = [worker EXCEPT ![w].pc = "push"]
  /\ UNCHANGED <<clients, pool, io, REQ, RSP, wakeup, up>>

\* The command has waited longer than settings.timeout.
WorkTimeout(w) ==
  /\ worker[w].pc = "work"
  /\ LET c == worker[w].c
     IN conn' = [conn EXCEPT ![c] = [@ EXCEPT !.wbuf = conn[c].cmd, !.wbytes = RespLen]]
  /\ worker' = [worker EXCEPT ![w].pc = "push"]
  /\ UNCHANGED <<clients, pool, io, REQ, RSP, wakeup, up>>

\* gets for a module that is not mounted: the worker goes for the next request
\* and nothing refers to the connection any more.
WorkDrop(w) ==
  /\ worker[w].pc = "work" /\ conn[worker[w].c].cmd.k = "gets_nomod"
  /\ worker' = [worker EXCEPT ![w] = [pc |-> "pop", c |-> NULL]]
  /\ UNCHANGED <<clients, conn, pool, io, REQ, RSP, wakeup, up>>

PushRsp(w) ==
  /\ worker[w].pc = "push"
  /\ RSP' = Append(RSP, worker[w].c)
  /\ worker' = [worker EXCEPT ![w] = [pc |-> "notify", c |-> NULL]]
  /\ UNCHANGED <<clients, conn, pool, io, REQ, wakeup, up>>

NotifyLock(w) ==
  /\ worker[w].pc = "notify" /\ notify_lock = NULL
  /\ notify_lock' = w
  /\ worker' = [worker EXCEPT ![w].pc = "write"]
  /\ UNCHANGED <<clients, conn, pool, io, REQ, RSP, pipe, up>>

\* Wrong: a byte that finds the pipe full is lost.
NotifyWrite_Drops(w) ==
  /\ worker[w].pc = "write"
  /\ pipe' = IF pipe < PipeCap THEN pipe + 1 ELSE pipe
  /\ notify_lock' = NULL
  /\ worker' = [worker EXCEPT ![w].pc = "pop"]
  /\ UNCHANGED <<clients, conn, pool, io, REQ, RSP, up>>

\* The write blocks while the pipe is full.
NotifyWrite(w) ==
  /\ worker[w].pc = "write" /\ pipe < PipeCap
  /\ pipe' = pipe + 1 /\ notify_lock' = NULL
  /\ worker' = [worker EXCEPT ![w].pc = "pop"]
  /\ UNCHANGED <<clients, conn, pool, io, REQ, RSP, up>>

-----------------------------------------------------------------------------
WorkerStep(w) ==
  \/ cq_pop(w) \/ Work(w) \/ WorkTimeout(w) \/ WorkDrop(w)
  \/ PushRsp(w) \/ NotifyLock(w) \/ NotifyWrite(w)

drive_machine(c) ==
  \/ AnswerHere(c) \/ CannotForward(c) \/ Forward(c) \/ Consume(c)
  \/ GetsHeader(c) \/ Quit(c) \/ Stop(c)
  \/ ReadData(c) \/ ReadNoMemory(c) \/ ReadEnd(c) \/ ReadAgain(c)
  \/ WriteDone(c) \/ WriteSome(c) \/ WriteAgain(c) \/ WriteError(c)
  \/ conn_close(c)

\* Every thread waits for clients.
Idle ==
  /\ io.pc = "loop" /\ pipe = 0
  /\ \A w \in Worker : worker[w].pc = "wait"
  /\ \A c \in Conn : ~Ready(c)

\* The process has ended, or its threads are idle.
Quiet == (up => Idle) /\ UNCHANGED vars

Next ==
  \/ up /\ \/ \E c \in Conn, k \in AllKinds \cup Bodies : Send(c, k)
           \/ \E c \in Conn : HangUp(c) \/ Accept(c) \/ AcceptFail(c)
           \/ \E c \in Conn : event_handler(c) \/ drive_machine(c)
           \/ NotifyRead \/ NotifyPeek
           \/ \E w \in Worker : WorkerStep(w)
  \/ Quiet

Spec == Init /\ [][Next]_vars

\* Every thread keeps running, the event loop comes to what stays ready, and a
\* client goes on reading its replies: a socket that is writable again and again
\* takes bytes at last.
Fairness ==
  /\ WF_vars(\E c \in Conn : drive_machine(c))
  /\ \A c \in Conn : WF_vars(event_handler(c)) /\ SF_vars(WriteSome(c))
  /\ WF_vars(NotifyRead) /\ WF_vars(NotifyPeek)
  /\ \A w \in Worker : WF_vars(WorkerStep(w))

FairSpec == Spec /\ Fairness

-----------------------------------------------------------------------------
(* Properties *)

InLoop == {c \in Conn : Driving(c) \/ conn[c].event # "none"}
AtWorkers == {worker[w].c : w \in Worker} \ {NULL}
Places == <<InLoop, ToSet(REQ), AtWorkers, ToSet(RSP)>>

\* No connection is in the hands of two threads: it is in one place at most of
\* the event loop, REQ, a worker and RSP, once, and then it is open. The conn
\* structures have no lock, so nothing else keeps a worker that fills wbuf from
\* the I/O thread that moves rbuf, writes wbuf or closes the connection.
OneOwner ==
  /\ Linear(REQ) /\ Linear(RSP)
  /\ \A v, w \in Worker : worker[v].c = worker[w].c => v = w \/ worker[v].c = NULL
  /\ \A i, j \in DOMAIN Places : i # j => Places[i] \cap Places[j] = {}
  /\ \A i \in DOMAIN Places : Places[i] \subseteq Open

Held == UNION {Places[i] : i \in DOMAIN Places}

\* An open connection that nobody holds was dropped by a worker that found no
\* module for its gets. No error path of the I/O thread, no handover and no
\* full pipe loses one.
OnlyModuleMissLoses == \A c \in Open \ Held : conn[c].cmd.k = "gets_nomod"

\* docs/lushan_concepts.md:10: a worker thread hands the connection back to the
\* I/O thread when it has processed the request. Then no open connection is
\* without somebody who holds it.
AlwaysHandedBack == Open \subseteq Held

\* Bytes in the notify pipe, and those being written or just read, match the
\* connections in RSP one to one: the handler never reads a byte for nothing
\* and no connection waits in RSP without a byte to come.
NotifyBalance ==
  Len(RSP) = pipe + Cardinality({w \in Worker : worker[w].pc \in {"notify", "write"}})
                  + IF io.pc = "peek" THEN 1 ELSE 0

\* The statistics and the pool agree with the connections: every structure is
\* either open or kept once for reuse, and both counters count the listeners.
Accounting ==
  /\ curr_conns = Listeners + Cardinality(Open)
  /\ conn_structs = Listeners + Cardinality(structs)
  /\ Linear(freeconns) /\ Len(freeconns) <= freetotal
  /\ Open \cap ToSet(freeconns) = {} /\ Open \cup ToSet(freeconns) = structs

\* The facts above are inductive together with these: the I/O thread and the
\* workers hold a connection exactly where the code has one in hand, a request
\* given away is whole in its buffer until it is consumed, ev_flags says what
\* libevent has registered unless the connection is being closed, and the I/O
\* thread closes what it decides to close before anything else.
HandsFull ==
  /\ io.c # NULL <=> io.pc \in {"drive", "consume"}
  /\ io.pc = "consume" => HasCommand(io.c)
  /\ \A w \in Worker : worker[w].c # NULL <=> worker[w].pc \in {"work", "push"}

FlagsTrue ==
  \A c \in Conn :
    conn[c].state \in {"conn_read", "conn_write"} => conn[c].event = conn[c].ev_flags

ClosesAtOnce == \A c \in Conn : conn[c].state = "conn_closing" => Driving(c)

IInv ==
  /\ TypeOK /\ HandsFull /\ FlagsTrue /\ ClosesAtOnce
  /\ OneOwner /\ OnlyModuleMissLoses /\ NotifyBalance /\ Accounting

\* What is being written is the reply to the oldest request of this session
\* that is not answered: pipelined requests are answered in the order they were
\* sent, each once, and a reused structure never carries an old reply.
RepliesInOrder ==
  \A c \in Open : conn[c].state = "conn_write" =>
    conn[c].wbuf.s = conn[c].sess /\ conn[c].wbuf.n = conn[c].answered + 1

\* A request goes to the workers only when the reply before it is written out:
\* gets appends its reply at wbytes, and what was left there would come first.
CleanHandoff ==
  \A c \in ToSet(REQ) :
    /\ conn[c].wbytes = 0
    /\ conn[c].cmd.s = conn[c].sess /\ conn[c].cmd.n = conn[c].answered + 1

\* A connection that was dropped as OnlyModuleMissLoses says.
Dropped(c) == c \in Open \ Held /\ conn[c].cmd.k = "gets_nomod"

\* When no thread has anything to do, and clients need not come again, every
\* request sent in full is answered in full, on every connection that is open
\* and not dropped: none is left in a buffer, in a queue whose signal found no
\* waiter, behind a full pipe or behind a registration that was not made.
NothingStuck ==
  up /\ Idle => \A c \in Open : conn[c].answered >= client[c].sent \/ Dropped(c)

\* Every request a client has sent in full is answered in full, or its
\* connection is closed or dropped for want of a module, or the server is
\* stopped: a reply is never stuck behind a lost signal, a full pipe or a lost
\* event registration.
Answered ==
  \A c \in Conn, s \in 1 .. MaxSess, n \in 1 .. MaxReq :
    (c \in Open /\ conn[c].sess = s /\ client[c].sent >= n)
      ~> (\/ c \notin Open \/ conn[c].sess # s \/ conn[c].answered >= n
          \/ ~up \/ Dropped(c))
=============================================================================
