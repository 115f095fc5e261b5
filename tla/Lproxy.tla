------------------------------- MODULE Lproxy -------------------------------
(***************************************************************************)
(* The module contrib/lproxy/lproxy.cc in the table of modules. Its        *)
(* xdata keeps a queue of connections to redis under a mutex. Each request *)
(* takes one, asks redis for its key in the database that has the number   *)
(* of the dictionary, gives the connection back, and asks the dictionary   *)
(* if redis has no answer. There is one key: what redis and the            *)
(* dictionaries hold of it is a set of numbers.                            *)
(*                                                                         *)
(* redis closes its connections when it restarts, and refuses new ones     *)
(* while it is away. A connection that met an error, or could not be made, *)
(* is unusable for good (hiredis).                                         *)
(***************************************************************************)
EXTENDS Hmods

CONSTANTS
  Ctx,         \* connections to redis
  Number,      \* dictionary numbers in requests
  Databases,   \* those that redis has a database for
  InRedis,     \* databases that hold the key
  Deleted,     \* those that hold the deleted flag instead of a value
  Restarts     \* bound: restarts of redis

ASSUME LproxyAssumption ==
  /\ 0 \in Number /\ Databases \subseteq Number /\ Number \subseteq Nat
  /\ Deleted \subseteq InRedis /\ InRedis \subseteq Databases
  /\ Restarts \in Nat /\ NULL \notin Ctx

VARIABLES
  pool,      \* module -> its queue redisContext_
  ctx,       \* state of each connection
  db,        \* the database redis has selected for it
  at,        \* where each worker is in hmodule_handle
  redis,     \* the connection it has taken
  want,      \* the number in its request
  answer,    \* what it has answered
  restarts,
  steady,    \* workers during whose request redis has neither restarted nor been away
  stale      \* workers whose connection was broken when they took it

request == <<at, redis, want, answer>>
proxyVars == <<pool, ctx, db, request, restarts, steady, stale>>
lproxyVars == <<hmodVars, proxyVars>>

NoAnswer == [from |-> "none", n |-> NULL]

LproxyTypeOK ==
  /\ pool \in [Handle -> Seq(Ctx)]
  /\ ctx \in [Ctx -> {"free", "ok", "broken"}]
  /\ db \in [Ctx -> Number]
  /\ at \in [Worker -> {"start", "select", "get", "put", "query", "done"}]
  /\ redis \in [Worker -> Ctx \cup {NULL}]
  /\ want \in [Worker -> Number \cup {NULL}]
  /\ restarts \in 0 .. Restarts
  /\ steady \subseteq Worker /\ stale \subseteq Worker

LproxyInit ==
  /\ HmodsInit
  /\ pool = [h \in Handle |-> <<>>]
  /\ ctx = [c \in Ctx |-> "free"] /\ db = [c \in Ctx |-> 0]
  /\ at = [w \in Worker |-> "start"]
  /\ redis = [w \in Worker |-> NULL] /\ want = [w \in Worker |-> NULL]
  /\ answer = [w \in Worker |-> NoAnswer]
  /\ restarts = 0 /\ steady = {} /\ stale = {}

Step(w, from, to) ==
  /\ at[w] = from /\ pc[w] = "using"
  /\ at' = [at EXCEPT ![w] = to]

-----------------------------------------------------------------------------
(* hmodule_handle *)

\* No key in the request, or no memory for a connection: no answer, and the
\* dictionary is not asked.
Refuse(w) ==
  /\ Step(w, "start", "done")
  /\ UNCHANGED <<hmodVars, pool, ctx, db, redis, want, answer, restarts, steady, stale>>

\* get_redis takes the oldest connection of the queue, or makes a new one. One
\* that cannot be connected comes with its error set, and nobody looks at it:
\* redis is away then.
get_redis(w, n) ==
  /\ Step(w, "start", "select")
  /\ want' = [want EXCEPT ![w] = n]
  /\ LET h == hdict[w]
     IN \/ /\ pool[h] # <<>>
           /\ redis' = [redis EXCEPT ![w] = Head(pool[h])]
           /\ pool' = [pool EXCEPT ![h] = Tail(@)]
           /\ steady' = steady \cup {w}
           /\ UNCHANGED <<ctx, db>>
        \/ /\ pool[h] = <<>>
           /\ \E c \in Ctx, state \in {"ok", "broken"} :
                /\ ctx[c] = "free"
                /\ redis' = [redis EXCEPT ![w] = c]
                /\ ctx' = [ctx EXCEPT ![c] = state]
                /\ db' = [db EXCEPT ![c] = 0]
                /\ steady' = IF state = "ok" THEN steady \cup {w} ELSE steady \ {w}
           /\ UNCHANGED pool
  /\ stale' = IF ctx'[redis'[w]] = "ok" THEN stale \ {w} ELSE stale \cup {w}
  /\ UNCHANGED <<hmodVars, answer, restarts>>

\* Wrong: the database is selected in new connections only.
Select_NewOnly(w) ==
  /\ at[w] = "select"
  /\ Step(w, "select", IF ctx[redis[w]] = "ok" THEN "get" ELSE "put")
  /\ IF ctx[redis[w]] = "ok" /\ db[redis[w]] = 0 /\ want[w] \in Databases
     THEN db' = [db EXCEPT ![redis[w]] = want[w]]
     ELSE UNCHANGED db
  /\ UNCHANGED <<hmodVars, pool, ctx, redis, want, answer, restarts, steady, stale>>

\* SELECT: a database that redis does not have is refused, and the one
\* selected before stays. Without a reply the connection is given back.
Select(w) ==
  /\ at[w] = "select"
  /\ Step(w, "select", IF ctx[redis[w]] = "ok" THEN "get" ELSE "put")
  /\ IF ctx[redis[w]] = "ok"
     THEN db' = [db EXCEPT ![redis[w]] = IF want[w] \in Databases THEN want[w] ELSE @]
     ELSE UNCHANGED db
  /\ UNCHANGED <<hmodVars, pool, ctx, redis, want, answer, restarts, steady, stale>>

\* Wrong: the deleted flag is looked up in the dictionary.
Get_DeletedFallsThrough(w) ==
  /\ Step(w, "get", "put")
  /\ answer' = IF ctx[redis[w]] = "ok" /\ db[redis[w]] \in InRedis \ Deleted
               THEN [answer EXCEPT ![w] = [from |-> "redis", n |-> db[redis[w]]]]
               ELSE answer
  /\ UNCHANGED <<hmodVars, pool, ctx, db, redis, want, restarts, steady, stale>>

\* The value redis has in database n is the deleted flag.
is_deleted(n) == n \in Deleted

\* GET in the selected database (0 in a new connection). The deleted flag is
\* answered with nothing.
Get(w) ==
  /\ Step(w, "get", "put")
  /\ LET n == db[redis[w]]
     IN answer' = IF ctx[redis[w]] # "ok" \/ n \notin InRedis THEN answer
                  ELSE [answer EXCEPT ![w] =
                         [from |-> IF is_deleted(n) THEN "deleted" ELSE "redis", n |-> n]]
  /\ UNCHANGED <<hmodVars, pool, ctx, db, redis, want, restarts, steady, stale>>

\* put_redis, whatever the connection has met.
put_redis(w) ==
  /\ Step(w, "put", IF answer[w] = NoAnswer THEN "query" ELSE "done")
  /\ pool' = [pool EXCEPT ![hdict[w]] = Append(@, redis[w])]
  /\ redis' = [redis EXCEPT ![w] = NULL]
  /\ UNCHANGED <<hmodVars, ctx, db, want, answer, restarts, steady, stale>>

\* hdb_query_ascii: a value found, or nothing.
Query(w) ==
  /\ Step(w, "query", "done")
  /\ \/ answer' = [answer EXCEPT ![w] = [from |-> "hdb", n |-> want[w]]]
     \/ UNCHANGED answer
  /\ UNCHANGED <<hmodVars, pool, ctx, db, redis, want, restarts, steady, stale>>

hmodule_handle(w) ==
  \/ Refuse(w) \/ (\E n \in Number : get_redis(w, n))
  \/ Select(w) \/ Get(w) \/ put_redis(w) \/ Query(w)

-----------------------------------------------------------------------------
(* The rest *)

\* The open function makes a context with an empty queue. What it lacks in
\* hmodule.conf, the deleted flag included, makes the open fail (OpenError).
hmodule_open(w) ==
  /\ OpenFun(w)
  /\ pool' = [pool EXCEPT ![hdict[w]] = <<>>]
  /\ UNCHANGED <<ctx, db, request, restarts, steady, stale>>

\* The worker that is done lets the module go.
Leave(w) ==
  /\ at[w] = "done"
  /\ hmods_deref(w)
  /\ at' = [at EXCEPT ![w] = "start"] /\ want' = [want EXCEPT ![w] = NULL]
  /\ answer' = [answer EXCEPT ![w] = NoAnswer]
  /\ steady' = steady \ {w} /\ stale' = stale \ {w}
  /\ UNCHANGED <<pool, ctx, db, redis, restarts>>

\* Wrong: the connections outlive the module.
CloseModule_Leaks ==
  /\ hmod_close
  /\ pool' = [pool EXCEPT ![Head(hdicts)] = <<>>]
  /\ UNCHANGED <<ctx, db, request, restarts, steady, stale>>

\* hmodule_close frees what is in the queue.
CloseModule ==
  /\ hmod_close
  /\ ctx' = [c \in Ctx |-> IF c \in Range(pool[Head(hdicts)]) THEN "free" ELSE ctx[c]]
  /\ pool' = [pool EXCEPT ![Head(hdicts)] = <<>>]
  /\ UNCHANGED <<db, request, restarts, steady, stale>>

\* Every connection is cut.
RedisRestart ==
  /\ restarts < Restarts
  /\ restarts' = restarts + 1
  /\ ctx' = [c \in Ctx |-> IF ctx[c] = "free" THEN "free" ELSE "broken"]
  /\ steady' = {}
  /\ UNCHANGED <<hmodVars, pool, db, request, stale>>

LproxyNext ==
  \/ \E w \in Worker : \/ HmodsWorker(w) /\ UNCHANGED proxyVars
                       \/ hmodule_open(w) \/ hmodule_handle(w) \/ Leave(w)
  \/ ManagerWalks /\ UNCHANGED proxyVars
  \/ CloseModule \/ RedisRestart

LproxySpec == LproxyInit /\ [][LproxyNext]_lproxyVars

-----------------------------------------------------------------------------
(* Correctness *)

\* A connection is used by one worker at a time, and is either in the queue of
\* one module that is still mounted or draining, once, or with one worker, or
\* freed: closing a module while its last requests finish loses none and frees
\* none in use.
ConnectionsOwned ==
  /\ \A h \in Handle : Linear(pool[h]) /\ (pool[h] # <<>> => xdata[h] = "open")
  /\ \A g, h \in Handle : g # h => Range(pool[g]) \cap Range(pool[h]) = {}
  /\ \A v, w \in Worker : redis[v] = redis[w] => v = w \/ redis[v] = NULL
  /\ \A w \in Worker, h \in Handle : redis[w] \notin Range(pool[h])
  /\ \A c \in Ctx : ctx[c] # "free" <=>
       (\E h \in Handle : c \in Range(pool[h])) \/ (\E w \in Worker : redis[w] = c)

\* An answer is for the number asked; only when redis refuses the number can it
\* come from another database, one that an earlier request left selected.
AnswersItsNumber ==
  \A w \in Worker : answer[w] # NoAnswer =>
    answer[w].n = want[w] \/ (want[w] \notin Databases /\ answer[w].from # "hdb")

\* A key that redis has, be it as deleted, is not answered from the dictionary
\* when the connection taken was good and redis stays up.
GoodConnectionFirst ==
  \A w \in steady \ stale : want[w] \in InRedis => answer[w].from # "hdb"

\* README.md:68: a request asks redis first and is answered from there if redis
\* has the key. Then none whose key redis holds, and that redis was up for all
\* the time, is answered from the dictionary.
RedisFirst ==
  \A w \in steady : want[w] \in InRedis => answer[w].from # "hdb"
=============================================================================
