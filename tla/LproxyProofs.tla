---------------------------- MODULE LproxyProofs ----------------------------
(***************************************************************************)
(* The redis proxy's connections and answers, for any number of modules,   *)
(* workers and connections. What the table and the loader promise comes    *)
(* from HmodsProofs: each step of Lproxy is a step of Hmods or leaves the  *)
(* modules alone.                                                          *)
(***************************************************************************)
EXTENDS Lproxy, HmodsProofs

LEMMA LproxyStepIsHmodsStep == [LproxyNext]_lproxyVars => [HmodsNext]_hmodVars
<1> SUFFICES ASSUME [LproxyNext]_lproxyVars PROVE [HmodsNext]_hmodVars OBVIOUS
<1>1. CASE UNCHANGED lproxyVars BY <1>1 DEF lproxyVars
<1>2. ASSUME NEW w \in Worker, HmodsWorker(w) PROVE HmodsNext BY <1>2 DEF HmodsNext
<1>3. ASSUME NEW w \in Worker, hmodule_handle(w) PROVE UNCHANGED hmodVars
  BY <1>3 DEF hmodule_handle, Refuse, get_redis, Select, Get, put_redis, Query
<1>4. ASSUME NEW w \in Worker, Leave(w) PROVE HmodsNext BY <1>4 DEF Leave, HmodsNext
<1>5. CASE ManagerWalks BY <1>5 DEF HmodsNext, hmods_mgr
<1>6. CASE CloseModule BY <1>6 DEF CloseModule, HmodsNext, hmods_mgr
<1>7. CASE RedisRestart BY <1>7 DEF RedisRestart
<1>8. ASSUME NEW w \in Worker, hmodule_open(w) PROVE HmodsNext
  BY <1>8 DEF hmodule_open, HmodsNext
<1> QED BY <1>1, <1>2, <1>3, <1>4, <1>5, <1>6, <1>7, <1>8 DEF LproxyNext

\* The proxy does nothing to the modules that the server does not do.
THEOREM LproxyImplementsHmods == LproxySpec => HmodsSpec
<1>1. LproxyInit => HmodsInit BY DEF LproxyInit
<1> QED BY <1>1, LproxyStepIsHmodsStep, PTL DEF LproxySpec, HmodsSpec

-----------------------------------------------------------------------------
(* The invariant *)

\* Modules that are mounted or draining: opened, and not freed yet.
Live == alive \ Opening

Answer == [from : {"none", "redis", "deleted", "hdb"}, n : Number \cup {NULL}]

\* Where a worker is in hmodule_handle, and what it has then.
ControlInv ==
  /\ LproxyTypeOK /\ answer \in [Worker -> Answer]
  /\ \A w \in Worker :
       /\ pc[w] # "using" => at[w] = "start"
       /\ redis[w] # NULL <=> at[w] \in {"select", "get", "put"}
       /\ at[w] \in {"start", "select", "get", "query"} => answer[w] = NoAnswer
       /\ at[w] \in {"select", "get", "put", "query"} => want[w] \in Number

Owned(p, r, x) ==
  /\ \A h \in Handle : Linear(p[h])
  /\ \A g, h \in Handle : g # h => Range(p[g]) \cap Range(p[h]) = {}
  /\ \A v, w \in Worker : r[v] = r[w] => v = w \/ r[v] = NULL
  /\ \A w \in Worker, h \in Handle : r[w] \notin Range(p[h])
  /\ \A c \in Ctx : x[c] # "free" <=>
       (\E h \in Handle : c \in Range(p[h])) \/ (\E w \in Worker : r[w] = c)

OwnedInv ==
  /\ Owned(pool, redis, ctx)
  /\ \A h \in Handle : pool[h] # <<>> => h \in Live

\* What a worker knows of the database selected and of the connection's state.
AnswerInv ==
  /\ \A w \in Worker : at[w] = "get" => db[redis[w]] = want[w] \/ want[w] \notin Databases
  /\ AnswersItsNumber
  /\ \A w \in steady \ stale :
       /\ at[w] \in {"select", "get"} => ctx[redis[w]] = "ok"
       /\ want[w] \in InRedis =>
            /\ answer[w].from # "hdb" /\ at[w] # "query"
            /\ at[w] = "put" => answer[w] # NoAnswer

ProxyInv == ControlInv /\ OwnedInv /\ AnswerInv

LEMMA InitProxyInv == LproxyInit => ProxyInv
<1> SUFFICES ASSUME LproxyInit PROVE ProxyInv OBVIOUS
<1> USE LproxyAssumption DEF LproxyInit
<1>1. \A h \in Handle : pool[h] = <<>> /\ Linear(pool[h]) /\ Range(pool[h]) = {}
  BY DEF Linear, Range
<1>2. OwnedInv BY <1>1 DEF OwnedInv, Owned
<1>3. ControlInv
  <2>1. NoAnswer \in Answer BY DEF NoAnswer, Answer
  <2>2. LproxyTypeOK BY DEF LproxyTypeOK
  <2> QED BY <2>1, <2>2 DEF ControlInv
<1>4. AnswerInv BY DEF AnswerInv, AnswersItsNumber
<1> QED BY <1>2, <1>3, <1>4 DEF ProxyInv

-----------------------------------------------------------------------------
(* Steps of the table of modules *)

LEMMA TableStepProxy ==
  ASSUME ProxyInv, UNCHANGED proxyVars, Live \subseteq Live',
         \A w \in Worker : pc[w] = "using" => pc'[w] = "using"
  PROVE  ProxyInv'
<1> USE DEF proxyVars, request
<1>1. ControlInv' BY DEF ProxyInv, ControlInv, LproxyTypeOK
<1>2. OwnedInv' BY DEF ProxyInv, OwnedInv, Owned
<1>3. AnswerInv' BY DEF ProxyInv, AnswerInv, AnswersItsNumber
<1> QED BY <1>1, <1>2, <1>3 DEF ProxyInv

LEMMA TableLive ==
  ASSUME IInv, NEW w \in Worker, HmodsWorker(w)
  PROVE  /\ Live \subseteq Live'
         /\ \A v \in Worker : pc[v] = "using" => pc'[v] = "using"
<1>1. /\ hdict \in [Worker -> Handle \cup {NULL}]
      /\ pc \in [Worker -> {"ready", "opening", "using"}]
  BY DEF IInv, TypeOK
<1>2. ASSUME NEW id \in HdId, Calloc(w, id)
      PROVE  Live \subseteq Live' /\ \A v \in Worker : pc[v] = "using" => pc'[v] = "using"
  <2>1. PICK h \in Handle \ alive : /\ alive' = alive \cup {h}
                                    /\ hdict' = [hdict EXCEPT ![w] = h]
    BY <1>2 DEF Calloc, HdictOpen
  <2>2. pc[w] = "ready" /\ pc' = [pc EXCEPT ![w] = "opening"]
    BY <1>2 DEF Calloc, HdictOpen
  <2>3. Opening' \subseteq Opening \cup {h} BY <1>1, <2>1, <2>2 DEF Opening
  <2> QED BY <1>1, <2>1, <2>2, <2>3 DEF Live
<1>3. ASSUME NEW id \in HdId, hmods_close(w, id)
      PROVE  Live \subseteq Live' /\ \A v \in Worker : pc[v] = "using" => pc'[v] = "using"
  <2>1. alive' = alive /\ pc' = pc /\ Opening' = Opening
    BY <1>3 DEF hmods_close, Close, CloseMiss, vars, threads, Opening
  <2> QED BY <2>1 DEF Live
<1>4. ASSUME NEW id \in HdId, hmods_ref(w, id)
      PROVE  Live \subseteq Live' /\ \A v \in Worker : pc[v] = "using" => pc'[v] = "using"
  <2>1. CASE RefMiss(w, id) BY <2>1 DEF RefMiss, vars, threads, Opening, Live
  <2>2. CASE Ref(w, id)
    <3>1. /\ pc[w] = "ready" /\ pc' = [pc EXCEPT ![w] = "using"] /\ alive' = alive
          /\ \A v \in Worker : v # w => hdict'[v] = hdict[v]
      BY <1>1, <2>2 DEF Ref
    <3>2. Opening' \subseteq Opening BY <1>1, <3>1 DEF Opening
    <3> QED BY <1>1, <3>1, <3>2 DEF Live
  <2> QED BY <1>4, <2>1, <2>2 DEF hmods_ref
<1>5. CASE Dlopen(w)
  BY <1>5 DEF Dlopen, vars, threads, Opening, Live
<1>6. CASE OpenError(w)
  <2>1. /\ pc[w] = "opening" /\ pc' = [pc EXCEPT ![w] = "ready"]
        /\ alive' = alive \ {hdict[w]} /\ hdict' = [hdict EXCEPT ![w] = NULL]
    BY <1>6 DEF OpenError, HdictOpenFail
  <2>2. Opening' \subseteq Opening /\ hdict[w] \in Opening BY <1>1, <2>1 DEF Opening
  <2> QED BY <1>1, <2>1, <2>2 DEF Live
<1>7. CASE hmods_reopen(w)
  <2>1. /\ pc[w] = "opening" /\ pc' = [pc EXCEPT ![w] = "ready"]
        /\ alive' = alive /\ hdict' = [hdict EXCEPT ![w] = NULL]
    BY <1>7 DEF hmods_reopen, hdb_reopen, Mount, Replace, MountAt
  <2>2. Opening' \subseteq Opening BY <1>1, <2>1 DEF Opening
  <2> QED BY <1>1, <2>1, <2>2 DEF Live
<1> QED BY <1>2, <1>3, <1>4, <1>5, <1>6, <1>7 DEF HmodsWorker

\* What hmodule_open makes is empty already: a module that was at the address
\* before has taken its connections with it.
LEMMA OpenKeeps ==
  ASSUME IInv, ProxyInv, NEW w \in Worker, hmodule_open(w)
  PROVE  ProxyInv'
<1>1. pc[w] = "opening" /\ UNCHANGED <<vars, ctx, db, request, restarts, steady, stale>>
  BY DEF hmodule_open, OpenFun
<1>2. hdict[w] \in Handle /\ hdict[w] \in Opening
  BY <1>1 DEF IInv, TypeOK, WorkersOK, OwnedOnce, Opening
<1>3. pool[hdict[w]] = <<>> BY <1>2 DEF ProxyInv, OwnedInv, Live
<1>4. pool' = pool
  BY <1>2, <1>3 DEF hmodule_open, ProxyInv, ControlInv, LproxyTypeOK
<1>5. Live' = Live /\ pc' = pc BY <1>1 DEF vars, threads, Live, Opening
<1> QED BY <1>1, <1>4, <1>5, TableStepProxy DEF proxyVars

\* A module in use is live: no request reaches a freed queue.
LEMMA UsingLive ==
  ASSUME IInv, NEW w \in Worker, pc[w] = "using"
  PROVE  hdict[w] \in Handle /\ hdict[w] \in Live
BY DEF IInv, TypeOK, WorkersOK, OwnedOnce, Live

-----------------------------------------------------------------------------
(* Steps of hmodule_handle that take and give back no connection *)

LEMMA AskingKeeps ==
  ASSUME ProxyInv, NEW w \in Worker, Refuse(w) \/ Select(w) \/ Get(w) \/ Query(w)
  PROVE  ProxyInv'
<1> USE LproxyAssumption
<1>1. /\ at \in [Worker -> {"start", "select", "get", "put", "query", "done"}]
      /\ db \in [Ctx -> Number] /\ answer \in [Worker -> Answer]
      /\ redis \in [Worker -> Ctx \cup {NULL}] /\ want \in [Worker -> Number \cup {NULL}]
  BY DEF ProxyInv, ControlInv, LproxyTypeOK
<1>2. pc[w] = "using" /\ UNCHANGED <<hmodVars, pool, ctx, redis, want, restarts, steady, stale>>
  BY DEF Refuse, Select, Get, Query, Step
<1>3. pc' = pc /\ Live' = Live BY <1>2 DEF hmodVars, vars, threads, Live, Opening
<1>4. OwnedInv' BY <1>2, <1>3 DEF ProxyInv, OwnedInv, Owned
<1>5. ASSUME db' \in [Ctx -> Number], answer' \in [Worker -> Answer],
             NEW to \in {"get", "put", "query", "done"}, at' = [at EXCEPT ![w] = to],
             redis[w] # NULL <=> to \in {"get", "put"},
             to \in {"get", "query"} => answer'[w] = NoAnswer,
             to \in {"get", "put", "query"} => want[w] \in Number,
             \A v \in Worker : v # w => answer'[v] = answer[v]
      PROVE  ControlInv'
  <2>1. LproxyTypeOK' BY <1>1, <1>2, <1>5 DEF ProxyInv, ControlInv, LproxyTypeOK
  <2>2. ASSUME NEW v \in Worker
        PROVE  /\ pc'[v] # "using" => at'[v] = "start"
               /\ redis'[v] # NULL <=> at'[v] \in {"select", "get", "put"}
               /\ at'[v] \in {"start", "select", "get", "query"} => answer'[v] = NoAnswer
               /\ at'[v] \in {"select", "get", "put", "query"} => want'[v] \in Number
    <3>1. CASE v = w BY <1>1, <1>2, <1>3, <1>5, <3>1
    <3>2. CASE v # w
      <4>1. at'[v] = at[v] /\ answer'[v] = answer[v] BY <1>1, <1>5, <3>2
      <4> QED BY <4>1, <1>2, <1>3 DEF ProxyInv, ControlInv
    <3> QED BY <3>1, <3>2
  <2> QED BY <2>1, <2>2, <1>5 DEF ControlInv
<1>6. CASE Refuse(w)
  <2>1. /\ at[w] = "start" /\ at' = [at EXCEPT ![w] = "done"] /\ db' = db /\ answer' = answer
    BY <1>6 DEF Refuse, Step
  <2>2. redis[w] = NULL BY <2>1 DEF ProxyInv, ControlInv
  <2>3. ControlInv' BY <1>1, <1>5, <2>1, <2>2
  <2>4. answer[w] = NoAnswer /\ NoAnswer.from # "hdb"
    BY <2>1 DEF ProxyInv, ControlInv, NoAnswer
  <2>5. AnswerInv' BY <1>1, <1>2, <2>1, <2>4 DEF ProxyInv, AnswerInv, AnswersItsNumber
  <2> QED BY <1>4, <2>3, <2>5 DEF ProxyInv
<1>7. CASE Select(w)
  <2> DEFINE to == IF ctx[redis[w]] = "ok" THEN "get" ELSE "put"
             n == IF want[w] \in Databases THEN want[w] ELSE db[redis[w]]
  <2>1. /\ at[w] = "select" /\ at' = [at EXCEPT ![w] = to] /\ answer' = answer
        /\ db' = IF ctx[redis[w]] = "ok" THEN [db EXCEPT ![redis[w]] = n] ELSE db
    BY <1>7 DEF Select, Step
  <2>2. redis[w] # NULL /\ answer[w] = NoAnswer /\ want[w] \in Number /\ redis[w] \in Ctx
    BY <1>1, <2>1 DEF ProxyInv, ControlInv
  <2>3. n \in Number BY <1>1, <2>2
  <2>4. db' \in [Ctx -> Number] BY <1>1, <2>1, <2>2, <2>3
  <2>5. ControlInv' BY <1>1, <1>5, <2>1, <2>2, <2>4
  <2>6. ASSUME NEW v \in Worker, at'[v] = "get"
        PROVE  db'[redis'[v]] = want'[v] \/ want'[v] \notin Databases
    <3>1. CASE v = w
      <4>1. ctx[redis[w]] = "ok" BY <1>1, <2>1, <2>6, <3>1
      <4>2. db'[redis[w]] = n BY <1>1, <2>1, <2>2, <4>1
      <4> QED BY <1>2, <3>1, <4>2
    <3>2. CASE v # w
      <4>1. at[v] = "get" BY <1>1, <2>1, <2>6, <3>2
      <4>2. redis[v] # NULL /\ redis[v] \in Ctx BY <1>1, <4>1 DEF ProxyInv, ControlInv
      <4>3. redis[v] # redis[w] BY <3>2, <4>2 DEF ProxyInv, OwnedInv, Owned
      <4>4. db'[redis[v]] = db[redis[v]] BY <1>1, <2>1, <2>2, <4>2, <4>3
      <4> QED BY <1>2, <4>1, <4>4 DEF ProxyInv, AnswerInv
    <3> QED BY <3>1, <3>2
  <2>7. ASSUME NEW v \in steady' \ stale', v \in Worker
        PROVE  /\ at'[v] \in {"select", "get"} => ctx'[redis'[v]] = "ok"
               /\ want'[v] \in InRedis =>
                    /\ answer'[v].from # "hdb" /\ at'[v] # "query"
                    /\ at'[v] = "put" => answer'[v] # NoAnswer
    <3>1. CASE v = w
      <4>1. ctx[redis[w]] = "ok" BY <1>2, <2>1, <2>7, <3>1 DEF ProxyInv, AnswerInv
      <4>2. at'[w] = "get" BY <1>1, <2>1, <4>1
      <4>3. NoAnswer.from # "hdb" BY DEF NoAnswer
      <4> QED BY <1>2, <2>1, <2>2, <3>1, <4>1, <4>2, <4>3
    <3>2. CASE v # w
      <4>1. at'[v] = at[v] BY <1>1, <2>1, <2>7, <3>2
      <4> QED BY <1>2, <2>1, <2>7, <4>1 DEF ProxyInv, AnswerInv
    <3> QED BY <3>1, <3>2
  <2>8. AnswersItsNumber' BY <1>2, <2>1 DEF ProxyInv, AnswerInv, AnswersItsNumber
  <2>9. steady' \subseteq Worker
    BY <1>2 DEF ProxyInv, ControlInv, LproxyTypeOK
  <2>10. AnswerInv' BY <2>6, <2>7, <2>8, <2>9 DEF AnswerInv
  <2> QED BY <1>4, <2>5, <2>10 DEF ProxyInv
<1>8. CASE Get(w)
  <2> DEFINE n == db[redis[w]]
             r == [from |-> IF n \in Deleted THEN "deleted" ELSE "redis", n |-> n]
  <2>1. /\ at[w] = "get" /\ at' = [at EXCEPT ![w] = "put"] /\ db' = db
        /\ answer' = IF ctx[redis[w]] # "ok" \/ n \notin InRedis THEN answer
                     ELSE [answer EXCEPT ![w] = r]
    BY <1>8 DEF Get, Step, is_deleted
  <2>2. redis[w] # NULL /\ answer[w] = NoAnswer /\ want[w] \in Number /\ redis[w] \in Ctx
    BY <1>1, <2>1 DEF ProxyInv, ControlInv
  <2>3. n \in Number BY <1>1, <2>2
  <2>4. n = want[w] \/ want[w] \notin Databases BY <2>1 DEF ProxyInv, AnswerInv
  <2> HIDE DEF n
  <2>5. r \in Answer /\ r.n = n /\ r.from # "hdb" /\ r # NoAnswer
    BY <2>3 DEF Answer, NoAnswer
  <2> HIDE DEF r
  <2>6. /\ answer' \in [Worker -> Answer] /\ (answer'[w] = NoAnswer \/ answer'[w] = r)
        /\ \A v \in Worker : v # w => answer'[v] = answer[v]
        /\ ctx[redis[w]] = "ok" /\ n \in InRedis => answer'[w] = r
    BY <1>1, <2>1, <2>2, <2>5
  <2>7. db' \in [Ctx -> Number] BY <1>1, <2>1
  <2>8. ControlInv' BY <1>5, <2>1, <2>2, <2>6, <2>7
  <2>9. \A v \in Worker : v # w => at'[v] = at[v] BY <1>1, <2>1
  <2>10. at'[w] = "put" BY <1>1, <2>1
  <2>11. \A v \in Worker : at'[v] = "get" => db'[redis'[v]] = want'[v] \/ want'[v] \notin Databases
    BY <1>2, <2>1, <2>9, <2>10 DEF ProxyInv, AnswerInv
  <2>12. AnswersItsNumber'
    <3> SUFFICES ASSUME NEW v \in Worker, answer'[v] # NoAnswer
                 PROVE  answer'[v].n = want'[v] \/ (want'[v] \notin Databases /\ answer'[v].from # "hdb")
      BY DEF AnswersItsNumber
    <3>1. CASE v = w BY <1>2, <2>4, <2>5, <2>6, <3>1
    <3>2. CASE v # w BY <1>2, <2>6, <3>2 DEF ProxyInv, AnswerInv, AnswersItsNumber
    <3> QED BY <3>1, <3>2
  <2>13. ASSUME NEW v \in steady' \ stale', v \in Worker
         PROVE  /\ at'[v] \in {"select", "get"} => ctx'[redis'[v]] = "ok"
                /\ want'[v] \in InRedis =>
                     /\ answer'[v].from # "hdb" /\ at'[v] # "query"
                     /\ at'[v] = "put" => answer'[v] # NoAnswer
    <3>1. CASE v = w
      <4>1. ctx[redis[w]] = "ok" BY <1>2, <2>1, <2>13, <3>1 DEF ProxyInv, AnswerInv
      <4>2. want[w] \in InRedis => answer'[w] = r BY <2>4, <2>6, <4>1
      <4> QED BY <1>2, <2>5, <2>10, <3>1, <4>2
    <3>2. CASE v # w BY <1>2, <2>6, <2>9, <2>13, <3>2 DEF ProxyInv, AnswerInv
    <3> QED BY <3>1, <3>2
  <2>14. steady' \subseteq Worker BY <1>2 DEF ProxyInv, ControlInv, LproxyTypeOK
  <2>15. AnswerInv' BY <2>11, <2>12, <2>13, <2>14 DEF AnswerInv
  <2> QED BY <1>4, <2>8, <2>15 DEF ProxyInv
<1>9. CASE Query(w)
  <2> DEFINE r == [from |-> "hdb", n |-> want[w]]
  <2>1. /\ at[w] = "query" /\ at' = [at EXCEPT ![w] = "done"] /\ db' = db
        /\ answer' = [answer EXCEPT ![w] = r] \/ answer' = answer
    BY <1>9 DEF Query, Step
  <2>2. redis[w] = NULL /\ answer[w] = NoAnswer /\ want[w] \in Number
    BY <1>1, <2>1 DEF ProxyInv, ControlInv
  <2>3. r \in Answer /\ r.n = want[w] BY <2>2 DEF Answer
  <2> HIDE DEF r
  <2>4. /\ answer' \in [Worker -> Answer] /\ (answer'[w] = NoAnswer \/ answer'[w] = r)
        /\ \A v \in Worker : v # w => answer'[v] = answer[v]
    BY <1>1, <2>1, <2>2, <2>3
  <2>5. db' \in [Ctx -> Number] BY <1>1, <2>1
  <2>6. ControlInv' BY <1>5, <2>1, <2>2, <2>4, <2>5
  <2>7. at'[w] = "done" /\ \A v \in Worker : v # w => at'[v] = at[v] BY <1>1, <2>1
  <2>8. \A v \in Worker : at'[v] = "get" => db'[redis'[v]] = want'[v] \/ want'[v] \notin Databases
    BY <1>2, <2>1, <2>7 DEF ProxyInv, AnswerInv
  <2>9. AnswersItsNumber'
    BY <1>2, <2>3, <2>4 DEF ProxyInv, AnswerInv, AnswersItsNumber
  <2>10. ASSUME NEW v \in steady' \ stale', v \in Worker
         PROVE  /\ at'[v] \in {"select", "get"} => ctx'[redis'[v]] = "ok"
                /\ want'[v] \in InRedis =>
                     /\ answer'[v].from # "hdb" /\ at'[v] # "query"
                     /\ at'[v] = "put" => answer'[v] # NoAnswer
    <3>1. CASE v = w
      <4>1. want[w] \notin InRedis BY <1>2, <2>1, <2>10, <3>1 DEF ProxyInv, AnswerInv
      <4> QED BY <1>2, <2>7, <3>1, <4>1
    <3>2. CASE v # w BY <1>2, <2>4, <2>7, <2>10, <3>2 DEF ProxyInv, AnswerInv
    <3> QED BY <3>1, <3>2
  <2>11. steady' \subseteq Worker BY <1>2 DEF ProxyInv, ControlInv, LproxyTypeOK
  <2>12. AnswerInv' BY <2>8, <2>9, <2>10, <2>11 DEF AnswerInv
  <2> QED BY <1>4, <2>6, <2>12 DEF ProxyInv
<1> QED BY <1>6, <1>7, <1>8, <1>9

-----------------------------------------------------------------------------
(* A connection changes hands *)

\* Worker w takes c, from the queue of h or new; nothing else gets it.
LEMMA TakeOwned ==
  ASSUME ProxyInv, NEW w \in Worker, redis[w] = NULL, NEW h \in Handle, NEW c \in Ctx,
         redis' = [redis EXCEPT ![w] = c],
         \/ /\ pool[h] # <<>> /\ c = Head(pool[h])
            /\ pool' = [pool EXCEPT ![h] = Tail(pool[h])] /\ ctx' = ctx
         \/ /\ ctx[c] = "free" /\ pool' = pool
            /\ \E state \in {"ok", "broken"} : ctx' = [ctx EXCEPT ![c] = state]
  PROVE  Owned(pool', redis', ctx')
<1> USE LproxyAssumption
<1>1. /\ pool \in [Handle -> Seq(Ctx)] /\ redis \in [Worker -> Ctx \cup {NULL}]
      /\ ctx \in [Ctx -> {"free", "ok", "broken"}] /\ Owned(pool, redis, ctx)
  BY DEF ProxyInv, ControlInv, LproxyTypeOK, OwnedInv
<1>2. redis'[w] = c /\ \A v \in Worker : v # w => redis'[v] = redis[v] BY <1>1
<1>3. \A v \in Worker : redis[v] # c
  <2>1. CASE c \in Range(pool[h]) BY <1>1, <2>1 DEF Owned
  <2>2. CASE ctx[c] = "free" BY <1>1, <2>2 DEF Owned
  <2>3. pool[h] # <<>> /\ c = Head(pool[h]) => c \in Range(pool[h])
    BY <1>1, TailRemoves DEF Owned
  <2> QED BY <2>1, <2>2, <2>3
<1>4. /\ \A g \in Handle : Linear(pool'[g]) /\ Range(pool'[g]) = Range(pool[g]) \ {c}
      /\ \A d \in Ctx : d # c => ctx'[d] = ctx[d]
      /\ ctx'[c] # "free"
  <2>1. CASE /\ pool[h] # <<>> /\ c = Head(pool[h])
             /\ pool' = [pool EXCEPT ![h] = Tail(pool[h])] /\ ctx' = ctx
    <3>1. /\ c \in Range(pool[h]) /\ Linear(Tail(pool[h]))
          /\ Range(Tail(pool[h])) = Range(pool[h]) \ {c}
      BY <1>1, <2>1, TailRemoves DEF Owned
    <3>2. \A g \in Handle : g # h => c \notin Range(pool[g]) BY <1>1, <3>1 DEF Owned
    <3>3. pool'[h] = Tail(pool[h]) /\ \A g \in Handle : g # h => pool'[g] = pool[g]
      BY <1>1, <2>1
    <3>4. ctx[c] # "free" BY <1>1, <3>1 DEF Owned
    <3>5. \A g \in Handle : Linear(pool'[g]) /\ Range(pool'[g]) = Range(pool[g]) \ {c}
      <4> TAKE g \in Handle
      <4>1. CASE g = h BY <3>1, <3>3, <4>1
      <4>2. CASE g # h BY <1>1, <3>2, <3>3, <4>2 DEF Owned
      <4> QED BY <4>1, <4>2
    <3> QED BY <2>1, <3>4, <3>5
  <2>2. ASSUME ctx[c] = "free", pool' = pool, NEW state \in {"ok", "broken"},
               ctx' = [ctx EXCEPT ![c] = state]
        PROVE  /\ \A g \in Handle : Linear(pool'[g]) /\ Range(pool'[g]) = Range(pool[g]) \ {c}
               /\ \A d \in Ctx : d # c => ctx'[d] = ctx[d]
               /\ ctx'[c] # "free"
    <3>1. \A g \in Handle : c \notin Range(pool[g]) /\ Linear(pool[g]) BY <1>1, <2>2 DEF Owned
    <3> QED BY <1>1, <2>2, <3>1
  <2> QED BY <2>1, <2>2
<1>5. \A g, k \in Handle : g # k => Range(pool'[g]) \cap Range(pool'[k]) = {}
  BY <1>1, <1>4 DEF Owned
<1>6. \A u, v \in Worker : redis'[u] = redis'[v] => u = v \/ redis'[u] = NULL
  BY <1>1, <1>2, <1>3 DEF Owned
<1>7. \A v \in Worker, g \in Handle : redis'[v] \notin Range(pool'[g])
  BY <1>1, <1>2, <1>4 DEF Owned
<1>8. ASSUME NEW d \in Ctx
      PROVE  ctx'[d] # "free" <=>
               (\E g \in Handle : d \in Range(pool'[g])) \/ (\E v \in Worker : redis'[v] = d)
  <2>1. CASE d = c BY <1>2, <1>4, <2>1
  <2>2. CASE d # c
    <3>1. \A g \in Handle : d \in Range(pool'[g]) <=> d \in Range(pool[g]) BY <1>4, <2>2
    <3>2. (\E v \in Worker : redis'[v] = d) <=> (\E v \in Worker : redis[v] = d)
      <4>1. d # NULL OBVIOUS
      <4> QED BY <1>2, <2>2, <4>1
    <3> QED BY <1>1, <1>4, <2>2, <3>1, <3>2 DEF Owned
  <2> QED BY <2>1, <2>2
<1> QED BY <1>4, <1>5, <1>6, <1>7, <1>8 DEF Owned

LEMMA get_redisKeeps ==
  ASSUME IInv, ProxyInv, NEW w \in Worker, NEW n \in Number, get_redis(w, n)
  PROVE  ProxyInv'
<1> USE LproxyAssumption
<1> DEFINE h == hdict[w]
<1>1. /\ at \in [Worker -> {"start", "select", "get", "put", "query", "done"}]
      /\ pool \in [Handle -> Seq(Ctx)] /\ ctx \in [Ctx -> {"free", "ok", "broken"}]
      /\ db \in [Ctx -> Number] /\ redis \in [Worker -> Ctx \cup {NULL}]
      /\ want \in [Worker -> Number \cup {NULL}] /\ steady \subseteq Worker /\ stale \subseteq Worker
  BY DEF ProxyInv, ControlInv, LproxyTypeOK
<1>2. /\ pc[w] = "using" /\ at[w] = "start" /\ at' = [at EXCEPT ![w] = "select"]
      /\ want' = [want EXCEPT ![w] = n] /\ UNCHANGED <<hmodVars, answer, restarts>>
      /\ steady' \in {steady \cup {w}, steady \ {w}}
      /\ stale' = IF ctx'[redis'[w]] = "ok" THEN stale \ {w} ELSE stale \cup {w}
  BY DEF get_redis, Step
<1>3. pc' = pc /\ Live' = Live BY <1>2 DEF hmodVars, vars, threads, Live, Opening
<1>4. redis[w] = NULL /\ answer[w] = NoAnswer BY <1>2 DEF ProxyInv, ControlInv
<1>5. h \in Handle BY <1>2, UsingLive
<1>6. PICK c \in Ctx :
        /\ redis' = [redis EXCEPT ![w] = c]
        /\ \/ /\ pool[h] # <<>> /\ c = Head(pool[h])
              /\ pool' = [pool EXCEPT ![h] = Tail(pool[h])] /\ ctx' = ctx /\ db' = db
           \/ /\ ctx[c] = "free" /\ pool' = pool
              /\ \E state \in {"ok", "broken"} : ctx' = [ctx EXCEPT ![c] = state]
              /\ db' = [db EXCEPT ![c] = 0]
  <2>1. CASE pool[h] # <<>>
    <3>1. Head(pool[h]) \in Ctx BY <1>1, <1>5, <2>1
    <3> QED BY <2>1, <3>1 DEF get_redis
  <2>2. CASE pool[h] = <<>> BY <2>2 DEF get_redis
  <2> QED BY <2>1, <2>2
<1>7. Owned(pool', redis', ctx') BY <1>4, <1>5, <1>6, TakeOwned
<1>8. /\ redis'[w] = c /\ at'[w] = "select" /\ want'[w] = n
      /\ \A v \in Worker : v # w => redis'[v] = redis[v] /\ at'[v] = at[v] /\ want'[v] = want[v]
  BY <1>1, <1>2, <1>6
<1>9. pool' \in [Handle -> Seq(Ctx)]
  <2>1. pool[h] # <<>> => Tail(pool[h]) \in Seq(Ctx) BY <1>1, <1>5
  <2> QED BY <1>1, <1>5, <1>6, <2>1
<1>10. \A g \in Handle : pool'[g] # <<>> => pool[g] # <<>> BY <1>1, <1>5, <1>6
<1>11. OwnedInv' BY <1>3, <1>7, <1>10 DEF OwnedInv, ProxyInv
<1>12. ControlInv'
  <2>0. ctx' \in [Ctx -> {"free", "ok", "broken"}]
    <3>1. ASSUME NEW state \in {"ok", "broken"}, ctx' = [ctx EXCEPT ![c] = state]
          PROVE  ctx' \in [Ctx -> {"free", "ok", "broken"}]
      BY <1>1, <3>1
    <3> QED BY <1>1, <1>6, <3>1
  <2>1. /\ ctx' \in [Ctx -> {"free", "ok", "broken"}] /\ db' \in [Ctx -> Number]
        /\ redis' \in [Worker -> Ctx \cup {NULL}] /\ want' \in [Worker -> Number \cup {NULL}]
        /\ at' \in [Worker -> {"start", "select", "get", "put", "query", "done"}]
    BY <1>1, <1>2, <1>6, <2>0
  <2>2. steady' \subseteq Worker /\ stale' \subseteq Worker BY <1>1, <1>2
  <2>3. LproxyTypeOK' BY <1>2, <1>9, <2>1, <2>2 DEF ProxyInv, ControlInv, LproxyTypeOK
  <2>4. ASSUME NEW v \in Worker
        PROVE  /\ pc'[v] # "using" => at'[v] = "start"
               /\ redis'[v] # NULL <=> at'[v] \in {"select", "get", "put"}
               /\ at'[v] \in {"start", "select", "get", "query"} => answer'[v] = NoAnswer
               /\ at'[v] \in {"select", "get", "put", "query"} => want'[v] \in Number
    <3>1. CASE v = w BY <1>2, <1>3, <1>4, <1>8, <3>1
    <3>2. CASE v # w BY <1>2, <1>3, <1>8, <3>2 DEF ProxyInv, ControlInv
    <3> QED BY <3>1, <3>2
  <2>5. answer' \in [Worker -> Answer] BY <1>2 DEF ProxyInv, ControlInv
  <2> QED BY <2>3, <2>4, <2>5 DEF ControlInv
<1>13. \A d \in Ctx : ctx[d] # "free" => ctx'[d] = ctx[d] /\ db'[d] = db[d]
  BY <1>1, <1>6
<1>14. \A v \in Worker : v # w /\ redis[v] # NULL =>
          redis[v] \in Ctx /\ ctx'[redis[v]] = ctx[redis[v]] /\ db'[redis[v]] = db[redis[v]]
  BY <1>1, <1>13 DEF ProxyInv, OwnedInv, Owned
<1>15. \A v \in Worker : at'[v] = "get" => db'[redis'[v]] = want'[v] \/ want'[v] \notin Databases
  <2> SUFFICES ASSUME NEW v \in Worker, at'[v] = "get"
               PROVE  db'[redis'[v]] = want'[v] \/ want'[v] \notin Databases
    OBVIOUS
  <2>1. v # w /\ at[v] = "get" BY <1>8
  <2>2. redis[v] # NULL BY <2>1 DEF ProxyInv, ControlInv
  <2> QED BY <1>8, <1>14, <2>1, <2>2 DEF ProxyInv, AnswerInv
<1>16. AnswersItsNumber'
  <2> SUFFICES ASSUME NEW v \in Worker, answer'[v] # NoAnswer
               PROVE  answer'[v].n = want'[v] \/ (want'[v] \notin Databases /\ answer'[v].from # "hdb")
    BY DEF AnswersItsNumber
  <2>1. v # w BY <1>2, <1>4
  <2> QED BY <1>2, <1>8, <2>1 DEF ProxyInv, AnswerInv, AnswersItsNumber
<1>17. ASSUME NEW v \in steady' \ stale'
       PROVE  /\ at'[v] \in {"select", "get"} => ctx'[redis'[v]] = "ok"
              /\ want'[v] \in InRedis =>
                   /\ answer'[v].from # "hdb" /\ at'[v] # "query"
                   /\ at'[v] = "put" => answer'[v] # NoAnswer
  <2>1. CASE v = w
    <3>1. ctx'[redis'[w]] = "ok" BY <1>2, <1>17, <2>1
    <3>2. NoAnswer.from # "hdb" BY DEF NoAnswer
    <3> QED BY <1>2, <1>4, <1>8, <2>1, <3>1, <3>2
  <2>2. CASE v # w
    <3>1. v \in steady \ stale /\ v \in Worker BY <1>1, <1>2, <1>17, <2>2
    <3>2. at[v] \in {"select", "get"} => ctx[redis[v]] = "ok" /\ redis[v] # NULL
      BY <3>1 DEF ProxyInv, AnswerInv, ControlInv
    <3>3. at'[v] \in {"select", "get"} => ctx'[redis'[v]] = "ok"
      BY <1>8, <1>14, <2>2, <3>1, <3>2
    <3>4. want[v] \in InRedis =>
            /\ answer[v].from # "hdb" /\ at[v] # "query"
            /\ at[v] = "put" => answer[v] # NoAnswer
      BY <3>1 DEF ProxyInv, AnswerInv
    <3> QED BY <1>2, <1>8, <2>2, <3>1, <3>3, <3>4
  <2> QED BY <2>1, <2>2
<1>18. AnswerInv' BY <1>15, <1>16, <1>17 DEF AnswerInv
<1> QED BY <1>11, <1>12, <1>18 DEF ProxyInv

LEMMA put_redisKeeps ==
  ASSUME IInv, ProxyInv, NEW w \in Worker, put_redis(w)
  PROVE  ProxyInv'
<1> USE LproxyAssumption
<1> DEFINE h == hdict[w]
           c == redis[w]
           to == IF answer[w] = NoAnswer THEN "query" ELSE "done"
<1>1. /\ at \in [Worker -> {"start", "select", "get", "put", "query", "done"}]
      /\ pool \in [Handle -> Seq(Ctx)] /\ ctx \in [Ctx -> {"free", "ok", "broken"}]
      /\ redis \in [Worker -> Ctx \cup {NULL}] /\ steady \subseteq Worker
  BY DEF ProxyInv, ControlInv, LproxyTypeOK
<1>2. /\ pc[w] = "using" /\ at[w] = "put" /\ at' = [at EXCEPT ![w] = to]
      /\ pool' = [pool EXCEPT ![h] = Append(pool[h], c)]
      /\ redis' = [redis EXCEPT ![w] = NULL]
      /\ UNCHANGED <<hmodVars, ctx, db, want, answer, restarts, steady, stale>>
  BY DEF put_redis, Step
<1>3. pc' = pc /\ Live' = Live BY <1>2 DEF hmodVars, vars, threads, Live, Opening
<1>4. c \in Ctx /\ c # NULL /\ want[w] \in Number BY <1>1, <1>2 DEF ProxyInv, ControlInv
<1>5. h \in Handle /\ h \in Live BY <1>2, UsingLive
<1>6. Owned(pool, redis, ctx) BY DEF ProxyInv, OwnedInv
<1> HIDE DEF c
<1>7. redis[w] = c BY DEF c
<1>8. \A g \in Handle : c \notin Range(pool[g]) BY <1>6, <1>7 DEF Owned
<1>9. /\ Append(pool[h], c) \in Seq(Ctx) /\ Linear(Append(pool[h], c))
      /\ Range(Append(pool[h], c)) = Range(pool[h]) \cup {c}
  BY <1>1, <1>4, <1>5, <1>6, <1>8, AppendLinks DEF Owned
<1>10. /\ pool'[h] = Append(pool[h], c) /\ \A g \in Handle : g # h => pool'[g] = pool[g]
       /\ redis'[w] = NULL /\ \A v \in Worker : v # w => redis'[v] = redis[v]
       /\ at'[w] = to /\ \A v \in Worker : v # w => at'[v] = at[v]
  BY <1>1, <1>2, <1>5
<1>11. Owned(pool', redis', ctx')
  <2>1. \A g \in Handle : Linear(pool'[g]) BY <1>6, <1>9, <1>10 DEF Owned
  <2>2. \A g, k \in Handle : g # k => Range(pool'[g]) \cap Range(pool'[k]) = {}
    <3> SUFFICES ASSUME NEW g \in Handle, NEW k \in Handle, g # k
                 PROVE  Range(pool'[g]) \cap Range(pool'[k]) = {}
      OBVIOUS
    <3>1. Range(pool[g]) \cap Range(pool[k]) = {} BY <1>6 DEF Owned
    <3>2. Range(pool'[g]) = Range(pool[g]) \/ (g = h /\ Range(pool'[g]) = Range(pool[g]) \cup {c})
      BY <1>9, <1>10
    <3>3. Range(pool'[k]) = Range(pool[k]) \/ (k = h /\ Range(pool'[k]) = Range(pool[k]) \cup {c})
      BY <1>9, <1>10
    <3>4. c \notin Range(pool[g]) /\ c \notin Range(pool[k]) BY <1>8
    <3> QED BY <3>1, <3>2, <3>3, <3>4
  <2>3. \A u, v \in Worker : redis'[u] = redis'[v] => u = v \/ redis'[u] = NULL
    BY <1>6, <1>10 DEF Owned
  <2>4. \A v \in Worker, g \in Handle : redis'[v] \notin Range(pool'[g])
    <3> TAKE v \in Worker, g \in Handle
    <3>1. CASE v = w
      <4>1. pool'[g] \in Seq(Ctx) BY <1>1, <1>9, <1>10
      <4>2. Range(pool'[g]) \subseteq Ctx BY <4>1, RangeAt
      <4> QED BY <1>10, <3>1, <4>2
    <3>2. CASE v # w
      <4>1. redis[v] # c \/ redis[v] = NULL BY <1>6, <1>7, <3>2 DEF Owned
      <4>2. redis[v] # c BY <1>4, <4>1
      <4>3. redis[v] \notin Range(pool[g]) /\ redis'[v] = redis[v]
        BY <1>6, <1>10, <3>2 DEF Owned
      <4>4. Range(pool'[g]) = Range(pool[g]) \/ Range(pool'[g]) = Range(pool[g]) \cup {c}
        BY <1>9, <1>10
      <4> QED BY <4>2, <4>3, <4>4
    <3> QED BY <3>1, <3>2
  <2>5. ASSUME NEW d \in Ctx
        PROVE  ctx'[d] # "free" <=>
                 (\E g \in Handle : d \in Range(pool'[g])) \/ (\E v \in Worker : redis'[v] = d)
    <3>1. CASE d = c
      <4>1. ctx[c] # "free" BY <1>4, <1>6, <1>7 DEF Owned
      <4>2. d \in Range(pool'[h]) BY <1>9, <1>10, <3>1
      <4> QED BY <1>2, <1>5, <3>1, <4>1, <4>2
    <3>2. CASE d # c
      <4>1. \A g \in Handle : d \in Range(pool'[g]) <=> d \in Range(pool[g])
        BY <1>9, <1>10, <3>2
      <4>2. (\E v \in Worker : redis'[v] = d) <=> (\E v \in Worker : redis[v] = d)
        <5>1. d # NULL OBVIOUS
        <5> QED BY <1>7, <1>10, <3>2, <5>1
      <4> QED BY <1>2, <1>6, <4>1, <4>2 DEF Owned
    <3> QED BY <3>1, <3>2
  <2> QED BY <2>1, <2>2, <2>3, <2>4, <2>5 DEF Owned
<1>12. OwnedInv'
  <2>1. \A g \in Handle : pool'[g] # <<>> => g \in Live
    BY <1>5, <1>10 DEF ProxyInv, OwnedInv
  <2> QED BY <1>3, <1>11, <2>1 DEF OwnedInv
<1>13. ControlInv'
  <2>1. /\ redis' \in [Worker -> Ctx \cup {NULL}]
        /\ at' \in [Worker -> {"start", "select", "get", "put", "query", "done"}]
        /\ pool' \in [Handle -> Seq(Ctx)]
    BY <1>1, <1>2, <1>9
  <2>2. LproxyTypeOK' BY <1>2, <2>1 DEF ProxyInv, ControlInv, LproxyTypeOK
  <2>3. ASSUME NEW v \in Worker
        PROVE  /\ pc'[v] # "using" => at'[v] = "start"
               /\ redis'[v] # NULL <=> at'[v] \in {"select", "get", "put"}
               /\ at'[v] \in {"start", "select", "get", "query"} => answer'[v] = NoAnswer
               /\ at'[v] \in {"select", "get", "put", "query"} => want'[v] \in Number
    <3>1. CASE v = w BY <1>2, <1>3, <1>4, <1>10, <3>1
    <3>2. CASE v # w BY <1>2, <1>3, <1>10, <3>2 DEF ProxyInv, ControlInv
    <3> QED BY <3>1, <3>2
  <2> QED BY <1>2, <2>2, <2>3 DEF ProxyInv, ControlInv
<1>14. AnswerInv'
  <2>1. \A v \in Worker : at'[v] = "get" => db'[redis'[v]] = want'[v] \/ want'[v] \notin Databases
    BY <1>2, <1>10 DEF ProxyInv, AnswerInv
  <2>2. AnswersItsNumber' BY <1>2 DEF ProxyInv, AnswerInv, AnswersItsNumber
  <2>3. ASSUME NEW v \in steady' \ stale'
        PROVE  /\ at'[v] \in {"select", "get"} => ctx'[redis'[v]] = "ok"
               /\ want'[v] \in InRedis =>
                    /\ answer'[v].from # "hdb" /\ at'[v] # "query"
                    /\ at'[v] = "put" => answer'[v] # NoAnswer
    <3>1. v \in steady \ stale /\ v \in Worker BY <1>1, <1>2, <2>3
    <3>2. CASE v = w
      <4>1. want[w] \in InRedis => answer[w].from # "hdb" /\ answer[w] # NoAnswer
        BY <1>2, <3>1, <3>2 DEF ProxyInv, AnswerInv
      <4> QED BY <1>2, <1>10, <3>2, <4>1
    <3>3. CASE v # w BY <1>2, <1>10, <3>1, <3>3 DEF ProxyInv, AnswerInv
    <3> QED BY <3>2, <3>3
  <2> QED BY <2>1, <2>2, <2>3 DEF AnswerInv
<1> QED BY <1>12, <1>13, <1>14 DEF ProxyInv

\* The worker leaves the module it is done with.
LEMMA LeaveKeeps ==
  ASSUME IInv, ProxyInv, NEW w \in Worker, Leave(w)
  PROVE  ProxyInv'
<1>1. /\ at \in [Worker -> {"start", "select", "get", "put", "query", "done"}]
      /\ want \in [Worker -> Number \cup {NULL}] /\ answer \in [Worker -> Answer]
      /\ steady \subseteq Worker /\ stale \subseteq Worker
      /\ pc \in [Worker -> {"ready", "opening", "using"}]
      /\ hdict \in [Worker -> Handle \cup {NULL}]
  BY DEF ProxyInv, ControlInv, LproxyTypeOK, IInv, TypeOK
<1>2. /\ at[w] = "done" /\ at' = [at EXCEPT ![w] = "start"] /\ want' = [want EXCEPT ![w] = NULL]
      /\ answer' = [answer EXCEPT ![w] = NoAnswer]
      /\ steady' = steady \ {w} /\ stale' = stale \ {w}
      /\ UNCHANGED <<pool, ctx, db, redis, restarts>>
      /\ pc[w] = "using" /\ pc' = [pc EXCEPT ![w] = "ready"] /\ alive' = alive
      /\ hdict' = [hdict EXCEPT ![w] = NULL]
  BY DEF Leave, hmods_deref, Deref
<1>3. Live' = Live
  <2>1. Opening' = Opening BY <1>1, <1>2 DEF Opening
  <2> QED BY <1>2, <2>1 DEF Live
<1>4. NoAnswer \in Answer BY DEF NoAnswer, Answer
<1>5. /\ at'[w] = "start" /\ want'[w] = NULL /\ answer'[w] = NoAnswer /\ redis[w] = NULL
      /\ \A v \in Worker : v # w =>
           at'[v] = at[v] /\ want'[v] = want[v] /\ answer'[v] = answer[v] /\ pc'[v] = pc[v]
  BY <1>1, <1>2 DEF ProxyInv, ControlInv
<1>6. OwnedInv' BY <1>2, <1>3 DEF ProxyInv, OwnedInv, Owned
<1>7. ControlInv'
  <2>1. /\ at' \in [Worker -> {"start", "select", "get", "put", "query", "done"}]
        /\ want' \in [Worker -> Number \cup {NULL}] /\ answer' \in [Worker -> Answer]
        /\ steady' \subseteq Worker /\ stale' \subseteq Worker
    BY <1>1, <1>2, <1>4
  <2>2. LproxyTypeOK' BY <1>2, <2>1 DEF ProxyInv, ControlInv, LproxyTypeOK
  <2>3. ASSUME NEW v \in Worker
        PROVE  /\ pc'[v] # "using" => at'[v] = "start"
               /\ redis'[v] # NULL <=> at'[v] \in {"select", "get", "put"}
               /\ at'[v] \in {"start", "select", "get", "query"} => answer'[v] = NoAnswer
               /\ at'[v] \in {"select", "get", "put", "query"} => want'[v] \in Number
    <3>1. CASE v = w BY <1>2, <1>5, <3>1
    <3>2. CASE v # w BY <1>2, <1>5, <3>2 DEF ProxyInv, ControlInv
    <3> QED BY <3>1, <3>2
  <2> QED BY <2>1, <2>2, <2>3 DEF ControlInv
<1>8. AnswerInv'
  <2>1. \A v \in Worker : at'[v] = "get" => db'[redis'[v]] = want'[v] \/ want'[v] \notin Databases
    BY <1>2, <1>5 DEF ProxyInv, AnswerInv
  <2>2. AnswersItsNumber' BY <1>5 DEF ProxyInv, AnswerInv, AnswersItsNumber
  <2>3. ASSUME NEW v \in steady' \ stale'
        PROVE  /\ at'[v] \in {"select", "get"} => ctx'[redis'[v]] = "ok"
               /\ want'[v] \in InRedis =>
                    /\ answer'[v].from # "hdb" /\ at'[v] # "query"
                    /\ at'[v] = "put" => answer'[v] # NoAnswer
    <3>1. v \in steady \ stale /\ v \in Worker /\ v # w BY <1>1, <1>2, <2>3
    <3> QED BY <1>2, <1>5, <3>1 DEF ProxyInv, AnswerInv
  <2> QED BY <2>1, <2>2, <2>3 DEF AnswerInv
<1> QED BY <1>6, <1>7, <1>8 DEF ProxyInv

\* The queue of a module that is closed holds nobody's connection but its own.
LEMMA CloseModuleKeeps == ASSUME IInv, ProxyInv, CloseModule PROVE ProxyInv'
<1> USE LproxyAssumption
<1> DEFINE h == Head(hdicts)
<1>1. /\ ctx' = [c \in Ctx |-> IF c \in Range(pool[h]) THEN "free" ELSE ctx[c]]
      /\ pool' = [pool EXCEPT ![h] = <<>>]
      /\ UNCHANGED <<db, at, redis, want, answer, restarts, steady, stale>>
      /\ alive' = alive \ {h} /\ Opening' = Opening /\ pc' = pc
  BY DEF CloseModule, hmod_close, HdictClose, threads, Opening, request
<1>2. h \in Handle BY DEF CloseModule, hmod_close, HdictClose, IInv, TypeOK
<1> HIDE DEF h
<1>3. /\ pool \in [Handle -> Seq(Ctx)] /\ ctx \in [Ctx -> {"free", "ok", "broken"}]
      /\ redis \in [Worker -> Ctx \cup {NULL}] /\ Owned(pool, redis, ctx)
      /\ steady \subseteq Worker
  BY DEF ProxyInv, ControlInv, LproxyTypeOK, OwnedInv
<1>4. /\ pool'[h] = <<>> /\ \A g \in Handle : g # h => pool'[g] = pool[g]
      /\ Range(<<>>) = {} /\ Linear(<<>>)
  <2>1. pool'[h] = <<>> BY <1>1, <1>2, <1>3
  <2>2. \A g \in Handle : g # h => pool'[g] = pool[g] BY <1>1, <1>3
  <2>3. Range(<<>>) = {} BY DEF Range
  <2>4. Linear(<<>>) BY DEF Linear
  <2>5. QED BY <2>1, <2>2, <2>3, <2>4
<1>5. /\ ctx' \in [Ctx -> {"free", "ok", "broken"}] /\ pool' \in [Handle -> Seq(Ctx)]
      /\ \A c \in Ctx : ctx'[c] = IF c \in Range(pool[h]) THEN "free" ELSE ctx[c]
  <2>1. \A c \in Ctx : ctx'[c] = IF c \in Range(pool[h]) THEN "free" ELSE ctx[c] BY <1>1
  <2>2. ctx' = [c \in Ctx |-> ctx'[c]] BY <1>1
  <2>3. \A c \in Ctx : ctx'[c] \in {"free", "ok", "broken"} BY <1>3, <2>1
  <2>4. ctx' \in [Ctx -> {"free", "ok", "broken"}] BY <2>2, <2>3
  <2>5. <<>> \in Seq(Ctx) OBVIOUS
  <2>6. pool' \in [Handle -> Seq(Ctx)] BY <1>1, <1>3, <2>5
  <2>7. QED BY <2>1, <2>4, <2>6
<1>6. Owned(pool', redis', ctx')
  <2>1. \A g \in Handle : Linear(pool'[g]) BY <1>3, <1>4 DEF Owned
  <2>2. \A g \in Handle : Range(pool'[g]) = IF g = h THEN {} ELSE Range(pool[g]) BY <1>4
  <2>3. \A g, k \in Handle : g # k => Range(pool'[g]) \cap Range(pool'[k]) = {}
    BY <1>3, <2>2 DEF Owned
  <2>4. \A v \in Worker, g \in Handle : redis'[v] \notin Range(pool'[g])
    BY <1>1, <1>3, <2>2 DEF Owned
  <2>5. ASSUME NEW d \in Ctx
        PROVE  ctx'[d] # "free" <=>
                 (\E g \in Handle : d \in Range(pool'[g])) \/ (\E v \in Worker : redis'[v] = d)
    <3>1. CASE d \in Range(pool[h])
      <4>1. \A g \in Handle : d \notin Range(pool'[g]) BY <1>2, <1>3, <2>2, <3>1 DEF Owned
      <4>2. \A v \in Worker : redis'[v] # d BY <1>1, <1>2, <1>3, <3>1 DEF Owned
      <4> QED BY <1>5, <3>1, <4>1, <4>2
    <3>2. CASE d \notin Range(pool[h])
      <4>1. \A g \in Handle : d \in Range(pool'[g]) <=> d \in Range(pool[g]) BY <2>2, <3>2
      <4> QED BY <1>1, <1>3, <1>5, <3>2, <4>1 DEF Owned
    <3> QED BY <3>1, <3>2
  <2> QED BY <1>1, <1>3, <2>1, <2>3, <2>4, <2>5 DEF Owned
<1>7. OwnedInv'
  <2>1. \A g \in Handle : pool'[g] # <<>> => g \in Live' 
    BY <1>1, <1>4 DEF ProxyInv, OwnedInv, Live
  <2> QED BY <1>6, <2>1 DEF OwnedInv
<1>8. ControlInv'
  <2>1. LproxyTypeOK' BY <1>1, <1>5 DEF ProxyInv, ControlInv, LproxyTypeOK
  <2> QED BY <1>1, <2>1 DEF ProxyInv, ControlInv
<1>9. AnswerInv'
  <2>1. AnswersItsNumber' BY <1>1 DEF ProxyInv, AnswerInv, AnswersItsNumber
  <2>2. ASSUME NEW v \in steady \ stale, at[v] \in {"select", "get"}
        PROVE  ctx'[redis[v]] = "ok"
    <3>1. v \in Worker /\ redis[v] # NULL BY <1>3, <2>2 DEF ProxyInv, ControlInv
    <3>2. redis[v] \in Ctx /\ redis[v] \notin Range(pool[h]) BY <1>2, <1>3, <3>1 DEF Owned
    <3> QED BY <1>5, <2>2, <3>2 DEF ProxyInv, AnswerInv
  <2> QED BY <1>1, <2>1, <2>2 DEF ProxyInv, AnswerInv
<1> QED BY <1>7, <1>8, <1>9 DEF ProxyInv

LEMMA RedisRestartKeeps == ASSUME ProxyInv, RedisRestart PROVE ProxyInv'
<1> USE LproxyAssumption
<1>1. /\ restarts < Restarts /\ restarts' = restarts + 1
      /\ ctx' = [c \in Ctx |-> IF ctx[c] = "free" THEN "free" ELSE "broken"]
      /\ steady' = {}
      /\ UNCHANGED <<hmodVars, pool, db, at, redis, want, answer, stale>>
  BY DEF RedisRestart, request
<1>2. pc' = pc /\ Live' = Live BY <1>1 DEF hmodVars, vars, threads, Live, Opening
<1>3. restarts \in 0 .. Restarts BY DEF ProxyInv, ControlInv, LproxyTypeOK
<1>4. restarts' \in 0 .. Restarts BY <1>1, <1>3
<1>5. /\ ctx' \in [Ctx -> {"free", "ok", "broken"}]
      /\ \A c \in Ctx : ctx'[c] # "free" <=> ctx[c] # "free"
  BY <1>1
<1>6. OwnedInv' BY <1>1, <1>2, <1>5 DEF ProxyInv, OwnedInv, Owned
<1>7. ControlInv'
  <2>1. LproxyTypeOK' BY <1>1, <1>4, <1>5 DEF ProxyInv, ControlInv, LproxyTypeOK
  <2> QED BY <1>1, <1>2, <2>1 DEF ProxyInv, ControlInv
<1>8. AnswerInv' BY <1>1 DEF ProxyInv, AnswerInv, AnswersItsNumber
<1> QED BY <1>6, <1>7, <1>8 DEF ProxyInv

LEMMA NextProxyInv == IInv /\ ProxyInv /\ [LproxyNext]_lproxyVars => ProxyInv'
<1> SUFFICES ASSUME IInv, ProxyInv, [LproxyNext]_lproxyVars PROVE ProxyInv' OBVIOUS
<1>1. CASE UNCHANGED lproxyVars
  <2>1. UNCHANGED proxyVars /\ Live' = Live /\ pc' = pc
    BY <1>1 DEF lproxyVars, hmodVars, vars, threads, Live, Opening
  <2> QED BY <2>1, TableStepProxy
<1>2. ASSUME NEW w \in Worker, HmodsWorker(w), UNCHANGED proxyVars PROVE ProxyInv'
  BY <1>2, TableLive, TableStepProxy
<1>3. ASSUME NEW w \in Worker, hmodule_handle(w) PROVE ProxyInv'
  BY <1>3, AskingKeeps, get_redisKeeps, put_redisKeeps DEF hmodule_handle
<1>4. ASSUME NEW w \in Worker, Leave(w) PROVE ProxyInv' BY <1>4, LeaveKeeps
<1>5. CASE ManagerWalks /\ UNCHANGED proxyVars
  <2>1. Live' = Live /\ pc' = pc
    BY <1>5 DEF ManagerWalks, MgrCheck, MgrLock, MgrTake, MgrSkip, MgrUnlock, MgrSleep,
                threads, Live, Opening
  <2> QED BY <1>5, <2>1, TableStepProxy
<1>6. CASE CloseModule BY <1>6, CloseModuleKeeps
<1>7. CASE RedisRestart BY <1>7, RedisRestartKeeps
<1>8. ASSUME NEW w \in Worker, hmodule_open(w) PROVE ProxyInv' BY <1>8, OpenKeeps
<1> QED BY <1>1, <1>2, <1>3, <1>4, <1>5, <1>6, <1>7, <1>8 DEF LproxyNext

\* The proxy's invariant, on top of the table's and the loader's.
THEOREM ProxyInvariant == LproxySpec => [](IInv /\ LoaderInv /\ ProxyInv)
<1>1. LproxySpec => [](IInv /\ LoaderInv) BY LproxyImplementsHmods, LoaderInvariant, PTL
<1>2. LproxyInit => ProxyInv BY InitProxyInv
<1>3. IInv /\ ProxyInv /\ [LproxyNext]_lproxyVars => ProxyInv' BY NextProxyInv
<1> QED BY <1>1, <1>2, <1>3, PTL DEF LproxySpec

-----------------------------------------------------------------------------
(* What the runs check *)

\* hmodule_handle runs mapped code with what hmodule_open made, under the proxy
\* as under any module.
THEOREM ProxyUsable == LproxySpec => []ModuleUsable
BY LproxyImplementsHmods, ModuleUsableHolds, PTL

\* The proxy's library is mapped exactly while modules made from it hold it.
THEOREM ProxyLibrariesCounted == LproxySpec => []LibrariesCounted
BY LproxyImplementsHmods, LibrariesCountedHolds, PTL

\* get_redis, put_redis and hmodule_close hand every connection to redis from
\* one owner to one owner; none is used twice, freed in use or lost.
THEOREM ConnectionsOwnedHolds == LproxySpec => []ConnectionsOwned
<1>1. IInv /\ LoaderInv /\ ProxyInv => ConnectionsOwned
  <2> SUFFICES ASSUME IInv, LoaderInv, ProxyInv PROVE ConnectionsOwned OBVIOUS
  <2>1. \A h \in Handle : pool[h] # <<>> => xdata[h] = "open"
    BY DEF ProxyInv, OwnedInv, Live, LoaderInv
  <2> QED BY <2>1 DEF ProxyInv, OwnedInv, Owned, ConnectionsOwned
<1> QED BY <1>1, ProxyInvariant, PTL

\* An answer belongs to the number the request named, unless redis refused the
\* SELECT of it (lproxy.cc:187).
THEOREM AnswersItsNumberHolds == LproxySpec => []AnswersItsNumber
<1>1. ProxyInv => AnswersItsNumber BY DEF ProxyInv, AnswerInv
<1> QED BY <1>1, ProxyInvariant, PTL

\* With a good connection and a redis that stays up, the dictionary does not
\* answer for a key that redis holds.
THEOREM GoodConnectionFirstHolds == LproxySpec => []GoodConnectionFirst
<1>1. ProxyInv => GoodConnectionFirst
  BY DEF ProxyInv, AnswerInv, GoodConnectionFirst
<1> QED BY <1>1, ProxyInvariant, PTL

\* The table under the proxy keeps what MountTable promises, whatever the
\* proxy, its library and redis do: three refinements in a row.
THEOREM ProxyKeepsTable == LproxySpec => KeepsTable
BY LproxyImplementsHmods, HmodsImplementsTable, ImplementsTableSafety, PTL
=============================================================================
