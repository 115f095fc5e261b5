-------------------------------- MODULE Hdb --------------------------------
(***************************************************************************)
(* The table of mounted dictionaries (src/hdict.c, the hdb functions):     *)
(* worker threads open, replace, close, reference and release              *)
(* dictionaries; one manager thread frees a retired dictionary once nobody *)
(* references it.                                                          *)
(*                                                                         *)
(* hdb->mutex is held by a worker only across straight-line code, so each  *)
(* of its critical sections is one step; the manager walks a list under    *)
(* the mutex and that walk is one step per element.                        *)
(***************************************************************************)
EXTENDS Integers, FiniteSets, Lists

CONSTANTS
  HdId,       \* dictionary numbers clients use
  Handle,     \* addresses a hdict_t may be allocated at
  Worker,     \* worker threads
  NULL,
  HTAB_SIZE,  \* buckets of the hash table (1024 in the code)
  BatchMax    \* dictionaries one manager pass may free (100 in the code)

ASSUME HdbAssumption ==
  /\ HdId \subseteq Nat
  /\ IsFiniteSet(Worker)
  /\ NULL \notin Handle
  /\ HTAB_SIZE \in Nat \ {0}
  /\ BatchMax \in Nat \ {0}

VARIABLES
  open_list,   \* mounted dictionaries, oldest first
  close_list,  \* retired dictionaries, oldest first
  num_open, num_close,
  htab,        \* bucket -> mounted dictionaries hashed there, newest first
  hdid, ref,   \* fields of the hdict_t at an address
  alive,       \* addresses that are allocated
  pc,          \* what each worker is doing
  hdict,       \* the dictionary each worker holds a pointer to
  arg,         \* the number a worker is opening a dictionary for
  mgr,         \* where the manager is
  next,        \* the manager's position in close_list
  hdicts       \* unlinked dictionaries the manager has still to free

lists == <<open_list, close_list, num_open, num_close>>
threads == <<pc, hdict, arg>>
manager == <<mgr, next, hdicts>>
vars == <<lists, htab, hdid, ref, alive, threads, manager>>

Bucket == 0 .. HTAB_SIZE - 1
HASH(id) == id % HTAB_SIZE

TypeOK ==
  /\ open_list \in Seq(Handle) /\ close_list \in Seq(Handle)
  /\ num_open \in Int /\ num_close \in Int
  /\ htab \in [Bucket -> Seq(Handle)]
  /\ hdid \in [Handle -> Nat] /\ ref \in [Handle -> Int]
  /\ alive \subseteq Handle
  /\ pc \in [Worker -> {"ready", "opening", "using"}]
  /\ hdict \in [Worker -> Handle \cup {NULL}]
  /\ arg \in [Worker -> HdId \cup {NULL}]
  /\ mgr \in {"check", "lock", "scan", "free"}
  /\ next \in Nat
  /\ hdicts \in Seq(Handle)

Init ==
  /\ open_list = <<>> /\ close_list = <<>>
  /\ num_open = 0 /\ num_close = 0
  /\ htab = [b \in Bucket |-> <<>>]
  /\ hdid = [h \in Handle |-> 0] /\ ref = [h \in Handle |-> 0]
  /\ alive = {}
  /\ pc = [w \in Worker |-> "ready"]
  /\ hdict = [w \in Worker |-> NULL]
  /\ arg = [w \in Worker |-> NULL]
  /\ mgr = "check" /\ next = 0 /\ hdicts = <<>>

MutexFree == mgr # "scan"

-----------------------------------------------------------------------------
(* Worker threads *)

\* The dictionary open_list's first entry numbered id.
FirstOpen(hd, id) ==
  \E i \in DOMAIN open_list :
    /\ open_list[i] = hd /\ hdid[hd] = id
    /\ \A j \in 1 .. i - 1 : hdid[open_list[j]] # id

\* Wrong: a mounted dictionary with the number is never found.
NotOpen_NeverLooks(id) == TRUE
NotOpen(id) == \A hd \in Range(open_list) : hdid[hd] # id

\* hdict_open succeeds so far: fresh, zeroed memory, filled without the mutex.
HdictOpen(w, id) ==
  /\ pc[w] = "ready"
  /\ \E h \in Handle \ alive :
       /\ alive' = alive \cup {h}
       /\ hdid' = [hdid EXCEPT ![h] = 0]
       /\ ref' = [ref EXCEPT ![h] = 0]
       /\ hdict' = [hdict EXCEPT ![w] = h]
  /\ arg' = [arg EXCEPT ![w] = id]
  /\ pc' = [pc EXCEPT ![w] = "opening"]
  /\ UNCHANGED <<lists, htab, manager>>

\* Wrong: a failed open frees nothing.
HdictOpenFail_Leaks(w) ==
  /\ pc[w] = "opening"
  /\ pc' = [pc EXCEPT ![w] = "ready"]
  /\ hdict' = [hdict EXCEPT ![w] = NULL]
  /\ arg' = [arg EXCEPT ![w] = NULL]
  /\ UNCHANGED <<lists, htab, hdid, ref, alive, manager>>

\* A file of the dictionary is missing or bad: hdict_open frees what it built.
HdictOpenFail(w) ==
  /\ pc[w] = "opening"
  /\ alive' = alive \ {hdict[w]}
  /\ pc' = [pc EXCEPT ![w] = "ready"]
  /\ hdict' = [hdict EXCEPT ![w] = NULL]
  /\ arg' = [arg EXCEPT ![w] = NULL]
  /\ UNCHANGED <<lists, htab, hdid, ref, manager>>

\* Wrong: the new dictionary is not hashed.
MountAt_NoInsert(w, chain) ==
  /\ hdid' = [hdid EXCEPT ![hdict[w]] = arg[w]]
  /\ htab' = [htab EXCEPT ![HASH(arg[w])] = chain]
  /\ pc' = [pc EXCEPT ![w] = "ready"]
  /\ hdict' = [hdict EXCEPT ![w] = NULL]
  /\ arg' = [arg EXCEPT ![w] = NULL]
  /\ UNCHANGED <<ref, alive, manager>>

\* The mounting half of hdb_reopen, common to a first open and a replacement:
\* chain is what the bucket holds once a replaced dictionary has left it.
MountAt(w, chain) ==
  /\ hdid' = [hdid EXCEPT ![hdict[w]] = arg[w]]
  /\ htab' = [htab EXCEPT ![HASH(arg[w])] = Cons(hdict[w], chain)]
  /\ pc' = [pc EXCEPT ![w] = "ready"]
  /\ hdict' = [hdict EXCEPT ![w] = NULL]
  /\ arg' = [arg EXCEPT ![w] = NULL]
  /\ UNCHANGED <<ref, alive, manager>>

Mount(w) ==
  /\ pc[w] = "opening" /\ MutexFree
  /\ NotOpen(arg[w])
  /\ open_list' = Append(open_list, hdict[w])
  /\ num_open' = num_open + 1
  /\ MountAt(w, htab[HASH(arg[w])])
  /\ UNCHANGED <<close_list, num_close>>

\* Wrong: a replacement counts as one more open dictionary.
Replace_CountsTwice(w) ==
  /\ pc[w] = "opening" /\ MutexFree
  /\ \E hd \in Range(open_list) :
       /\ FirstOpen(hd, arg[w])
       /\ open_list' = Append(Unlink(open_list, hd), hdict[w])
       /\ close_list' = Append(close_list, hd)
       /\ num_close' = num_close + 1
       /\ MountAt(w, Unlink(htab[HASH(arg[w])], hd))
  /\ num_open' = num_open + 1

\* Wrong: the dictionary that replaces another is not hashed.
Replace_NoInsert(w) ==
  /\ pc[w] = "opening" /\ MutexFree
  /\ \E hd \in Range(open_list) :
       /\ FirstOpen(hd, arg[w])
       /\ open_list' = Append(Unlink(open_list, hd), hdict[w])
       /\ close_list' = Append(close_list, hd)
       /\ num_close' = num_close + 1
       /\ MountAt_NoInsert(w, Unlink(htab[HASH(arg[w])], hd))
  /\ UNCHANGED num_open

Replace(w) ==
  /\ pc[w] = "opening" /\ MutexFree
  /\ \E hd \in Range(open_list) :
       /\ FirstOpen(hd, arg[w])
       /\ open_list' = Append(Unlink(open_list, hd), hdict[w])
       /\ close_list' = Append(close_list, hd)
       /\ num_close' = num_close + 1
       /\ MountAt(w, Unlink(htab[HASH(arg[w])], hd))
  /\ UNCHANGED num_open

\* Wrong: a closed dictionary can still be found.
Close_StaysHashed(w, id) ==
  /\ pc[w] = "ready" /\ MutexFree
  /\ \E hd \in Range(open_list) :
       /\ FirstOpen(hd, id)
       /\ open_list' = Unlink(open_list, hd)
       /\ close_list' = Append(close_list, hd)
  /\ num_open' = num_open - 1
  /\ num_close' = num_close + 1
  /\ UNCHANGED <<htab, hdid, ref, alive, threads, manager>>

Close(w, id) ==
  /\ pc[w] = "ready" /\ MutexFree
  /\ \E hd \in Range(open_list) :
       /\ FirstOpen(hd, id)
       /\ open_list' = Unlink(open_list, hd)
       /\ close_list' = Append(close_list, hd)
       /\ htab' = [htab EXCEPT ![HASH(id)] = Unlink(@, hd)]
  /\ num_open' = num_open - 1
  /\ num_close' = num_close + 1
  /\ UNCHANGED <<hdid, ref, alive, threads, manager>>

\* The first dictionary numbered id in its hash chain, as hdb_ref walks it.
FirstInChain(hd, id) ==
  LET chain == htab[HASH(id)]
  IN \E i \in DOMAIN chain :
       /\ chain[i] = hd /\ hdid[hd] = id
       /\ \A j \in 1 .. i - 1 : hdid[chain[j]] # id

NotInChain(id) == \A hd \in Range(htab[HASH(id)]) : hdid[hd] # id

Ref(w, id) ==
  /\ pc[w] = "ready" /\ MutexFree
  /\ \E hd \in Range(htab[HASH(id)]) :
       /\ FirstInChain(hd, id)
       /\ ref' = [ref EXCEPT ![hd] = @ + 1]
       /\ hdict' = [hdict EXCEPT ![w] = hd]
  /\ pc' = [pc EXCEPT ![w] = "using"]
  /\ UNCHANGED <<lists, htab, hdid, alive, arg, manager>>

RefMiss(w, id) ==
  /\ pc[w] = "ready" /\ MutexFree
  /\ NotInChain(id)
  /\ UNCHANGED vars

CloseMiss(w, id) ==
  /\ pc[w] = "ready" /\ MutexFree
  /\ NotOpen(id)
  /\ UNCHANGED vars

\* Wrong: the reference is never given back.
Deref_KeepsCount(w) ==
  /\ pc[w] = "using" /\ MutexFree
  /\ pc' = [pc EXCEPT ![w] = "ready"]
  /\ hdict' = [hdict EXCEPT ![w] = NULL]
  /\ UNCHANGED <<lists, htab, hdid, ref, alive, arg, manager>>

Deref(w) ==
  /\ pc[w] = "using" /\ MutexFree
  /\ ref' = [ref EXCEPT ![hdict[w]] = @ - 1]
  /\ pc' = [pc EXCEPT ![w] = "ready"]
  /\ hdict' = [hdict EXCEPT ![w] = NULL]
  /\ UNCHANGED <<lists, htab, hdid, alive, arg, manager>>

-----------------------------------------------------------------------------
(* The manager thread, hdb_mgr *)

\* TAILQ_FIRST(&hdb->close_list) read without the mutex.
MgrCheck ==
  /\ mgr = "check" /\ close_list # <<>>
  /\ mgr' = "lock"
  /\ UNCHANGED <<lists, htab, hdid, ref, alive, threads, next, hdicts>>

MgrLock ==
  /\ mgr = "lock"
  /\ mgr' = "scan" /\ next' = 1
  /\ UNCHANGED <<lists, htab, hdid, ref, alive, threads, hdicts>>

\* Wrong: readers are not looked for.
MgrTake_IgnoresRef ==
  /\ mgr = "scan" /\ next \in DOMAIN close_list
  /\ LET hd == close_list[next]
     IN /\ hdicts' = Append(hdicts, hd)
        /\ close_list' = Unlink(close_list, hd)
  /\ num_close' = num_close - 1
  /\ mgr' = IF Len(hdicts') = BatchMax THEN "free" ELSE "scan"
  /\ UNCHANGED <<open_list, num_open, htab, hdid, ref, alive, threads, next>>

\* Wrong: the array is not checked for being full.
MgrTake_NoLimit ==
  /\ mgr = "scan" /\ next \in DOMAIN close_list
  /\ LET hd == close_list[next]
     IN /\ ref[hd] = 0
        /\ hdicts' = Append(hdicts, hd)
        /\ close_list' = Unlink(close_list, hd)
  /\ num_close' = num_close - 1
  /\ UNCHANGED <<open_list, num_open, htab, hdid, ref, alive, threads, mgr, next>>

\* A retired dictionary nobody references leaves close_list for the batch.
MgrTake ==
  /\ mgr = "scan" /\ next \in DOMAIN close_list
  /\ LET hd == close_list[next]
     IN /\ ref[hd] = 0
        /\ hdicts' = Append(hdicts, hd)
        /\ close_list' = Unlink(close_list, hd)
  /\ num_close' = num_close - 1
  /\ mgr' = IF Len(hdicts') = BatchMax THEN "free" ELSE "scan"
  /\ UNCHANGED <<open_list, num_open, htab, hdid, ref, alive, threads, next>>

MgrSkip ==
  /\ mgr = "scan" /\ next \in DOMAIN close_list
  /\ ref[close_list[next]] # 0
  /\ next' = next + 1
  /\ UNCHANGED <<lists, htab, hdid, ref, alive, threads, mgr, hdicts>>

MgrUnlock ==
  /\ mgr = "scan" /\ next \notin DOMAIN close_list
  /\ mgr' = "free"
  /\ UNCHANGED <<lists, htab, hdid, ref, alive, threads, next, hdicts>>

\* hdict_close on the next dictionary of the batch, without the mutex.
HdictClose ==
  /\ mgr = "free" /\ hdicts # <<>>
  /\ alive' = alive \ {Head(hdicts)}
  /\ hdicts' = Tail(hdicts)
  /\ UNCHANGED <<lists, htab, hdid, ref, threads, mgr, next>>

MgrSleep ==
  /\ mgr = "free" /\ hdicts = <<>>
  /\ mgr' = "check"
  /\ UNCHANGED <<lists, htab, hdid, ref, alive, threads, next, hdicts>>

hdb_mgr ==
  \/ MgrCheck \/ MgrLock \/ MgrTake \/ MgrSkip \/ MgrUnlock
  \/ HdictClose \/ MgrSleep

hdb_reopen(w) == Mount(w) \/ Replace(w)

Next ==
  \/ \E w \in Worker, id \in HdId :
       \/ HdictOpen(w, id)
       \/ Close(w, id) \/ CloseMiss(w, id)
       \/ Ref(w, id) \/ RefMiss(w, id)
  \/ \E w \in Worker : HdictOpenFail(w) \/ hdb_reopen(w) \/ Deref(w)
  \/ hdb_mgr

Spec == Init /\ [][Next]_vars

\* A worker finishes the command it runs. The manager sleeps a second between
\* two passes with the mutex released, so a worker that waits for the mutex
\* gets it: strong fairness for the steps that take it.
Fairness ==
  /\ WF_vars(hdb_mgr)
  /\ \A w \in Worker : SF_vars(Deref(w)) /\ SF_vars(hdb_reopen(w))

FairSpec == Spec /\ Fairness

-----------------------------------------------------------------------------
(* Correctness *)

Retired == Range(close_list)
Opening == {hdict[w] : w \in {v \in Worker : pc[v] = "opening"}}
Holders(h) == {w \in Worker : pc[w] = "using" /\ hdict[w] = h}

\* No thread and no list reaches a dictionary whose memory has been freed:
\* hdb_mgr frees without the mutex while workers read without it.
NoUseAfterFree ==
  /\ \A w \in Worker : hdict[w] # NULL => hdict[w] \in alive
  /\ Range(open_list) \cup Range(close_list) \cup Range(hdicts) \subseteq alive
  /\ \A b \in Bucket : Range(htab[b]) \subseteq alive

\* The reference count of a dictionary in either list is the number of
\* workers between hdb_ref and hdb_deref on it.
RefExact ==
  \A h \in Range(open_list) \cup Range(close_list) :
    ref[h] = Cardinality(Holders(h))

\* Every allocated dictionary has exactly one owner: the open list, the close
\* list, the manager's batch, or the worker opening it. None is leaked, none
\* is freed twice.
OwnedOnce ==
  /\ Linear(open_list) /\ Linear(close_list) /\ Linear(hdicts)
  /\ Range(open_list) \cap Range(close_list) = {}
  /\ Range(hdicts) \cap (Range(open_list) \cup Range(close_list)) = {}
  /\ Opening \cap (Range(open_list) \cup Range(close_list) \cup Range(hdicts)) = {}
  /\ \A v, w \in Worker :
       pc[v] = "opening" /\ pc[w] = "opening" /\ hdict[v] = hdict[w] => v = w
  /\ alive = Opening \cup Range(open_list) \cup Range(close_list) \cup Range(hdicts)

\* A dictionary is in the open list exactly when it is in the chain its number
\* hashes to, and in no other: hdb_ref and hdb_close, which search different
\* structures, agree about what is mounted.
ChainsMatch ==
  \A b \in Bucket :
    /\ Linear(htab[b])
    /\ Range(htab[b]) = {h \in Range(open_list) : HASH(hdid[h]) = b}

\* However opens of the same number race, one dictionary per number is mounted.
OnePerId ==
  \A g, h \in Range(open_list) : hdid[g] = hdid[h] => g = h

\* The counters hdb_info's users read agree with the lists.
CountsExact == num_open = Len(open_list) /\ num_close = Len(close_list)

\* The manager's array of BatchMax pointers never overflows.
BatchFits == Len(hdicts) <= BatchMax

\* What a worker's pointer can refer to at each point of its command.
WorkersOK ==
  \A w \in Worker :
    /\ pc[w] = "ready" => hdict[w] = NULL
    /\ pc[w] = "opening" =>
         hdict[w] \in Handle /\ arg[w] \in HdId /\ ref[hdict[w]] = 0
    /\ pc[w] = "using" =>
         hdict[w] \in Range(open_list) \cup Range(close_list)

ManagerOK ==
  /\ mgr = "scan" => next \in Nat \ {0} /\ Len(hdicts) < BatchMax
  /\ mgr \in {"check", "lock"} => hdicts = <<>>
  /\ BatchFits

\* The inductive invariant: the table, the workers' pointers, the manager's
\* batch and the counts agree at every step of every thread.
IInv ==
  /\ TypeOK /\ WorkersOK /\ ManagerOK
  /\ OwnedOnce /\ ChainsMatch /\ OnePerId /\ RefExact /\ CountsExact

\* A retired dictionary only drains: it is not mounted again and no worker
\* that did not hold it gets hold of it.
RetiredOnlyDrains ==
  [][\A h \in Retired : h \notin Range(open_list') /\ ref'[h] <= ref[h]]_vars

\* Replacing a dictionary never makes its number unavailable: a number that
\* lookups found is lost only by a close of that number.
OnlyCloseUnmounts ==
  [][\A id \in HdId :
       ~NotInChain(id) /\ NotInChain(id)' => \E w \in Worker : Close(w, id)]_vars

\* Every replaced or closed dictionary is eventually freed, however many are
\* ahead of it and however much readers come and go.
RetiredFreed == \A h \in Handle : h \in Retired ~> h \notin alive

\* The table as its users see it.
Mounted(id) ==
  IF NotInChain(id) THEN NULL
  ELSE CHOOSE hd \in Range(htab[HASH(id)]) : FirstInChain(hd, id)

AllMounted == [id \in HdId |-> Mounted(id)]
AllPinned == [w \in Worker |-> IF pc[w] = "using" THEN hdict[w] ELSE NULL]
AllRetired == Range(close_list) \cup Range(hdicts)

Table == INSTANCE MountTable WITH
  mounted <- AllMounted, pinned <- AllPinned, loading <- Opening, retired <- AllRetired

\* hdict.c keeps what MountTable promises: replacing is atomic, a reader pins
\* what is mounted when it asks, nothing pinned is reclaimed, nothing retired
\* is mounted again.
KeepsTable == Table!Spec

\* The same, and every retired dictionary is reclaimed once it is not pinned.
ImplementsTable == Table!FairSpec
=============================================================================
