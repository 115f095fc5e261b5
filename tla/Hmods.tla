-------------------------------- MODULE Hmods --------------------------------
(***************************************************************************)
(* The table of modules (src/hmod.c). Its lists, chains, counts and        *)
(* manager are those of the table of dictionaries, function by function,   *)
(* so this module extends Hdb: a Handle is the address of a hmod_t, a HdId *)
(* a module number. What modules add is the library: hmod_open maps it and *)
(* calls its open function, workers run its code, hmod_close calls its     *)
(* close function and unmaps it. The loader maps a library once for all    *)
(* who have it open, and counts them.                                      *)
(***************************************************************************)
EXTENDS Hdb

CONSTANT Lib  \* files hmodule.so

ASSUME HmodsAssumption == IsFiniteSet(Handle)

VARIABLES
  lib,     \* the file each hmod_t is made from
  handle,  \* whether its field handle is set
  xdata,   \* what the open and close functions have made of its xdata
  dl       \* loader: file -> times it is open; it is mapped while not 0

loader == <<lib, handle, xdata, dl>>
hmodVars == <<vars, loader>>

HmodsTypeOK ==
  /\ lib \in [Handle -> Lib] /\ handle \in [Handle -> BOOLEAN]
  /\ xdata \in [Handle -> {"none", "open"}] /\ dl \in [Lib -> Nat]

HmodsInit ==
  /\ Init
  /\ lib \in [Handle -> Lib]
  /\ handle = [h \in Handle |-> FALSE]
  /\ xdata = [h \in Handle |-> "none"]
  /\ dl = [l \in Lib |-> 0]

-----------------------------------------------------------------------------
(* hmod_open, by a worker without the mutex *)

Calloc(w, id) ==
  /\ HdictOpen(w, id)
  /\ \E l \in Lib : lib' = [lib EXCEPT ![hdict'[w]] = l]
  /\ UNCHANGED <<handle, xdata, dl>>

\* Wrong: a library that is mapped already is not counted again.
Dlopen_CountsOnce(w) ==
  /\ pc[w] = "opening" /\ ~handle[hdict[w]]
  /\ handle' = [handle EXCEPT ![hdict[w]] = TRUE]
  /\ dl' = [dl EXCEPT ![lib[hdict[w]]] = 1]
  /\ UNCHANGED <<vars, lib, xdata>>

Dlopen(w) ==
  /\ pc[w] = "opening" /\ ~handle[hdict[w]]
  /\ handle' = [handle EXCEPT ![hdict[w]] = TRUE]
  /\ dl' = [dl EXCEPT ![lib[hdict[w]]] = @ + 1]
  /\ UNCHANGED <<vars, lib, xdata>>

\* The three symbols are there and the open function returns 0.
OpenFun(w) ==
  /\ pc[w] = "opening" /\ handle[hdict[w]] /\ xdata[hdict[w]] = "none"
  /\ xdata' = [xdata EXCEPT ![hdict[w]] = "open"]
  /\ UNCHANGED <<vars, lib, handle, dl>>

\* The close function is called, then dlclose.
Unload(h) ==
  /\ xdata' = [xdata EXCEPT ![h] = "none"]
  /\ handle' = [handle EXCEPT ![h] = FALSE]
  /\ dl' = [dl EXCEPT ![lib[h]] = IF handle[h] THEN @ - 1 ELSE @]
  /\ UNCHANGED lib

\* Wrong: hmod_open leaves the library mapped when it fails.
OpenError_StaysMapped(w) ==
  /\ HdictOpenFail(w)
  /\ handle' = [handle EXCEPT ![hdict[w]] = FALSE]
  /\ xdata' = [xdata EXCEPT ![hdict[w]] = "none"]
  /\ UNCHANGED <<lib, dl>>

\* At any of its calls hmod_open may go to error.
OpenError(w) ==
  /\ HdictOpenFail(w)
  /\ Unload(hdict[w])

hmods_reopen(w) ==
  /\ pc[w] = "opening" /\ xdata[hdict[w]] = "open"
  /\ hdb_reopen(w)
  /\ UNCHANGED loader

\* The table's other operations, and the manager's walk.
hmods_close(w, id) == (Close(w, id) \/ CloseMiss(w, id)) /\ UNCHANGED loader
hmods_ref(w, id) == (Ref(w, id) \/ RefMiss(w, id)) /\ UNCHANGED loader
hmods_deref(w) == Deref(w) /\ UNCHANGED loader

\* The manager's pass, and what it does to a module it has taken.
ManagerWalks ==
  /\ MgrCheck \/ MgrLock \/ MgrTake \/ MgrSkip \/ MgrUnlock \/ MgrSleep
  /\ UNCHANGED loader

hmod_close == HdictClose /\ Unload(Head(hdicts))

hmods_mgr == ManagerWalks \/ hmod_close

\* What a worker's command does besides running a module's code.
HmodsWorker(w) ==
  \/ \E id \in HdId : Calloc(w, id) \/ hmods_close(w, id) \/ hmods_ref(w, id)
  \/ Dlopen(w) \/ OpenError(w) \/ hmods_reopen(w)

HmodsNext ==
  hmods_mgr \/ \E w \in Worker : HmodsWorker(w) \/ OpenFun(w) \/ hmods_deref(w)

HmodsSpec == HmodsInit /\ [][HmodsNext]_hmodVars

-----------------------------------------------------------------------------
(* Correctness *)

\* A worker that runs a module's code finds the library mapped and what its
\* open function made, however often the module is replaced or closed and the
\* same library is opened again meanwhile: neither the manager, which closes
\* without the mutex, nor a hmod_open that fails takes them away.
ModuleUsable ==
  \A w \in Worker : pc[w] = "using" =>
    xdata[hdict[w]] = "open" /\ dl[lib[hdict[w]]] > 0

\* The loader's count is the number of modules that hold the library: none is
\* unmapped too early and none stays mapped when its last module is closed.
LibrariesCounted ==
  /\ \A l \in Lib : dl[l] = Cardinality({h \in Handle : handle[h] /\ lib[h] = l})
  /\ \A h \in Handle : handle[h] => h \in alive
=============================================================================
