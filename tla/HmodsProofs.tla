---------------------------- MODULE HmodsProofs ----------------------------
(***************************************************************************)
(* A module a worker uses is mapped and open, and libraries are counted,   *)
(* for any number of modules and workers. The table's own invariant comes  *)
(* from HdbProofs: each step of Hmods is a step of Hdb or leaves it alone. *)
(***************************************************************************)
EXTENDS Hmods, HdbProofs, FiniteSetTheorems

LEMMA HmodsStepIsHdbStep == [HmodsNext]_hmodVars => [Next]_vars
BY DEF HmodsNext, HmodsWorker, hmods_mgr, ManagerWalks, hmod_close, Calloc, hmods_close,
       hmods_ref, hmods_deref, Dlopen, OpenFun, OpenError, hmods_reopen, Next, hdb_mgr, hmodVars

\* Modules are a table of the kind hdict.c has, whatever their libraries do.
THEOREM HmodsImplementsTable == HmodsSpec => Spec
<1>1. HmodsInit => Init BY DEF HmodsInit
<1> QED BY <1>1, HmodsStepIsHdbStep, PTL DEF HmodsSpec, Spec

Holding(l) == {h \in Handle : handle[h] /\ lib[h] = l}

\* What the loader and the structures of modules agree about.
LoaderInv ==
  /\ HmodsTypeOK
  /\ \A h \in Handle : handle[h] => h \in alive
  /\ \A h \in Handle : xdata[h] = "open" => handle[h]
  /\ \A h \in alive \ Opening : xdata[h] = "open"
  /\ \A l \in Lib : dl[l] = Cardinality(Holding(l))

LEMMA InitLoaderInv == HmodsInit => LoaderInv
<1> SUFFICES ASSUME HmodsInit PROVE LoaderInv OBVIOUS
<1>1. HmodsTypeOK BY DEF HmodsInit, HmodsTypeOK
<1>2. alive = {} BY DEF HmodsInit, Init
<1>3. \A l \in Lib : Holding(l) = {} BY DEF HmodsInit, Holding
<1>4. \A l \in Lib : dl[l] = Cardinality(Holding(l)) BY <1>3, FS_EmptySet DEF HmodsInit
<1> QED BY <1>1, <1>2, <1>4 DEF LoaderInv, HmodsInit

LEMMA HoldingFinite == \A l : IsFiniteSet(Holding(l)) /\ Cardinality(Holding(l)) \in Nat
<1>1. \A l : IsFiniteSet(Holding(l)) BY HmodsAssumption, FS_Subset DEF Holding
<1> QED BY <1>1, FS_CardinalityType

\* Steps of the table that allocate and free nothing leave the loader's
\* invariant alone when the workers that are opening stay the same.
LEMMA TableStep ==
  ASSUME LoaderInv, UNCHANGED <<loader, alive>>, Opening \subseteq Opening'
  PROVE  LoaderInv'
<1>1. lib' = lib /\ handle' = handle /\ xdata' = xdata /\ dl' = dl /\ alive' = alive
  BY DEF loader
<1>2. \A l \in Lib : Holding(l)' = Holding(l) BY <1>1 DEF Holding
<1> QED BY <1>1, <1>2 DEF LoaderInv, HmodsTypeOK

LEMMA CallocKeeps ==
  ASSUME IInv, LoaderInv, NEW w \in Worker, NEW id \in HdId, Calloc(w, id)
  PROVE  LoaderInv'
<1>1. PICK h \in Handle \ alive : /\ alive' = alive \cup {h}
                                  /\ hdict' = [hdict EXCEPT ![w] = h]
  BY DEF Calloc, HdictOpen
<1>2. /\ hdict \in [Worker -> Handle \cup {NULL}] /\ pc[w] = "ready"
      /\ pc \in [Worker -> {"ready", "opening", "using"}]
      /\ pc' = [pc EXCEPT ![w] = "opening"]
  BY DEF IInv, TypeOK, Calloc, HdictOpen
<1>3. PICK l \in Lib : lib' = [lib EXCEPT ![h] = l] BY <1>1, <1>2 DEF Calloc
<1>4. handle' = handle /\ xdata' = xdata /\ dl' = dl BY DEF Calloc
<1>5. ~handle[h] BY <1>1 DEF LoaderInv
<1>6. Opening \cup {h} \subseteq Opening' BY <1>1, <1>2 DEF Opening
<1>7. \A k \in Lib : Holding(k)' = Holding(k)
  BY <1>3, <1>4, <1>5 DEF Holding, LoaderInv, HmodsTypeOK
<1>8. HmodsTypeOK' BY <1>3, <1>4 DEF LoaderInv, HmodsTypeOK
<1>9. \A k \in Lib : dl'[k] = Cardinality(Holding(k)') BY <1>4, <1>7 DEF LoaderInv
<1> QED BY <1>1, <1>4, <1>6, <1>8, <1>9 DEF LoaderInv

LEMMA DlopenKeeps ==
  ASSUME IInv, LoaderInv, NEW w \in Worker, Dlopen(w)
  PROVE  LoaderInv'
<1>1. pc[w] = "opening" BY DEF Dlopen
<1>2. PICK h \in Handle : h = hdict[w] BY <1>1 DEF IInv, WorkersOK
<1>3. PICK l \in Lib : l = lib[h] BY DEF LoaderInv, HmodsTypeOK
<1>4. h \in alive BY <1>1, <1>2 DEF IInv, OwnedOnce, Opening
<1>5. h \in Opening BY <1>1, <1>2 DEF Opening
<1>6. /\ handle' = [handle EXCEPT ![h] = TRUE] /\ ~handle[h]
      /\ dl' = [dl EXCEPT ![l] = dl[l] + 1]
      /\ lib' = lib /\ xdata' = xdata /\ UNCHANGED vars
  BY <1>2, <1>3 DEF Dlopen
<1>7. alive' = alive /\ Opening' = Opening BY <1>6 DEF vars, threads, Opening
<1>8. Holding(l)' = Holding(l) \cup {h} /\ h \notin Holding(l)
  BY <1>3, <1>6 DEF Holding, LoaderInv, HmodsTypeOK
<1>9. \A k \in Lib : k # l => Holding(k)' = Holding(k)
  BY <1>3, <1>6 DEF Holding, LoaderInv, HmodsTypeOK
<1>10. Cardinality(Holding(l)') = Cardinality(Holding(l)) + 1
  BY <1>8, HoldingFinite, FS_AddElement
<1>11. \A k \in Lib : dl'[k] = Cardinality(Holding(k)')
  BY <1>6, <1>9, <1>10 DEF LoaderInv, HmodsTypeOK
<1>12. HmodsTypeOK' BY <1>6 DEF LoaderInv, HmodsTypeOK
<1>13. \A k \in Handle : handle'[k] => k \in alive'
  BY <1>4, <1>6, <1>7 DEF LoaderInv, HmodsTypeOK
<1>14. \A k \in Handle : xdata'[k] = "open" => handle'[k]
  BY <1>6 DEF LoaderInv, HmodsTypeOK
<1>15. \A k \in alive' \ Opening' : xdata'[k] = "open"
  BY <1>6, <1>7 DEF LoaderInv
<1> QED BY <1>11, <1>12, <1>13, <1>14, <1>15 DEF LoaderInv

\* Closing a module that is freed in the same step.
LEMMA UnloadKeeps ==
  ASSUME LoaderInv, NEW h \in Handle, Unload(h), alive' = alive \ {h},
         Opening \ {h} \subseteq Opening'
  PROVE  LoaderInv'
<1>1. /\ xdata' = [xdata EXCEPT ![h] = "none"] /\ handle' = [handle EXCEPT ![h] = FALSE]
      /\ dl' = [dl EXCEPT ![lib[h]] = IF handle[h] THEN dl[lib[h]] - 1 ELSE dl[lib[h]]]
      /\ lib' = lib
  BY DEF Unload
<1>2. lib[h] \in Lib /\ dl[lib[h]] = Cardinality(Holding(lib[h])) BY DEF LoaderInv, HmodsTypeOK
<1>3. Holding(lib[h])' = Holding(lib[h]) \ {h}
  BY <1>1 DEF Holding, LoaderInv, HmodsTypeOK
<1>4. \A k \in Lib : k # lib[h] => Holding(k)' = Holding(k)
  BY <1>1 DEF Holding, LoaderInv, HmodsTypeOK
<1>5. dl'[lib[h]] = Cardinality(Holding(lib[h])') /\ dl'[lib[h]] \in Nat
  <2>1. CASE handle[h]
    <3>1. h \in Holding(lib[h]) BY <2>1 DEF Holding
    <3>2. Cardinality(Holding(lib[h]) \ {h}) = Cardinality(Holding(lib[h])) - 1
      BY <3>1, HoldingFinite, FS_RemoveElement
    <3>3. Cardinality(Holding(lib[h]) \ {h}) \in Nat
      BY HoldingFinite, FS_Subset, FS_CardinalityType, <1>3
    <3> QED BY <1>1, <1>2, <1>3, <2>1, <3>2, <3>3 DEF LoaderInv, HmodsTypeOK
  <2>2. CASE ~handle[h]
    <3>1. Holding(lib[h]) \ {h} = Holding(lib[h]) BY <2>2 DEF Holding
    <3> QED BY <1>1, <1>2, <1>3, <2>2, <3>1, HoldingFinite DEF LoaderInv, HmodsTypeOK
  <2> QED BY <2>1, <2>2
<1>6. \A k \in Lib : dl'[k] = Cardinality(Holding(k)')
  BY <1>1, <1>2, <1>4, <1>5 DEF LoaderInv, HmodsTypeOK
<1>7. HmodsTypeOK'
  <2>1. dl' \in [Lib -> Nat] BY <1>1, <1>2, <1>5 DEF LoaderInv, HmodsTypeOK
  <2> QED BY <1>1, <2>1 DEF LoaderInv, HmodsTypeOK
<1>8. \A g \in Handle : handle'[g] => g \in alive' BY <1>1 DEF LoaderInv, HmodsTypeOK
<1>9. \A g \in Handle : xdata'[g] = "open" => handle'[g]
  BY <1>1 DEF LoaderInv, HmodsTypeOK
<1>10. \A g \in alive' \ Opening' : xdata'[g] = "open"
  BY <1>1 DEF LoaderInv, HmodsTypeOK
<1> QED BY <1>6, <1>7, <1>8, <1>9, <1>10 DEF LoaderInv

LEMMA NextLoaderInv == IInv /\ LoaderInv /\ [HmodsNext]_hmodVars => LoaderInv'
<1> SUFFICES ASSUME IInv, LoaderInv, [HmodsNext]_hmodVars PROVE LoaderInv' OBVIOUS
<1>1. CASE UNCHANGED hmodVars
  <2>1. UNCHANGED <<loader, alive>> /\ Opening' = Opening
    BY <1>1 DEF hmodVars, vars, threads, Opening
  <2> QED BY <2>1, TableStep
<1>2. ASSUME NEW w \in Worker, NEW id \in HdId, Calloc(w, id) PROVE LoaderInv'
  BY <1>2, CallocKeeps
<1>3. ASSUME NEW w \in Worker, NEW id \in HdId, hmods_close(w, id) PROVE LoaderInv'
  <2>1. UNCHANGED <<loader, alive>> /\ Opening' = Opening
    BY <1>3 DEF hmods_close, Close, CloseMiss, vars, threads, Opening
  <2> QED BY <2>1, TableStep
<1>4. ASSUME NEW w \in Worker, NEW id \in HdId, hmods_ref(w, id) PROVE LoaderInv'
  <2>1. UNCHANGED <<loader, alive>> BY <1>4 DEF hmods_ref, Ref, RefMiss, vars
  <2>2. Opening' = Opening
    <3>1. CASE RefMiss(w, id) BY <3>1 DEF RefMiss, vars, threads, Opening
    <3>2. CASE Ref(w, id)
      BY <3>2 DEF Ref, Opening, IInv, TypeOK
    <3> QED BY <1>4, <3>1, <3>2 DEF hmods_ref
  <2> QED BY <2>1, <2>2, TableStep
<1>5. ASSUME NEW w \in Worker, Dlopen(w) PROVE LoaderInv' BY <1>5, DlopenKeeps
<1>6. ASSUME NEW w \in Worker, OpenFun(w) PROVE LoaderInv'
  <2>1. /\ xdata' = [xdata EXCEPT ![hdict[w]] = "open"] /\ handle[hdict[w]]
        /\ lib' = lib /\ handle' = handle /\ dl' = dl /\ alive' = alive /\ Opening' = Opening
    BY <1>6 DEF OpenFun, vars, threads, Opening
  <2>2. \A l \in Lib : Holding(l)' = Holding(l) BY <2>1 DEF Holding
  <2>3. HmodsTypeOK' BY <2>1 DEF LoaderInv, HmodsTypeOK
  <2>4. \A h \in Handle : xdata'[h] = "open" => handle'[h]
    BY <2>1 DEF LoaderInv, HmodsTypeOK
  <2>5. \A h \in alive' \ Opening' : xdata'[h] = "open"
    <3>1. hdict[w] \in Opening BY <1>6 DEF OpenFun, Opening
    <3> QED BY <2>1, <3>1 DEF LoaderInv
  <2>6. /\ \A h \in Handle : handle'[h] => h \in alive'
        /\ \A l \in Lib : dl'[l] = Cardinality(Holding(l)')
    BY <2>1, <2>2 DEF LoaderInv
  <2> QED BY <2>3, <2>4, <2>5, <2>6 DEF LoaderInv
<1>7. ASSUME NEW w \in Worker, OpenError(w) PROVE LoaderInv'
  <2>1. hdict[w] \in Handle BY <1>7 DEF OpenError, HdictOpenFail, IInv, WorkersOK
  <2>2. Opening \ {hdict[w]} \subseteq Opening'
    BY <1>7 DEF OpenError, HdictOpenFail, Opening, IInv, TypeOK
  <2> QED BY <1>7, <2>1, <2>2, UnloadKeeps DEF OpenError, HdictOpenFail
<1>8. ASSUME NEW w \in Worker, hmods_reopen(w) PROVE LoaderInv'
  <2>1. /\ UNCHANGED <<loader, alive>> /\ pc[w] = "opening" /\ xdata[hdict[w]] = "open"
        /\ hdict' = [hdict EXCEPT ![w] = NULL] /\ pc' = [pc EXCEPT ![w] = "ready"]
    BY <1>8 DEF hmods_reopen, hdb_reopen, Mount, Replace, MountAt
  <2>2. Opening \ {hdict[w]} \subseteq Opening'
    BY <2>1 DEF Opening, IInv, TypeOK
  <2>3. lib' = lib /\ handle' = handle /\ xdata' = xdata /\ dl' = dl /\ alive' = alive
    BY <2>1 DEF loader
  <2>4. \A l \in Lib : Holding(l)' = Holding(l) BY <2>3 DEF Holding
  <2> QED BY <2>1, <2>2, <2>3, <2>4 DEF LoaderInv, HmodsTypeOK
<1>9. ASSUME NEW w \in Worker, hmods_deref(w) PROVE LoaderInv'
  <2>1. UNCHANGED <<loader, alive>> BY <1>9 DEF hmods_deref, Deref
  <2>2. Opening' = Opening BY <1>9 DEF hmods_deref, Deref, Opening, IInv, TypeOK
  <2> QED BY <2>1, <2>2, TableStep
<1>10. CASE ManagerWalks
  <2>1. UNCHANGED <<loader, alive>> /\ Opening' = Opening
    BY <1>10 DEF ManagerWalks, MgrCheck, MgrLock, MgrTake, MgrSkip, MgrUnlock, MgrSleep,
                 threads, Opening
  <2> QED BY <2>1, TableStep
<1>11. CASE hmod_close
  <2>1. Head(hdicts) \in Handle BY <1>11 DEF hmod_close, HdictClose, IInv, TypeOK
  <2>2. alive' = alive \ {Head(hdicts)} /\ Opening' = Opening
    BY <1>11 DEF hmod_close, HdictClose, threads, Opening
  <2> QED BY <1>11, <2>1, <2>2, UnloadKeeps DEF hmod_close
<1> QED BY <1>1, <1>2, <1>3, <1>4, <1>5, <1>6, <1>7, <1>8, <1>9, <1>10, <1>11
        DEF HmodsNext, HmodsWorker, hmods_mgr

\* The loader's invariant, on top of the table's.
THEOREM LoaderInvariant == HmodsSpec => [](IInv /\ LoaderInv)
<1>1. HmodsSpec => []IInv BY HmodsImplementsTable, InductiveInvariant, PTL
<1> QED BY <1>1, InitLoaderInv, NextLoaderInv, PTL DEF HmodsSpec

\* The library a worker runs is mapped, and its data open.
THEOREM ModuleUsableHolds == HmodsSpec => []ModuleUsable
<1>1. ASSUME IInv, LoaderInv, NEW w \in Worker, pc[w] = "using"
      PROVE  xdata[hdict[w]] = "open" /\ dl[lib[hdict[w]]] > 0
  <2> DEFINE h == hdict[w]
  <2>1. h \in alive \ Opening BY <1>1 DEF IInv, WorkersOK, OwnedOnce
  <2>2. h \in Handle BY <1>1, <2>1 DEF IInv, TypeOK
  <2>3. xdata[h] = "open" /\ handle[h] BY <1>1, <2>1, <2>2 DEF LoaderInv
  <2>4. h \in Holding(lib[h]) BY <2>2, <2>3 DEF Holding
  <2>5. Cardinality(Holding(lib[h])) # 0 BY <2>4, HoldingFinite, FS_EmptySet
  <2>6. dl[lib[h]] = Cardinality(Holding(lib[h])) /\ dl[lib[h]] \in Nat
    BY <1>1, <2>2 DEF LoaderInv, HmodsTypeOK
  <2> QED BY <2>3, <2>5, <2>6
<1>2. IInv /\ LoaderInv => ModuleUsable BY <1>1 DEF ModuleUsable
<1> QED BY <1>2, LoaderInvariant, PTL

\* A library is mapped exactly while modules hold it.
THEOREM LibrariesCountedHolds == HmodsSpec => []LibrariesCounted
<1>1. LoaderInv => LibrariesCounted BY DEF LoaderInv, LibrariesCounted, Holding
<1> QED BY <1>1, LoaderInvariant, PTL
=============================================================================
