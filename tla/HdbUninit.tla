----------------------------- MODULE HdbUninit -----------------------------
(***************************************************************************)
(* hdb_init initialises a local array that shadows hdb->htab, and hdb is a *)
(* local variable of main: the heads of the chains hold whatever the stack *)
(* held. A chain of a bucket in Garbage ends in such a pointer instead of  *)
(* NULL; following it or writing through it may or may not fault.          *)
(***************************************************************************)
EXTENDS Hdb

CONSTANT Garbage  \* buckets whose uninitialised head is not NULL

VARIABLE crashed

\* hdb_ref runs off the end of the chain of id.
WalksOff(id) == HASH(id) \in Garbage /\ NotInChain(id)

\* LIST_INSERT_HEAD writes the back pointer of the head it replaces.
InsertsBeforeGarbage(id) == HASH(id) \in Garbage /\ htab[HASH(id)] = <<>>

\* LIST_REMOVE writes the back pointer of the successor of what it removes.
RemovesBeforeGarbage(id) ==
  /\ HASH(id) \in Garbage
  /\ htab[HASH(id)] # <<>> /\ FirstOpen(Last(htab[HASH(id)]), id)

Fault ==
  \/ \E w \in Worker, id \in HdId :
       \/ RefMiss(w, id) /\ WalksOff(id)
       \/ Close(w, id) /\ RemovesBeforeGarbage(id)
  \/ \E w \in Worker :
       \/ Mount(w) /\ InsertsBeforeGarbage(arg[w])
       \/ Replace(w) /\ RemovesBeforeGarbage(arg[w])

InitUninit == Init /\ crashed = FALSE

NextUninit ==
  /\ ~crashed
  /\ \/ Next /\ crashed' = FALSE
     \/ Fault /\ crashed' = TRUE

SpecUninit == InitUninit /\ [][NextUninit]_<<vars, crashed>>

\* Served without modules, the process does not crash: README.md says of the
\* key-value use that it runs for years and restarts only for module bugs.
Stable == ~crashed
=============================================================================
