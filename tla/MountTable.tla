----------------------------- MODULE MountTable -----------------------------
(***************************************************************************)
(* What the dictionary table promises its users, without lists, buckets,   *)
(* reference counts or a manager: each number has at most one mounted      *)
(* version; a reader pins the version mounted when it asks; a version that *)
(* is replaced or closed stays usable until its last reader lets go, is    *)
(* never mounted again, and is then reclaimed.                             *)
(***************************************************************************)
CONSTANTS HdId, Handle, Worker, NULL

VARIABLES
  mounted,  \* number -> its mounted version or NULL
  pinned,   \* reader -> the version it is using or NULL
  loading,  \* versions loaded and not mounted yet
  retired   \* versions that were mounted and are not any more

vars == <<mounted, pinned, loading, retired>>

Init ==
  /\ mounted = [id \in HdId |-> NULL]
  /\ pinned = [w \in Worker |-> NULL]
  /\ loading = {} /\ retired = {}

Live == loading \cup retired \cup {mounted[id] : id \in HdId}

Load(h) ==
  /\ h \notin Live
  /\ loading' = loading \cup {h}
  /\ UNCHANGED <<mounted, pinned, retired>>

Discard(h) ==
  /\ h \in loading
  /\ loading' = loading \ {h}
  /\ UNCHANGED <<mounted, pinned, retired>>

\* The version mounted before, if any, is retired in the same step.
Mount(id, h) ==
  /\ h \in loading
  /\ loading' = loading \ {h}
  /\ retired' = retired \cup ({mounted[id]} \ {NULL})
  /\ mounted' = [mounted EXCEPT ![id] = h]
  /\ UNCHANGED pinned

Unmount(id) ==
  /\ mounted[id] # NULL
  /\ retired' = retired \cup {mounted[id]}
  /\ mounted' = [mounted EXCEPT ![id] = NULL]
  /\ UNCHANGED <<pinned, loading>>

Pin(w, id) ==
  /\ pinned[w] = NULL /\ mounted[id] # NULL
  /\ pinned' = [pinned EXCEPT ![w] = mounted[id]]
  /\ UNCHANGED <<mounted, loading, retired>>

Unpin(w) ==
  /\ pinned[w] # NULL
  /\ pinned' = [pinned EXCEPT ![w] = NULL]
  /\ UNCHANGED <<mounted, loading, retired>>

Reclaim(h) ==
  /\ h \in retired
  /\ \A w \in Worker : pinned[w] # h
  /\ retired' = retired \ {h}
  /\ UNCHANGED <<mounted, pinned, loading>>

Next ==
  \/ \E h \in Handle : Load(h) \/ Discard(h) \/ Reclaim(h)
  \/ \E h \in Handle, id \in HdId : Mount(id, h)
  \/ \E id \in HdId : Unmount(id)
  \/ \E w \in Worker : Unpin(w)
  \/ \E w \in Worker, id \in HdId : Pin(w, id)

Spec == Init /\ [][Next]_vars

\* Unless readers pin for ever, every retired version is reclaimed.
FairSpec == Spec /\ \A h \in Handle : WF_vars(Reclaim(h))
=============================================================================
