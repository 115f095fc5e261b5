------------------------------ MODULE HdbProofs ------------------------------
(***************************************************************************)
(* Hdb for every set of numbers, addresses and workers, every table size   *)
(* and every batch size: its invariant is inductive, so no thread reaches  *)
(* a freed dictionary; and the lists, chains, reference counts and manager *)
(* of hdict.c implement MountTable: every step of Hdb is a step of         *)
(* MountTable or none.                                                     *)
(***************************************************************************)
EXTENDS Hdb, ListProofs, FiniteSetTheorems

USE HdbAssumption

\* Every number hashes to a bucket of the table.
LEMMA HashInBucket == \A id \in Nat : HASH(id) \in Bucket
  BY DEF HASH, Bucket

\* A dictionary is open iff it is in the chain of its number.
LEMMA OpenIffHashed ==
  ASSUME TypeOK, ChainsMatch, NEW id \in Nat
  PROVE  /\ HASH(id) \in Bucket
         /\ \A h : h \in Range(htab[HASH(id)]) /\ hdid[h] = id
                     <=> h \in Range(open_list) /\ hdid[h] = id
<1>1. HASH(id) \in Bucket
  BY HashInBucket
<1>2. QED BY <1>1 DEF ChainsMatch

\* The lists and chains hold dictionaries.
LEMMA ListTypes ==
  ASSUME TypeOK
  PROVE  /\ Range(open_list) \subseteq Handle
         /\ Range(close_list) \subseteq Handle
         /\ Range(hdicts) \subseteq Handle
         /\ \A b \in Bucket : Range(htab[b]) \subseteq Handle
  BY RangeAt DEF TypeOK

\* Nobody references a dictionary that is in neither list.
LEMMA HoldersOfUnlinked ==
  ASSUME WorkersOK, NEW h, h \notin Range(open_list) \cup Range(close_list)
  PROVE  Holders(h) = {}
  BY DEF WorkersOK, Holders

LEMMA HoldersFinite ==
  ASSUME NEW h
  PROVE  IsFiniteSet(Holders(h)) /\ Cardinality(Holders(h)) \in Nat
<1>1. Holders(h) \subseteq Worker
  BY DEF Holders
<1>2. QED BY <1>1, FS_Subset, FS_CardinalityType

-----------------------------------------------------------------------------
LEMMA InitIInv == Init => IInv
<1> SUFFICES ASSUME Init PROVE IInv
  OBVIOUS
<1>1. Range(<<>>) = {} /\ <<>> \in Seq(Handle) /\ Len(<<>>) = 0
  BY DEF Range
<1>2. TypeOK
  BY <1>1 DEF Init, TypeOK
<1>3. WorkersOK /\ ManagerOK
  BY <1>1 DEF Init, WorkersOK, ManagerOK, BatchFits
<1>4. Opening = {}
  BY DEF Init, Opening
<1>5. Linear(<<>>)
  BY DEF Linear
<1>6. OwnedOnce
  BY <1>1, <1>4, <1>5 DEF Init, OwnedOnce
<1>7. ChainsMatch
  BY <1>1, <1>5 DEF Init, ChainsMatch
<1>8. OnePerId /\ RefExact /\ CountsExact
  BY <1>1 DEF Init, OnePerId, RefExact, CountsExact
<1>9. QED BY <1>2, <1>3, <1>6, <1>7, <1>8 DEF IInv

-----------------------------------------------------------------------------
(* One lemma per action: it preserves the invariant. *)

LEMMA HdictOpenIInv ==
  ASSUME IInv, NEW w \in Worker, NEW id \in HdId, HdictOpen(w, id)
  PROVE  IInv'
<1> USE DEF IInv
<1>1. PICK h \in Handle \ alive :
        /\ alive' = alive \cup {h}
        /\ hdid' = [hdid EXCEPT ![h] = 0]
        /\ ref' = [ref EXCEPT ![h] = 0]
        /\ hdict' = [hdict EXCEPT ![w] = h]
  BY DEF HdictOpen
<1>2. /\ arg' = [arg EXCEPT ![w] = id]
      /\ pc' = [pc EXCEPT ![w] = "opening"]
      /\ UNCHANGED <<lists, htab, manager>> /\ pc[w] = "ready"
  BY DEF HdictOpen
<1>3. /\ h \notin Range(open_list) \cup Range(close_list) \cup Range(hdicts)
      /\ h \notin Opening
  BY <1>1 DEF OwnedOnce
<1>4. TypeOK'
  BY <1>1, <1>2 DEF TypeOK, lists, manager
<1>5. WorkersOK'
  BY <1>1, <1>2, <1>3 DEF TypeOK, WorkersOK, lists, manager, Opening
<1>6. ManagerOK' /\ CountsExact'
  BY <1>2 DEF ManagerOK, BatchFits, CountsExact, lists, manager
<1>7. Opening' = Opening \cup {h}
  BY <1>1, <1>2 DEF Opening, TypeOK
<1>8. \A v \in Worker : pc'[v] = "opening" /\ v # w => hdict'[v] \in Opening
  BY <1>1, <1>2 DEF Opening, TypeOK
<1>9. OwnedOnce'
  BY <1>1, <1>2, <1>3, <1>7, <1>8 DEF OwnedOnce, lists, manager, TypeOK
<1>10. \A g \in Range(open_list) \cup Range(close_list) : hdid'[g] = hdid[g] /\ ref'[g] = ref[g]
  BY <1>1, <1>3, ListTypes DEF TypeOK
<1>11. ChainsMatch' /\ OnePerId'
  BY <1>2, <1>10 DEF ChainsMatch, OnePerId, lists
<1>12. \A g \in Range(open_list) \cup Range(close_list) : Holders(g)' = Holders(g)
  BY <1>1, <1>2, <1>3 DEF Holders, TypeOK
<1>13. RefExact'
  BY <1>2, <1>10, <1>12 DEF RefExact, lists
<1>14. QED BY <1>4, <1>5, <1>6, <1>9, <1>11, <1>13

\* What a worker that mounts its dictionary brings: an address no list and no
\* other worker has, and a number to hash.
LEMMA OpeningIsPrivate ==
  ASSUME IInv, NEW w \in Worker, pc[w] = "opening"
  PROVE  /\ hdict[w] \in Handle /\ hdict[w] \in alive /\ arg[w] \in HdId
         /\ ref[hdict[w]] = 0
         /\ hdict[w] \notin Range(open_list) \cup Range(close_list) \cup Range(hdicts)
         /\ \A b \in Bucket : hdict[w] \notin Range(htab[b])
         /\ hdict[w] \in Opening
<1>1. hdict[w] \in Opening
  BY DEF Opening
<1>2. QED BY <1>1 DEF IInv, WorkersOK, OwnedOnce, ChainsMatch

\* A worker that stops opening without freeing leaves the others' pointers be.
LEMMA StopsOpening ==
  ASSUME IInv, NEW w \in Worker, pc[w] = "opening",
         pc' = [pc EXCEPT ![w] = "ready"], hdict' = [hdict EXCEPT ![w] = NULL]
  PROVE  /\ Opening' = Opening \ {hdict[w]}
         /\ \A g : Holders(g)' = Holders(g)
<1>1. Opening' = Opening \ {hdict[w]}
  BY DEF IInv, Opening, OwnedOnce, TypeOK
<1>2. \A g : Holders(g)' = Holders(g)
  BY DEF IInv, Holders, TypeOK
<1>3. QED BY <1>1, <1>2

LEMMA HdictOpenFailIInv ==
  ASSUME IInv, NEW w \in Worker, HdictOpenFail(w)
  PROVE  IInv'
<1> USE DEF IInv
<1>1. /\ alive' = alive \ {hdict[w]}
      /\ pc[w] = "opening" /\ pc' = [pc EXCEPT ![w] = "ready"]
      /\ hdict' = [hdict EXCEPT ![w] = NULL]
      /\ arg' = [arg EXCEPT ![w] = NULL]
      /\ UNCHANGED <<lists, htab, hdid, ref, manager>>
  BY DEF HdictOpenFail
<1>2. TypeOK'
  BY <1>1 DEF TypeOK, lists, manager
<1>3. WorkersOK' /\ ManagerOK' /\ CountsExact'
  BY <1>1 DEF TypeOK, WorkersOK, ManagerOK, BatchFits, CountsExact, lists, manager
<1>4. /\ Opening' = Opening \ {hdict[w]}
      /\ \A g : Holders(g)' = Holders(g)
  BY <1>1, StopsOpening
<1>5. hdict[w] \in Opening
  BY <1>1, OpeningIsPrivate
<1>6. OwnedOnce'
  BY <1>1, <1>4, <1>5 DEF OwnedOnce, lists, manager, TypeOK
<1>7. ChainsMatch' /\ OnePerId' /\ RefExact'
  BY <1>1, <1>4 DEF ChainsMatch, OnePerId, RefExact, lists
<1>8. QED BY <1>2, <1>3, <1>6, <1>7

LEMMA MountIInv ==
  ASSUME IInv, NEW w \in Worker, Mount(w)
  PROVE  IInv'
<1> USE DEF IInv
<1> DEFINE hd == hdict[w]
           id == arg[w]
<1>1. /\ pc[w] = "opening" /\ NotOpen(id)
      /\ open_list' = Append(open_list, hd)
      /\ num_open' = num_open + 1
      /\ hdid' = [hdid EXCEPT ![hd] = id]
      /\ htab' = [htab EXCEPT ![HASH(id)] = Cons(hd, htab[HASH(id)])]
      /\ pc' = [pc EXCEPT ![w] = "ready"]
      /\ hdict' = [hdict EXCEPT ![w] = NULL]
      /\ arg' = [arg EXCEPT ![w] = NULL]
      /\ UNCHANGED <<ref, alive, manager, close_list, num_close>>
  BY DEF Mount, MountAt
<1>2. /\ hd \in Handle /\ hd \in alive /\ id \in HdId /\ ref[hd] = 0
      /\ hd \notin Range(open_list) \cup Range(close_list) \cup Range(hdicts)
      /\ \A b \in Bucket : hd \notin Range(htab[b])
      /\ hd \in Opening
  BY <1>1, OpeningIsPrivate
<1>3. id \in Nat /\ HASH(id) \in Bucket
  BY <1>2, HashInBucket
<1>4. /\ Opening' = Opening \ {hd}
      /\ \A g : Holders(g)' = Holders(g)
  BY <1>1, StopsOpening
<1> HIDE DEF hd, id
<1>5. /\ open_list' \in Seq(Handle)
      /\ Len(open_list') = Len(open_list) + 1
      /\ Range(open_list') = Range(open_list) \cup {hd}
      /\ Linear(open_list')
  BY <1>1, <1>2, AppendLinks DEF TypeOK, OwnedOnce
<1>6. /\ Cons(hd, htab[HASH(id)]) \in Seq(Handle)
      /\ Range(Cons(hd, htab[HASH(id)])) = Range(htab[HASH(id)]) \cup {hd}
      /\ Linear(Cons(hd, htab[HASH(id)]))
  BY <1>2, <1>3, ConsLinks DEF TypeOK, ChainsMatch
<1>7. TypeOK'
  BY <1>1, <1>2, <1>3, <1>5, <1>6 DEF TypeOK, manager
<1>8. WorkersOK' /\ ManagerOK' /\ CountsExact'
  BY <1>1, <1>5 DEF TypeOK, WorkersOK, ManagerOK, BatchFits, CountsExact, manager
<1>9. OwnedOnce'
  BY <1>1, <1>2, <1>4, <1>5 DEF OwnedOnce, manager, TypeOK
<1>10. \A g \in Range(open_list) \cup Range(close_list) : hdid'[g] = hdid[g]
  BY <1>1, <1>2, ListTypes DEF TypeOK
<1>11. hdid'[hd] = id
  BY <1>1, <1>2 DEF TypeOK
<1>12. OnePerId'
  BY <1>1, <1>5, <1>10, <1>11 DEF OnePerId, NotOpen
<1>13. ChainsMatch'
  <2>1. SUFFICES ASSUME NEW b \in Bucket
                 PROVE  /\ Linear(htab'[b])
                        /\ Range(htab'[b]) = {h \in Range(open_list') : HASH(hdid'[h]) = b}
    BY DEF ChainsMatch
  <2>2. {h \in Range(open_list') : HASH(hdid'[h]) = b}
          = {h \in Range(open_list) : HASH(hdid[h]) = b}
              \cup (IF HASH(id) = b THEN {hd} ELSE {})
    BY <1>2, <1>5, <1>10, <1>11
  <2>3. CASE HASH(id) = b
    BY <1>1, <1>6, <2>2, <2>3 DEF ChainsMatch, TypeOK
  <2>4. CASE HASH(id) # b
    BY <1>1, <2>2, <2>4 DEF ChainsMatch, TypeOK
  <2>5. QED BY <2>3, <2>4
<1>14. RefExact'
  <2>1. Cardinality(Holders(hd)) = 0
    BY <1>2, HoldersOfUnlinked, FS_EmptySet
  <2>2. QED BY <1>1, <1>2, <1>4, <1>5, <2>1 DEF RefExact
<1>15. QED BY <1>7, <1>8, <1>9, <1>12, <1>13, <1>14

\* What retiring an open dictionary does to both lists and to its chain.
LEMMA Retires ==
  ASSUME IInv, NEW id \in HdId, NEW hd \in Range(open_list), FirstOpen(hd, id)
  PROVE  /\ hd \in Handle /\ hdid[hd] = id /\ id \in Nat /\ HASH(id) \in Bucket
         /\ hd \notin Range(close_list)
         /\ hd \in Range(htab[HASH(id)])
         /\ Unlink(open_list, hd) \in Seq(Handle)
         /\ Len(Unlink(open_list, hd)) = Len(open_list) - 1
         /\ Range(Unlink(open_list, hd)) = Range(open_list) \ {hd}
         /\ Linear(Unlink(open_list, hd))
         /\ Append(close_list, hd) \in Seq(Handle)
         /\ Len(Append(close_list, hd)) = Len(close_list) + 1
         /\ Range(Append(close_list, hd)) = Range(close_list) \cup {hd}
         /\ Linear(Append(close_list, hd))
         /\ Unlink(htab[HASH(id)], hd) \in Seq(Handle)
         /\ Range(Unlink(htab[HASH(id)], hd)) = Range(htab[HASH(id)]) \ {hd}
         /\ Linear(Unlink(htab[HASH(id)], hd))
<1> USE DEF IInv
<1>1. hdid[hd] = id /\ id \in Nat
  BY DEF FirstOpen
<1>2. hd \in Handle /\ hd \notin Range(close_list)
  BY ListTypes DEF OwnedOnce
<1>3. HASH(id) \in Bucket /\ hd \in Range(htab[HASH(id)])
  BY <1>1, OpenIffHashed
<1>4. /\ Unlink(open_list, hd) \in Seq(Handle)
      /\ Len(Unlink(open_list, hd)) = Len(open_list) - 1
      /\ Range(Unlink(open_list, hd)) = Range(open_list) \ {hd}
      /\ Linear(Unlink(open_list, hd))
  BY UnlinkRemoves DEF TypeOK, OwnedOnce
<1>5. /\ Append(close_list, hd) \in Seq(Handle)
      /\ Len(Append(close_list, hd)) = Len(close_list) + 1
      /\ Range(Append(close_list, hd)) = Range(close_list) \cup {hd}
      /\ Linear(Append(close_list, hd))
  BY <1>2, AppendLinks DEF TypeOK, OwnedOnce
<1>6. htab[HASH(id)] \in Seq(Handle) /\ Linear(htab[HASH(id)])
  BY <1>3 DEF TypeOK, ChainsMatch
<1>7. /\ Unlink(htab[HASH(id)], hd) \in Seq(Handle)
      /\ Range(Unlink(htab[HASH(id)], hd)) = Range(htab[HASH(id)]) \ {hd}
      /\ Linear(Unlink(htab[HASH(id)], hd))
  BY <1>3, <1>6, UnlinkRemoves
<1>8. QED BY <1>1, <1>2, <1>3, <1>4, <1>5, <1>7

LEMMA CloseIInv ==
  ASSUME IInv, NEW w \in Worker, NEW id \in HdId, Close(w, id)
  PROVE  IInv'
<1> USE DEF IInv
<1>1. PICK hd \in Range(open_list) :
        /\ FirstOpen(hd, id)
        /\ open_list' = Unlink(open_list, hd)
        /\ close_list' = Append(close_list, hd)
        /\ htab' = [htab EXCEPT ![HASH(id)] = Unlink(htab[HASH(id)], hd)]
  BY DEF Close
<1>2. /\ num_open' = num_open - 1 /\ num_close' = num_close + 1
      /\ UNCHANGED <<hdid, ref, alive, threads, manager>>
  BY DEF Close
<1> DEFINE chain == Unlink(htab[HASH(id)], hd)
<1>3. /\ hd \in Handle /\ hdid[hd] = id /\ HASH(id) \in Bucket
      /\ hd \notin Range(close_list) /\ hd \in Range(htab[HASH(id)])
      /\ open_list' \in Seq(Handle) /\ close_list' \in Seq(Handle)
      /\ Len(open_list') = Len(open_list) - 1
      /\ Len(close_list') = Len(close_list) + 1
      /\ Range(open_list') = Range(open_list) \ {hd}
      /\ Range(close_list') = Range(close_list) \cup {hd}
      /\ Linear(open_list') /\ Linear(close_list')
      /\ chain \in Seq(Handle) /\ Linear(chain)
      /\ Range(chain) = Range(htab[HASH(id)]) \ {hd}
  BY <1>1, Retires
<1> HIDE DEF chain
<1>4. Opening' = Opening /\ \A g : Holders(g)' = Holders(g)
  BY <1>2 DEF Opening, Holders, threads
<1>5. TypeOK'
  <2>1. htab' = [htab EXCEPT ![HASH(id)] = chain] BY <1>1 DEF chain
  <2>2. htab' \in [Bucket -> Seq(Handle)] BY <1>3, <2>1 DEF TypeOK
  <2>3. num_open' \in Int /\ num_close' \in Int BY <1>2 DEF TypeOK
  <2> QED BY <1>2, <1>3, <2>2, <2>3 DEF TypeOK, threads, manager
<1>6. WorkersOK' /\ ManagerOK' /\ CountsExact'
  BY <1>2, <1>3 DEF WorkersOK, ManagerOK, BatchFits, CountsExact, threads, manager
<1>7. OwnedOnce'
  BY <1>2, <1>3, <1>4 DEF OwnedOnce, threads, manager
<1>8. OnePerId' /\ RefExact'
  BY <1>2, <1>3, <1>4 DEF OnePerId, RefExact
<1>9. ChainsMatch'
  <2>1. SUFFICES ASSUME NEW b \in Bucket
                 PROVE  /\ Linear(htab'[b])
                        /\ Range(htab'[b]) = {h \in Range(open_list') : HASH(hdid[h]) = b}
    BY <1>2 DEF ChainsMatch
  <2>2. CASE HASH(id) = b
    BY <1>1, <1>3, <2>2 DEF ChainsMatch, TypeOK, chain
  <2>3. CASE HASH(id) # b
    BY <1>1, <1>3, <2>3 DEF ChainsMatch, TypeOK
  <2>4. QED BY <2>2, <2>3
<1>10. QED BY <1>5, <1>6, <1>7, <1>8, <1>9

LEMMA ReplaceIInv ==
  ASSUME IInv, NEW w \in Worker, Replace(w)
  PROVE  IInv'
<1> USE DEF IInv
<1> DEFINE new == hdict[w]
           id == arg[w]
<1>1. PICK hd \in Range(open_list) :
        /\ FirstOpen(hd, id)
        /\ open_list' = Append(Unlink(open_list, hd), new)
        /\ close_list' = Append(close_list, hd)
        /\ num_close' = num_close + 1
        /\ htab' = [htab EXCEPT ![HASH(id)] = Cons(new, Unlink(htab[HASH(id)], hd))]
        /\ hdid' = [hdid EXCEPT ![new] = id]
        /\ pc' = [pc EXCEPT ![w] = "ready"]
        /\ hdict' = [hdict EXCEPT ![w] = NULL]
        /\ arg' = [arg EXCEPT ![w] = NULL]
        /\ UNCHANGED <<ref, alive, manager>>
  BY DEF Replace, MountAt
<1>2. pc[w] = "opening" /\ num_open' = num_open
  BY DEF Replace
<1>3. /\ new \in Handle /\ new \in alive /\ id \in HdId /\ ref[new] = 0
      /\ new \notin Range(open_list) \cup Range(close_list) \cup Range(hdicts)
      /\ \A b \in Bucket : new \notin Range(htab[b])
      /\ new \in Opening
  BY <1>2, OpeningIsPrivate
<1>4. /\ Opening' = Opening \ {new}
      /\ \A g : Holders(g)' = Holders(g)
  BY <1>1, <1>2, StopsOpening
<1> HIDE DEF new, id
<1> DEFINE open1 == Unlink(open_list, hd)
           chain1 == Unlink(htab[HASH(id)], hd)
           chain2 == Cons(new, chain1)
<1>5. /\ hd \in Handle /\ hdid[hd] = id /\ id \in Nat /\ HASH(id) \in Bucket
      /\ hd \notin Range(close_list) /\ hd \in Range(htab[HASH(id)])
      /\ open1 \in Seq(Handle) /\ close_list' \in Seq(Handle)
      /\ Len(open1) = Len(open_list) - 1
      /\ Len(close_list') = Len(close_list) + 1
      /\ Range(open1) = Range(open_list) \ {hd}
      /\ Range(close_list') = Range(close_list) \cup {hd}
      /\ Linear(open1) /\ Linear(close_list')
      /\ chain1 \in Seq(Handle) /\ Linear(chain1)
      /\ Range(chain1) = Range(htab[HASH(id)]) \ {hd}
  BY <1>1, <1>3, Retires
<1> HIDE DEF open1, chain1
<1>6. /\ open_list' \in Seq(Handle)
      /\ Len(open_list') = Len(open_list)
      /\ Range(open_list') = (Range(open_list) \ {hd}) \cup {new}
      /\ Linear(open_list')
  <2>1. open_list' = Append(open1, new)
    BY <1>1 DEF open1
  <2>2. /\ open_list' \in Seq(Handle)
        /\ Len(open_list') = Len(open1) + 1
        /\ Range(open_list') = Range(open1) \cup {new}
        /\ Linear(open_list')
    BY <1>3, <1>5, <2>1, AppendLinks
  <2>3. Len(open_list) \in Nat
    BY DEF TypeOK
  <2>4. QED BY <1>5, <2>2, <2>3
<1>7. /\ chain2 \in Seq(Handle) /\ Linear(chain2)
      /\ Range(chain2) = (Range(htab[HASH(id)]) \ {hd}) \cup {new}
  <2>1. new \notin Range(chain1)
    BY <1>3, <1>5
  <2>2. new \in Handle /\ chain1 \in Seq(Handle) /\ Linear(chain1)
    BY <1>3, <1>5
  <2>3. /\ chain2 \in Seq(Handle) /\ Linear(chain2)
        /\ Range(chain2) = Range(chain1) \cup {new}
    BY <2>1, <2>2, ConsLinks
  <2>4. QED BY <1>5, <2>3
<1>8. htab' = [htab EXCEPT ![HASH(id)] = chain2]
  BY <1>1 DEF chain1
<1> HIDE DEF chain2
<1>9. TypeOK'
  <2>1. htab' \in [Bucket -> Seq(Handle)]
    BY <1>5, <1>7, <1>8 DEF TypeOK
  <2>2. hdid' \in [Handle -> Nat]
    BY <1>1, <1>5 DEF TypeOK
  <2>3. /\ pc' \in [Worker -> {"ready", "opening", "using"}]
        /\ hdict' \in [Worker -> Handle \cup {NULL}]
        /\ arg' \in [Worker -> HdId \cup {NULL}]
    BY <1>1 DEF TypeOK
  <2>4. num_open' \in Int /\ num_close' \in Int
    BY <1>1, <1>2 DEF TypeOK
  <2>5. QED BY <1>1, <1>5, <1>6, <2>1, <2>2, <2>3, <2>4 DEF TypeOK, manager
<1>10. WorkersOK' /\ ManagerOK' /\ CountsExact'
  BY <1>1, <1>2, <1>5, <1>6 DEF TypeOK, WorkersOK, ManagerOK, BatchFits, CountsExact, manager
<1>11. OwnedOnce'
  <2>1. \A u, v \in Worker :
          pc'[u] = "opening" /\ pc'[v] = "opening" /\ hdict'[u] = hdict'[v] => u = v
    BY <1>1 DEF OwnedOnce, TypeOK
  <2>2. Linear(open_list') /\ Linear(close_list') /\ Linear(hdicts')
    BY <1>1, <1>5, <1>6 DEF OwnedOnce, manager
  <2>3. /\ Range(open_list') \cap Range(close_list') = {}
        /\ Range(hdicts') \cap (Range(open_list') \cup Range(close_list')) = {}
    BY <1>1, <1>3, <1>5, <1>6 DEF OwnedOnce, manager
  <2>4. /\ Opening' \cap (Range(open_list') \cup Range(close_list') \cup Range(hdicts')) = {}
        /\ alive' = Opening' \cup Range(open_list') \cup Range(close_list') \cup Range(hdicts')
    BY <1>1, <1>3, <1>4, <1>5, <1>6 DEF OwnedOnce, manager
  <2>5. QED BY <2>1, <2>2, <2>3, <2>4 DEF OwnedOnce
<1>12. /\ hdid'[new] = id
       /\ \A g \in Range(open_list) \cup Range(close_list) : hdid'[g] = hdid[g]
  BY <1>1, <1>3, ListTypes DEF TypeOK
<1>13. \A g \in Range(open_list) : hdid[g] = id => g = hd
  BY <1>5 DEF OnePerId
<1>14. OnePerId'
  BY <1>6, <1>12, <1>13 DEF OnePerId
<1>15. ChainsMatch'
  <2>1. SUFFICES ASSUME NEW b \in Bucket
                 PROVE  /\ Linear(htab'[b])
                        /\ Range(htab'[b]) = {h \in Range(open_list') : HASH(hdid'[h]) = b}
    BY DEF ChainsMatch
  <2>2. {h \in Range(open_list') : HASH(hdid'[h]) = b}
          = ({h \in Range(open_list) : HASH(hdid[h]) = b} \ {hd})
              \cup (IF HASH(id) = b THEN {new} ELSE {})
    BY <1>3, <1>6, <1>12
  <2>3. CASE HASH(id) = b
    BY <1>7, <1>8, <2>2, <2>3 DEF ChainsMatch, TypeOK
  <2>4. CASE HASH(id) # b
    BY <1>5, <1>8, <2>2, <2>4 DEF ChainsMatch, TypeOK
  <2>5. QED BY <2>3, <2>4
<1>16. RefExact'
  <2>1. Cardinality(Holders(new)) = 0
    BY <1>3, HoldersOfUnlinked, FS_EmptySet
  <2>2. QED BY <1>1, <1>3, <1>4, <1>5, <1>6, <2>1 DEF RefExact
<1>17. QED BY <1>9, <1>10, <1>11, <1>14, <1>15, <1>16

LEMMA RefIInv ==
  ASSUME IInv, NEW w \in Worker, NEW id \in HdId, Ref(w, id)
  PROVE  IInv'
<1> USE DEF IInv
<1>1. PICK hd \in Range(htab[HASH(id)]) :
        /\ FirstInChain(hd, id)
        /\ ref' = [ref EXCEPT ![hd] = ref[hd] + 1]
        /\ hdict' = [hdict EXCEPT ![w] = hd]
  BY DEF Ref
<1>2. /\ pc[w] = "ready" /\ pc' = [pc EXCEPT ![w] = "using"]
      /\ UNCHANGED <<lists, htab, hdid, alive, arg, manager>>
  BY DEF Ref
<1>3. hd \in Range(open_list) /\ hd \in Handle
  <2>1. hdid[hd] = id /\ id \in Nat
    BY <1>1 DEF FirstInChain
  <2>2. QED BY <1>1, <2>1, OpenIffHashed, ListTypes
<1>4. /\ Opening' = Opening
      /\ \A v \in Worker : pc'[v] = "opening" => pc[v] = "opening" /\ hdict'[v] = hdict[v]
  BY <1>1, <1>2 DEF Opening, TypeOK
<1>5. /\ Holders(hd)' = Holders(hd) \cup {w} /\ w \notin Holders(hd)
      /\ \A g : g # hd => Holders(g)' = Holders(g)
  BY <1>1, <1>2 DEF Holders, TypeOK
<1>6. Cardinality(Holders(hd)') = Cardinality(Holders(hd)) + 1
  BY <1>5, HoldersFinite, FS_AddElement
<1>7. TypeOK'
  BY <1>1, <1>2, <1>3 DEF TypeOK, lists, manager
<1>8. hd \notin Opening
  BY <1>3 DEF OwnedOnce
<1>9. WorkersOK'
  BY <1>1, <1>2, <1>3, <1>8 DEF WorkersOK, Opening, TypeOK, lists
<1>10. ManagerOK' /\ CountsExact' /\ ChainsMatch' /\ OnePerId'
  BY <1>2 DEF ManagerOK, BatchFits, CountsExact, ChainsMatch, OnePerId, lists, manager
<1>11. OwnedOnce'
  BY <1>2, <1>4 DEF OwnedOnce, lists, manager
<1>12. RefExact'
  <2>1. SUFFICES ASSUME NEW g \in Range(open_list) \cup Range(close_list)
                 PROVE  ref'[g] = Cardinality(Holders(g)')
    BY <1>2 DEF RefExact, lists
  <2>2. g \in Handle /\ ref[g] = Cardinality(Holders(g))
    BY ListTypes DEF RefExact
  <2>3. CASE g = hd
    BY <1>1, <1>6, <2>2, <2>3 DEF TypeOK
  <2>4. CASE g # hd
    BY <1>1, <1>5, <2>2, <2>4 DEF TypeOK
  <2>5. QED BY <2>3, <2>4
<1>13. QED BY <1>7, <1>9, <1>10, <1>11, <1>12

LEMMA DerefIInv ==
  ASSUME IInv, NEW w \in Worker, Deref(w)
  PROVE  IInv'
<1> USE DEF IInv
<1>1. PICK hd \in Handle :
        /\ hdict[w] = hd
        /\ pc[w] = "using" /\ pc' = [pc EXCEPT ![w] = "ready"]
        /\ ref' = [ref EXCEPT ![hd] = ref[hd] - 1]
        /\ hdict' = [hdict EXCEPT ![w] = NULL]
        /\ UNCHANGED <<lists, htab, hdid, alive, arg, manager>>
  BY ListTypes DEF Deref, WorkersOK
<1>2. hd \in Range(open_list) \cup Range(close_list)
  BY <1>1 DEF WorkersOK
<1>3. hd \notin Opening
  BY <1>2 DEF OwnedOnce
<1>4. /\ Opening' = Opening
      /\ \A v \in Worker : pc'[v] = "opening" => pc[v] = "opening" /\ hdict'[v] = hdict[v]
  BY <1>1 DEF Opening, TypeOK
<1>5. /\ Holders(hd)' = Holders(hd) \ {w} /\ w \in Holders(hd)
      /\ \A g : g # hd => Holders(g)' = Holders(g)
  BY <1>1 DEF Holders, TypeOK
<1>6. Cardinality(Holders(hd)') = Cardinality(Holders(hd)) - 1
  BY <1>5, HoldersFinite, FS_RemoveElement
<1>7. TypeOK'
  BY <1>1 DEF TypeOK, lists, manager
<1>8. WorkersOK'
  BY <1>1, <1>2, <1>3 DEF WorkersOK, Opening, TypeOK, lists
<1>9. ManagerOK' /\ CountsExact' /\ ChainsMatch' /\ OnePerId'
  BY <1>1 DEF ManagerOK, BatchFits, CountsExact, ChainsMatch, OnePerId, lists, manager
<1>10. OwnedOnce'
  BY <1>1, <1>4 DEF OwnedOnce, lists, manager
<1>11. RefExact'
  <2>1. SUFFICES ASSUME NEW g \in Range(open_list) \cup Range(close_list)
                 PROVE  ref'[g] = Cardinality(Holders(g)')
    BY <1>1 DEF RefExact, lists
  <2>2. g \in Handle /\ ref[g] = Cardinality(Holders(g))
    BY ListTypes DEF RefExact
  <2>3. CASE g = hd
    BY <1>1, <1>6, <2>2, <2>3 DEF TypeOK
  <2>4. CASE g # hd
    BY <1>1, <1>5, <2>2, <2>4 DEF TypeOK
  <2>5. QED BY <2>3, <2>4
<1>12. QED BY <1>7, <1>8, <1>9, <1>10, <1>11

LEMMA MgrTakeIInv ==
  ASSUME IInv, MgrTake
  PROVE  IInv'
<1> USE DEF IInv
<1> DEFINE hd == close_list[next]
<1>1. /\ mgr = "scan" /\ next \in DOMAIN close_list /\ ref[hd] = 0
      /\ hdicts' = Append(hdicts, hd)
      /\ close_list' = Unlink(close_list, hd)
      /\ num_close' = num_close - 1
      /\ mgr' = IF Len(hdicts') = BatchMax THEN "free" ELSE "scan"
      /\ UNCHANGED <<open_list, num_open, htab, hdid, ref, alive, threads, next>>
  BY DEF MgrTake
<1>2. hd \in Range(close_list) /\ hd \in Handle
  BY <1>1, RangeAt DEF TypeOK
<1>3. hd \notin Range(open_list) /\ hd \notin Range(hdicts)
  BY <1>2 DEF OwnedOnce
<1> HIDE DEF hd
<1>4. /\ close_list' \in Seq(Handle) /\ Linear(close_list')
      /\ Len(close_list') = Len(close_list) - 1
      /\ Range(close_list') = Range(close_list) \ {hd}
  BY <1>1, <1>2, UnlinkRemoves DEF TypeOK, OwnedOnce
<1>5. /\ hdicts' \in Seq(Handle) /\ Linear(hdicts')
      /\ Len(hdicts') = Len(hdicts) + 1
      /\ Range(hdicts') = Range(hdicts) \cup {hd}
  BY <1>1, <1>2, <1>3, AppendLinks DEF TypeOK, OwnedOnce
<1>6. Opening' = Opening /\ \A g : Holders(g)' = Holders(g)
  BY <1>1 DEF Opening, Holders, threads
<1>7. \A v \in Worker : pc[v] = "using" => hdict[v] # hd
  <2>1. Cardinality(Holders(hd)) = 0 /\ IsFiniteSet(Holders(hd))
    BY <1>1, <1>2, HoldersFinite DEF RefExact
  <2>2. Holders(hd) = {}
    BY <2>1, FS_EmptySet
  <2>3. QED BY <2>2 DEF Holders
<1>8. TypeOK'
  BY <1>1, <1>4, <1>5 DEF TypeOK, threads
<1>9. WorkersOK'
  BY <1>1, <1>4, <1>7 DEF WorkersOK, threads
<1>10. ManagerOK' /\ CountsExact'
  <2>1. Len(hdicts) < BatchMax /\ Len(hdicts) \in Nat
    BY <1>1 DEF ManagerOK, TypeOK
  <2>2. QED BY <1>1, <1>4, <1>5, <2>1 DEF ManagerOK, BatchFits, CountsExact
<1>11. OwnedOnce'
  BY <1>1, <1>2, <1>3, <1>4, <1>5, <1>6 DEF OwnedOnce, threads
<1>12. ChainsMatch' /\ OnePerId'
  BY <1>1 DEF ChainsMatch, OnePerId
<1>13. RefExact'
  BY <1>1, <1>4, <1>6 DEF RefExact
<1>14. QED BY <1>8, <1>9, <1>10, <1>11, <1>12, <1>13

LEMMA HdictCloseIInv ==
  ASSUME IInv, HdictClose
  PROVE  IInv'
<1> USE DEF IInv
<1>1. /\ mgr = "free" /\ hdicts # <<>>
      /\ alive' = alive \ {Head(hdicts)}
      /\ hdicts' = Tail(hdicts)
      /\ UNCHANGED <<lists, htab, hdid, ref, threads, mgr, next>>
  BY DEF HdictClose
<1>2. /\ Head(hdicts) \in Range(hdicts)
      /\ hdicts' \in Seq(Handle) /\ Linear(hdicts')
      /\ Len(hdicts') = Len(hdicts) - 1
      /\ Range(hdicts') = Range(hdicts) \ {Head(hdicts)}
  BY <1>1, TailRemoves DEF TypeOK, OwnedOnce
<1>3. Opening' = Opening /\ \A g : Holders(g)' = Holders(g)
  BY <1>1 DEF Opening, Holders, threads
<1>4. TypeOK'
  BY <1>1, <1>2 DEF TypeOK, lists, threads
<1>5. Len(hdicts) \in Nat
  BY DEF TypeOK
<1>6. WorkersOK' /\ ManagerOK' /\ CountsExact'
  BY <1>1, <1>2, <1>5 DEF WorkersOK, ManagerOK, BatchFits, CountsExact, lists, threads
<1>7. OwnedOnce'
  BY <1>1, <1>2, <1>3 DEF OwnedOnce, lists, threads
<1>8. ChainsMatch' /\ OnePerId' /\ RefExact'
  BY <1>1, <1>3 DEF ChainsMatch, OnePerId, RefExact, lists
<1>9. QED BY <1>4, <1>6, <1>7, <1>8

\* The manager's other steps move it along and touch no dictionary.
LEMMA MgrMovesIInv ==
  ASSUME IInv, MgrCheck \/ MgrLock \/ MgrSkip \/ MgrUnlock \/ MgrSleep
  PROVE  IInv'
<1> USE DEF IInv
<1>1. UNCHANGED <<lists, htab, hdid, ref, alive, threads, hdicts>>
  BY DEF MgrCheck, MgrLock, MgrSkip, MgrUnlock, MgrSleep
<1>2. Opening' = Opening /\ \A g : Holders(g)' = Holders(g)
  BY <1>1 DEF Opening, Holders, threads
<1>3. mgr' \in {"check", "lock", "scan", "free"} /\ next' \in Nat
  BY DEF TypeOK, MgrCheck, MgrLock, MgrSkip, MgrUnlock, MgrSleep
<1>4. TypeOK'
  BY <1>1, <1>3 DEF TypeOK, lists, threads
<1>5. ManagerOK'
  <2>1. Len(<<>>) = 0
    OBVIOUS
  <2>2. QED BY <1>1, <2>1 DEF TypeOK, ManagerOK, BatchFits, MgrCheck, MgrLock,
                              MgrSkip, MgrUnlock, MgrSleep
<1>6. WorkersOK' /\ CountsExact' /\ ChainsMatch' /\ OnePerId'
  BY <1>1 DEF WorkersOK, CountsExact, ChainsMatch, OnePerId, lists, threads
<1>7. OwnedOnce' /\ RefExact'
  BY <1>1, <1>2 DEF OwnedOnce, RefExact, lists, threads
<1>8. QED BY <1>4, <1>5, <1>6, <1>7

LEMMA StutterIInv ==
  ASSUME IInv, UNCHANGED vars
  PROVE  IInv'
<1>1. UNCHANGED <<lists, htab, hdid, ref, alive, threads, manager>>
  BY DEF vars
<1>2. Opening' = Opening /\ \A g : Holders(g)' = Holders(g)
  BY <1>1 DEF Opening, Holders, threads
<1>3. QED
  BY <1>1, <1>2 DEF IInv, TypeOK, WorkersOK, ManagerOK, BatchFits, OwnedOnce, ChainsMatch,
                    OnePerId, RefExact, CountsExact, lists, threads, manager

LEMMA NextIInv == IInv /\ [Next]_vars => IInv'
<1> SUFFICES ASSUME IInv, [Next]_vars PROVE IInv'
  OBVIOUS
<1>1. ASSUME NEW w \in Worker, NEW id \in HdId, HdictOpen(w, id) PROVE IInv'
  BY <1>1, HdictOpenIInv
<1>2. ASSUME NEW w \in Worker, NEW id \in HdId, Close(w, id) PROVE IInv'
  BY <1>2, CloseIInv
<1>3. ASSUME NEW w \in Worker, NEW id \in HdId, Ref(w, id) PROVE IInv'
  BY <1>3, RefIInv
<1>4. ASSUME NEW w \in Worker, NEW id \in HdId, RefMiss(w, id) \/ CloseMiss(w, id)
      PROVE  IInv'
  BY <1>4, StutterIInv DEF RefMiss, CloseMiss
<1>5. ASSUME NEW w \in Worker, HdictOpenFail(w) PROVE IInv'
  BY <1>5, HdictOpenFailIInv
<1>6. ASSUME NEW w \in Worker, hdb_reopen(w) PROVE IInv'
  BY <1>6, MountIInv, ReplaceIInv DEF hdb_reopen
<1>7. ASSUME NEW w \in Worker, Deref(w) PROVE IInv'
  BY <1>7, DerefIInv
<1>8. ASSUME hdb_mgr PROVE IInv'
  BY <1>8, MgrMovesIInv, MgrTakeIInv, HdictCloseIInv DEF hdb_mgr
<1>9. CASE UNCHANGED vars
  BY <1>9, StutterIInv
<1>10. QED BY <1>1, <1>2, <1>3, <1>4, <1>5, <1>6, <1>7, <1>8, <1>9 DEF Next

-----------------------------------------------------------------------------
\* The table, the workers' pointers, the manager's batch and the counts stay
\* consistent through every interleaving of opens, replacements, closes,
\* lookups and manager passes.
THEOREM InductiveInvariant == Spec => []IInv
BY InitIInv, NextIInv, PTL DEF Spec

\* No thread ever holds, and no list or chain ever links, a freed dictionary.
THEOREM NoUseAfterFreeHolds == Spec => []NoUseAfterFree
<1>1. IInv => NoUseAfterFree
  <2> SUFFICES ASSUME IInv PROVE NoUseAfterFree
    OBVIOUS
  <2> USE DEF IInv
  <2>1. \A w \in Worker : hdict[w] # NULL => hdict[w] \in alive
    <3>1. SUFFICES ASSUME NEW w \in Worker, hdict[w] # NULL PROVE hdict[w] \in alive
      OBVIOUS
    <3>2. CASE pc[w] = "opening"
      BY <3>2, OpeningIsPrivate
    <3>3. CASE pc[w] = "using"
      BY <3>3 DEF WorkersOK, OwnedOnce
    <3>4. QED BY <3>1, <3>2, <3>3 DEF TypeOK, WorkersOK
  <2>2. Range(open_list) \cup Range(close_list) \cup Range(hdicts) \subseteq alive
    BY DEF OwnedOnce
  <2>3. \A b \in Bucket : Range(htab[b]) \subseteq alive
    BY <2>2 DEF ChainsMatch
  <2>4. QED BY <2>1, <2>2, <2>3 DEF NoUseAfterFree
<1>2. QED BY <1>1, InductiveInvariant, PTL

\* Every allocated dictionary has one owner: nothing is leaked and nothing is
\* freed twice or under a reader.
THEOREM OwnedOnceHolds == Spec => []OwnedOnce
BY InductiveInvariant, PTL DEF IInv

\* The count of a dictionary in a list is the number of its readers.
THEOREM RefExactHolds == Spec => []RefExact
BY InductiveInvariant, PTL DEF IInv

\* The open list and the hash chains agree.
THEOREM ChainsMatchHolds == Spec => []ChainsMatch
BY InductiveInvariant, PTL DEF IInv

\* However opens race, a number has one dictionary mounted.
THEOREM OnePerIdHolds == Spec => []OnePerId
BY InductiveInvariant, PTL DEF IInv

\* num_open and num_close are the lengths of the lists.
THEOREM CountsExactHolds == Spec => []CountsExact
BY InductiveInvariant, PTL DEF IInv

\* The manager never writes past its array.
THEOREM BatchFitsHolds == Spec => []BatchFits
<1>1. IInv => BatchFits
  BY DEF IInv, ManagerOK
<1>2. QED BY <1>1, InductiveInvariant, PTL

Drains == \A h \in Retired : h \notin Range(open_list') /\ ref'[h] <= ref[h]

LEMMA RetiredStep == IInv /\ [Next]_vars => Drains
<1> SUFFICES ASSUME IInv, [Next]_vars, NEW h \in Range(close_list)
             PROVE  h \notin Range(open_list') /\ ref'[h] <= ref[h]
  BY DEF Drains, Retired
<1> USE DEF IInv
<1>1. h \in Handle /\ ref[h] \in Int /\ h \in alive /\ h \notin Range(open_list)
  BY ListTypes DEF TypeOK, OwnedOnce
<1>2. \A w \in Worker : pc[w] = "opening" => hdict[w] # h /\ hdict[w] \in Handle
  BY DEF OwnedOnce, Opening, WorkersOK
<1>3. ASSUME NEW w \in Worker, NEW id \in HdId, HdictOpen(w, id)
      PROVE  open_list' = open_list /\ ref'[h] = ref[h]
  BY <1>1, <1>3 DEF HdictOpen, TypeOK, lists
<1>4. ASSUME NEW w \in Worker, NEW id \in HdId, Close(w, id)
      PROVE  Range(open_list') \subseteq Range(open_list) /\ ref'[h] = ref[h]
  <2>1. PICK hd \in Range(open_list) : open_list' = Unlink(open_list, hd)
    BY <1>4 DEF Close
  <2>2. hd \in Handle
    BY ListTypes
  <2>3. QED BY <1>4, <2>1, <2>2, UnlinkRemoves DEF Close, TypeOK, OwnedOnce
<1>5. ASSUME NEW w \in Worker, NEW id \in HdId, Ref(w, id)
      PROVE  open_list' = open_list /\ ref'[h] = ref[h]
  <2>1. HASH(id) \in Bucket
    BY HashInBucket, HdbAssumption
  <2>2. PICK hd \in Range(htab[HASH(id)]) : ref' = [ref EXCEPT ![hd] = @ + 1]
    BY <1>5 DEF Ref
  <2>3. hd # h
    BY <1>1, <2>1, <2>2 DEF ChainsMatch
  <2>4. QED BY <1>1, <1>5, <2>2, <2>3 DEF Ref, TypeOK, lists
<1>6. ASSUME NEW w \in Worker, HdictOpenFail(w)
      PROVE  open_list' = open_list /\ ref'[h] = ref[h]
  BY <1>6 DEF HdictOpenFail, lists
<1>7. ASSUME NEW w \in Worker, hdb_reopen(w)
      PROVE  Range(open_list') \subseteq Range(open_list) \cup {hdict[w]} /\ ref'[h] = ref[h]
  <2>1. hdict[w] \in Handle /\ ref'[h] = ref[h]
    BY <1>2, <1>7 DEF hdb_reopen, Mount, Replace, MountAt
  <2>2. CASE Mount(w)
    BY <2>1, <2>2, AppendLinks DEF Mount, TypeOK
  <2>3. CASE Replace(w)
    <3>1. PICK hd \in Range(open_list) :
            open_list' = Append(Unlink(open_list, hd), hdict[w])
      BY <2>3 DEF Replace
    <3>2. hd \in Handle
      BY ListTypes
    <3>3. /\ Unlink(open_list, hd) \in Seq(Handle)
          /\ Range(Unlink(open_list, hd)) \subseteq Range(open_list)
      BY <3>1, <3>2, UnlinkRemoves DEF TypeOK, OwnedOnce
    <3>4. QED BY <2>1, <3>1, <3>3, AppendLinks
  <2>4. QED BY <1>7, <2>1, <2>2, <2>3 DEF hdb_reopen
<1>8. ASSUME NEW w \in Worker, Deref(w)
      PROVE  open_list' = open_list /\ ref'[h] <= ref[h]
  BY <1>1, <1>8 DEF Deref, TypeOK, lists
<1>9. ASSUME hdb_mgr \/ UNCHANGED vars \/ \E w \in Worker, id \in HdId : RefMiss(w, id) \/ CloseMiss(w, id)
      PROVE  open_list' = open_list /\ ref'[h] = ref[h]
  BY <1>9 DEF hdb_mgr, MgrCheck, MgrLock, MgrTake, MgrSkip, MgrUnlock, HdictClose, MgrSleep,
              RefMiss, CloseMiss, vars, lists
<1>10. ref[h] <= ref[h]
  BY <1>1
<1>11. ASSUME NEW w \in Worker, hdb_reopen(w) PROVE hdict[w] # h
  BY <1>2, <1>11 DEF hdb_reopen, Mount, Replace
<1> DEFINE Goal == h \notin Range(open_list') /\ ref'[h] <= ref[h]
<1>12. ASSUME NEW w \in Worker, NEW id \in HdId,
              HdictOpen(w, id) \/ Close(w, id) \/ CloseMiss(w, id)
                \/ Ref(w, id) \/ RefMiss(w, id)
       PROVE  Goal
  BY <1>1, <1>3, <1>4, <1>5, <1>9, <1>10, <1>12
<1>13. ASSUME NEW w \in Worker, HdictOpenFail(w) \/ hdb_reopen(w) \/ Deref(w)
       PROVE  Goal
  BY <1>1, <1>6, <1>7, <1>8, <1>10, <1>11, <1>13
<1>14. ASSUME hdb_mgr \/ UNCHANGED vars PROVE Goal
  BY <1>1, <1>9, <1>10, <1>14
<1>15. Goal
  BY <1>12, <1>13, <1>14 DEF Next
<1>16. QED BY <1>15

\* What has been replaced or closed is never mounted again, and no new reader
\* gets hold of it.
THEOREM RetiredOnlyDrainsHolds == Spec => RetiredOnlyDrains
<1>1. IInv /\ [Next]_vars => [Drains]_vars
  BY RetiredStep
<1>2. QED BY <1>1, InductiveInvariant, PTL DEF Spec, RetiredOnlyDrains, Drains

-----------------------------------------------------------------------------
(* Hdb implements MountTable *)

\* What lookups of a number find is the one open dictionary of that number.
FindsOpen ==
  \A id \in HdId :
    /\ \A h \in Range(open_list) : hdid[h] = id => Mounted(id) = h
    /\ NotOpen(id) => Mounted(id) = NULL
    /\ Mounted(id) # NULL =>
         Mounted(id) \in Range(open_list) /\ hdid[Mounted(id)] = id

\* The hash chains hdb_ref walks answer as the open list would.
LEMMA MountedIsOpen == IInv => FindsOpen
<1> SUFFICES ASSUME IInv, NEW id \in HdId
    PROVE  /\ \A h \in Range(open_list) : hdid[h] = id => Mounted(id) = h
           /\ NotOpen(id) => Mounted(id) = NULL
           /\ Mounted(id) # NULL =>
                Mounted(id) \in Range(open_list) /\ hdid[Mounted(id)] = id
  BY DEF FindsOpen
<1> USE DEF IInv
<1> DEFINE chain == htab[HASH(id)]
<1>1. /\ HASH(id) \in Bucket /\ chain \in Seq(Handle)
      /\ \A h : h \in Range(chain) /\ hdid[h] = id <=> h \in Range(open_list) /\ hdid[h] = id
  BY HashInBucket, OpenIffHashed DEF TypeOK
<1>2. NotOpen(id) => Mounted(id) = NULL
  BY <1>1 DEF NotOpen, Mounted, NotInChain
<1>3. ASSUME NEW h \in Range(open_list), hdid[h] = id PROVE Mounted(id) = h
  <2>1. h \in Range(chain) /\ ~NotInChain(id)
    BY <1>1, <1>3 DEF NotInChain
  <2>2. FirstInChain(h, id)
    <3>1. PICK i \in 1 .. Len(chain) : chain[i] = h
      BY <1>1, <2>1, RangeAt
    <3>2. ASSUME NEW j \in 1 .. i - 1 PROVE hdid[chain[j]] # id
      <4>1. j \in 1 .. Len(chain) /\ j # i
        BY <1>1
      <4>2. chain[j] \in Range(chain) /\ chain[j] # h
        BY <1>1, <3>1, <4>1, RangeAt DEF ChainsMatch, Linear
      <4>3. QED BY <1>1, <1>3, <4>2 DEF OnePerId
    <3>3. QED BY <1>1, <1>3, <3>1, <3>2, RangeAt DEF FirstInChain
  <2>3. \A g \in Range(chain) : FirstInChain(g, id) => g = h
    BY <1>1, <1>3 DEF FirstInChain, OnePerId
  <2>4. QED BY <2>1, <2>2, <2>3 DEF Mounted
<1>4. ASSUME Mounted(id) # NULL
      PROVE  Mounted(id) \in Range(open_list) /\ hdid[Mounted(id)] = id
  BY <1>2, <1>3, <1>4 DEF NotOpen
<1>5. QED BY <1>2, <1>3, <1>4

LEMMA MountedTyped ==
  ASSUME IInv, NEW id \in HdId
  PROVE  Mounted(id) = NULL \/ Mounted(id) \in Handle
  BY MountedIsOpen, ListTypes DEF IInv, FindsOpen

\* If the same dictionaries are open under the same numbers, lookups agree.
LEMMA MountedSame ==
  ASSUME IInv, IInv', Range(open_list') = Range(open_list),
         \A g \in Range(open_list) : hdid'[g] = hdid[g]
  PROVE  \A id \in HdId : Mounted(id)' = Mounted(id)
<1>1. SUFFICES ASSUME NEW id \in HdId PROVE Mounted(id)' = Mounted(id)
  OBVIOUS
<1>2. FindsOpen /\ FindsOpen'
  BY MountedIsOpen, PTL
<1>3. CASE NotOpen(id)
  BY <1>2, <1>3 DEF NotOpen, FindsOpen
<1>4. CASE ~NotOpen(id)
  BY <1>2, <1>4 DEF NotOpen, FindsOpen
<1>5. QED BY <1>3, <1>4

-----------------------------------------------------------------------------
LEMMA TableInit == Init => Table!Init
<1> SUFFICES ASSUME Init PROVE Table!Init
  OBVIOUS
<1>1. Range(<<>>) = {}
  BY DEF Range
<1>2. \A id \in HdId : Mounted(id) = NULL
  BY <1>1, HashInBucket DEF Init, Mounted, NotInChain
<1>3. Opening = {} /\ AllRetired = {}
  BY <1>1 DEF Init, Opening, AllRetired
<1>4. QED BY <1>2, <1>3 DEF Init, Table!Init, AllMounted, AllPinned

\* All that is mounted, retired or loading is allocated.
LEMMA LiveIsAlive ==
  ASSUME IInv, NEW h \in Handle, h \notin alive
  PROVE  h \notin Table!Live
<1>1. \A id \in HdId : Mounted(id) # h
  BY MountedIsOpen DEF FindsOpen, IInv, OwnedOnce
<1>2. QED BY <1>1 DEF Table!Live, IInv, OwnedOnce, AllMounted, AllRetired

LEMMA LoadStep ==
  ASSUME IInv, IInv', NEW w \in Worker, NEW id \in HdId, HdictOpen(w, id)
  PROVE  \E h \in Handle : Table!Load(h)
<1>1. PICK h \in Handle \ alive :
        /\ hdid' = [hdid EXCEPT ![h] = 0]
        /\ hdict' = [hdict EXCEPT ![w] = h]
  BY DEF HdictOpen
<1>2. /\ pc[w] = "ready" /\ pc' = [pc EXCEPT ![w] = "opening"]
      /\ UNCHANGED <<lists, htab, manager>>
  BY DEF HdictOpen
<1>3. Opening' = Opening \cup {h}
  BY <1>1, <1>2 DEF Opening, IInv, TypeOK
<1>4. \A g \in Range(open_list) : hdid'[g] = hdid[g]
  BY <1>1, ListTypes DEF IInv, TypeOK, OwnedOnce
<1>5. AllMounted' = AllMounted
  BY <1>2, <1>4, MountedSame DEF AllMounted, lists
<1>6. AllPinned' = AllPinned /\ AllRetired' = AllRetired
  BY <1>1, <1>2 DEF AllPinned, AllRetired, lists, manager, IInv, TypeOK
<1>7. QED BY <1>1, <1>3, <1>5, <1>6, LiveIsAlive DEF Table!Load

LEMMA DiscardStep ==
  ASSUME IInv, IInv', NEW w \in Worker, HdictOpenFail(w)
  PROVE  \E h \in Handle : Table!Discard(h)
<1>1. /\ pc[w] = "opening" /\ pc' = [pc EXCEPT ![w] = "ready"]
      /\ hdict' = [hdict EXCEPT ![w] = NULL]
      /\ UNCHANGED <<lists, htab, hdid, manager>>
  BY DEF HdictOpenFail
<1>2. hdict[w] \in Handle /\ hdict[w] \in Opening /\ Opening' = Opening \ {hdict[w]}
  BY <1>1, OpeningIsPrivate, StopsOpening
<1>3. AllMounted' = AllMounted
  BY <1>1, MountedSame DEF AllMounted, lists
<1>4. AllPinned' = AllPinned /\ AllRetired' = AllRetired
  BY <1>1 DEF AllPinned, AllRetired, lists, manager, IInv, TypeOK
<1>5. QED BY <1>2, <1>3, <1>4 DEF Table!Discard

\* A first open and a replacement are the same abstract step: what was mounted
\* under the number, or NULL, gives way to the new dictionary.
LEMMA MountStep ==
  ASSUME IInv, IInv', NEW w \in Worker, hdb_reopen(w)
  PROVE  \E h \in Handle, id \in HdId : Table!Mount(id, h)
<1>1. PICK new, id : new = hdict[w] /\ id = arg[w]
  OBVIOUS
<1>2. /\ pc[w] = "opening" /\ pc' = [pc EXCEPT ![w] = "ready"]
      /\ hdict' = [hdict EXCEPT ![w] = NULL]
      /\ hdid' = [hdid EXCEPT ![new] = id]
      /\ UNCHANGED manager
  BY <1>1 DEF hdb_reopen, Mount, Replace, MountAt
<1>3. /\ new \in Handle /\ id \in HdId /\ new \in Opening
      /\ new \notin Range(open_list) \cup Range(close_list)
      /\ Opening' = Opening \ {new}
  BY <1>1, <1>2, OpeningIsPrivate, StopsOpening
<1>4. FindsOpen /\ FindsOpen'
  BY MountedIsOpen, PTL
<1>5. /\ Range(open_list') = (Range(open_list) \ {Mounted(id)}) \cup {new}
      /\ Range(close_list') = Range(close_list) \cup ({Mounted(id)} \ {NULL})
  <2>1. CASE Mount(w)
    <3>1. Mounted(id) = NULL
      BY <1>1, <1>3, <1>4, <2>1 DEF Mount, FindsOpen
    <3>2. Range(Append(open_list, new)) = Range(open_list) \cup {new}
      BY <1>3, AppendLinks DEF IInv, TypeOK
    <3>3. NULL \notin Range(open_list)
      BY ListTypes DEF IInv
    <3>4. QED BY <1>1, <2>1, <3>1, <3>2, <3>3 DEF Mount
  <2>2. CASE Replace(w)
    <3>1. PICK hd \in Range(open_list) :
            /\ FirstOpen(hd, id)
            /\ open_list' = Append(Unlink(open_list, hd), new)
            /\ close_list' = Append(close_list, hd)
      BY <1>1, <2>2 DEF Replace
    <3>2. /\ hd \in Handle /\ hdid[hd] = id
          /\ Unlink(open_list, hd) \in Seq(Handle)
          /\ Range(Unlink(open_list, hd)) = Range(open_list) \ {hd}
          /\ Range(close_list') = Range(close_list) \cup {hd}
      BY <1>3, <3>1, Retires
    <3>3. Mounted(id) = hd
      BY <1>3, <1>4, <3>2 DEF FindsOpen
    <3>4. Range(open_list') = Range(Unlink(open_list, hd)) \cup {new}
      BY <1>3, <3>1, <3>2, AppendLinks
    <3>5. QED BY <3>2, <3>3, <3>4
  <2>3. QED BY <2>1, <2>2 DEF hdb_reopen
<1>6. Mounted(id)' = new
  BY <1>2, <1>3, <1>4, <1>5 DEF FindsOpen, IInv, TypeOK
<1>7. ASSUME NEW n \in HdId, n # id PROVE Mounted(n)' = Mounted(n)
  <2>1. \A g \in Range(open_list) : hdid'[g] = hdid[g]
    BY <1>2, <1>3, ListTypes DEF IInv, TypeOK
  <2>2. hdid'[new] = id
    BY <1>2, <1>3 DEF IInv, TypeOK
  <2>3. \A g \in Range(open_list) : g = Mounted(id) => hdid[g] = id
    BY <1>3, <1>4, ListTypes DEF FindsOpen, IInv
  <2>4. CASE NotOpen(n)
    <3>1. NotOpen(n)'
      BY <1>5, <1>7, <2>1, <2>2, <2>4 DEF NotOpen
    <3>2. QED BY <1>4, <2>4, <3>1 DEF FindsOpen
  <2>5. CASE ~NotOpen(n)
    <3>1. PICK g \in Range(open_list) : hdid[g] = n
      BY <2>5 DEF NotOpen
    <3>2. g \in Range(open_list') /\ hdid'[g] = n
      BY <1>5, <1>7, <2>1, <2>3, <3>1
    <3>3. QED BY <1>4, <3>1, <3>2 DEF FindsOpen
  <2>6. QED BY <2>4, <2>5
<1>8. AllMounted' = [AllMounted EXCEPT ![id] = new]
  BY <1>3, <1>6, <1>7 DEF AllMounted
<1>9. AllPinned' = AllPinned
  BY <1>2 DEF AllPinned, IInv, TypeOK
<1>10. AllRetired' = AllRetired \cup ({AllMounted[id]} \ {NULL})
  BY <1>2, <1>3, <1>5 DEF AllRetired, AllMounted, manager
<1>11. QED BY <1>3, <1>8, <1>9, <1>10 DEF Table!Mount

LEMMA UnmountStep ==
  ASSUME IInv, IInv', NEW w \in Worker, NEW id \in HdId, Close(w, id)
  PROVE  Table!Unmount(id)
<1>1. PICK hd \in Range(open_list) :
        /\ FirstOpen(hd, id)
        /\ open_list' = Unlink(open_list, hd)
        /\ close_list' = Append(close_list, hd)
  BY DEF Close
<1>2. UNCHANGED <<hdid, ref, alive, threads, manager>>
  BY DEF Close
<1>3. /\ hd \in Handle /\ hdid[hd] = id
      /\ Range(open_list') = Range(open_list) \ {hd}
      /\ Range(close_list') = Range(close_list) \cup {hd}
  BY <1>1, Retires
<1>4. FindsOpen /\ FindsOpen'
  BY MountedIsOpen, PTL
<1>5. Mounted(id) = hd /\ hd # NULL
  BY <1>3, <1>4 DEF FindsOpen
<1>6. Mounted(id)' = NULL
  <2>1. NotOpen(id)'
    BY <1>2, <1>3 DEF NotOpen, IInv, OnePerId
  <2>2. QED BY <1>4, <2>1 DEF FindsOpen
<1>7. ASSUME NEW n \in HdId, n # id PROVE Mounted(n)' = Mounted(n)
  <2>1. CASE NotOpen(n)
    BY <1>2, <1>3, <1>4, <2>1 DEF NotOpen, FindsOpen
  <2>2. CASE ~NotOpen(n)
    BY <1>2, <1>3, <1>4, <1>7, <2>2 DEF NotOpen, FindsOpen
  <2>3. QED BY <2>1, <2>2
<1>8. AllMounted' = [AllMounted EXCEPT ![id] = NULL]
  BY <1>6, <1>7 DEF AllMounted
<1>9. AllPinned' = AllPinned /\ Opening' = Opening
  BY <1>2 DEF AllPinned, Opening, threads
<1>10. AllRetired' = AllRetired \cup {AllMounted[id]}
  BY <1>2, <1>3, <1>5 DEF AllRetired, AllMounted, manager
<1>11. QED BY <1>5, <1>8, <1>9, <1>10 DEF Table!Unmount, AllMounted

LEMMA PinStep ==
  ASSUME IInv, IInv', NEW w \in Worker, NEW id \in HdId, Ref(w, id)
  PROVE  Table!Pin(w, id)
<1>1. PICK hd \in Range(htab[HASH(id)]) :
        FirstInChain(hd, id) /\ hdict' = [hdict EXCEPT ![w] = hd]
  BY DEF Ref
<1>2. /\ pc[w] = "ready" /\ pc' = [pc EXCEPT ![w] = "using"]
      /\ UNCHANGED <<lists, htab, hdid, alive, arg, manager>>
  BY DEF Ref
<1>3. hdid[hd] = id /\ hd \in Range(open_list) /\ hd \in Handle
  BY <1>1, OpenIffHashed, ListTypes DEF FirstInChain, IInv
<1>4. Mounted(id) = hd /\ hd # NULL
  BY <1>3, MountedIsOpen DEF FindsOpen
<1>5. AllMounted' = AllMounted /\ AllRetired' = AllRetired
  BY <1>2, MountedSame DEF AllMounted, AllRetired, lists, manager
<1>6. Opening' = Opening
  BY <1>1, <1>2 DEF Opening, IInv, TypeOK
<1>7. AllPinned[w] = NULL /\ AllPinned' = [AllPinned EXCEPT ![w] = hd]
  BY <1>1, <1>2 DEF AllPinned, IInv, TypeOK
<1>8. QED BY <1>4, <1>5, <1>6, <1>7 DEF Table!Pin, AllMounted

LEMMA UnpinStep ==
  ASSUME IInv, IInv', NEW w \in Worker, Deref(w)
  PROVE  Table!Unpin(w)
<1>1. /\ pc[w] = "using" /\ pc' = [pc EXCEPT ![w] = "ready"]
      /\ hdict' = [hdict EXCEPT ![w] = NULL]
      /\ UNCHANGED <<lists, htab, hdid, alive, arg, manager>>
  BY DEF Deref
<1>2. AllMounted' = AllMounted /\ AllRetired' = AllRetired
  BY <1>1, MountedSame DEF AllMounted, AllRetired, lists, manager
<1>3. Opening' = Opening
  BY <1>1 DEF Opening, IInv, TypeOK
<1>4. AllPinned[w] # NULL
  BY <1>1, ListTypes DEF AllPinned, IInv, WorkersOK
<1>5. AllPinned' = [AllPinned EXCEPT ![w] = NULL]
  BY <1>1 DEF AllPinned, IInv, TypeOK
<1>6. QED BY <1>2, <1>3, <1>4, <1>5 DEF Table!Unpin

LEMMA ReclaimStep ==
  ASSUME IInv, IInv', HdictClose
  PROVE  \E h \in Handle : Table!Reclaim(h)
<1>1. /\ hdicts # <<>> /\ hdicts' = Tail(hdicts)
      /\ UNCHANGED <<lists, htab, hdid, ref, threads>>
  BY DEF HdictClose
<1>2. PICK h \in Range(hdicts) :
        /\ h \in Handle /\ Range(hdicts') = Range(hdicts) \ {h}
  BY <1>1, TailRemoves, ListTypes DEF IInv, TypeOK, OwnedOnce
<1>3. h \notin Range(close_list) /\ h \notin Range(open_list)
  BY <1>2 DEF IInv, OwnedOnce
<1>4. AllRetired' = AllRetired \ {h} /\ h \in AllRetired
  BY <1>1, <1>2, <1>3 DEF AllRetired, lists
<1>5. \A w \in Worker : AllPinned[w] # h
  BY <1>2, <1>3 DEF AllPinned, IInv, WorkersOK
<1>6. AllMounted' = AllMounted
  BY <1>1, MountedSame DEF AllMounted, lists
<1>7. AllPinned' = AllPinned /\ Opening' = Opening
  BY <1>1 DEF AllPinned, Opening, threads
<1>8. QED BY <1>2, <1>4, <1>5, <1>6, <1>7 DEF Table!Reclaim

\* The manager's walk over the list and its moves change nothing users see.
LEMMA HiddenStep ==
  ASSUME IInv, IInv',
         MgrCheck \/ MgrLock \/ MgrTake \/ MgrSkip \/ MgrUnlock \/ MgrSleep \/ UNCHANGED vars
  PROVE  UNCHANGED Table!vars
<1>1. UNCHANGED <<open_list, htab, hdid, threads>>
  BY DEF MgrCheck, MgrLock, MgrTake, MgrSkip, MgrUnlock, MgrSleep, vars, lists
<1>2. AllRetired' = AllRetired
  <2>1. CASE MgrTake
    <3>1. PICK hd \in Range(close_list) :
            /\ hd \in Handle
            /\ hdicts' = Append(hdicts, hd)
            /\ close_list' = Unlink(close_list, hd)
      BY <2>1, RangeAt DEF MgrTake, IInv, TypeOK
    <3>2. Range(close_list') = Range(close_list) \ {hd}
      BY <3>1, UnlinkRemoves DEF IInv, TypeOK, OwnedOnce
    <3>3. Range(hdicts') = Range(hdicts) \cup {hd}
      BY <3>1, AppendLinks DEF IInv, TypeOK
    <3>4. QED BY <3>2, <3>3 DEF AllRetired
  <2>2. CASE ~MgrTake
    BY <2>2 DEF AllRetired, MgrCheck, MgrLock, MgrSkip, MgrUnlock, MgrSleep, vars, lists, manager
  <2>3. QED BY <2>1, <2>2
<1>3. AllMounted' = AllMounted
  BY <1>1, MountedSame DEF AllMounted
<1>4. AllPinned' = AllPinned /\ Opening' = Opening
  BY <1>1 DEF AllPinned, Opening, threads
<1>5. QED BY <1>2, <1>3, <1>4 DEF Table!vars

LEMMA TableStepMaps == IInv /\ IInv' /\ [Next]_vars => [Table!Next]_(Table!vars)
<1> SUFFICES ASSUME IInv, IInv', [Next]_vars PROVE [Table!Next]_(Table!vars)
  OBVIOUS
<1>1. ASSUME NEW w \in Worker, NEW id \in HdId, HdictOpen(w, id) PROVE Table!Next
  BY <1>1, LoadStep DEF Table!Next
<1>2. ASSUME NEW w \in Worker, NEW id \in HdId, Close(w, id) PROVE Table!Next
  BY <1>2, UnmountStep DEF Table!Next
<1>3. ASSUME NEW w \in Worker, NEW id \in HdId, Ref(w, id) PROVE Table!Next
  BY <1>3, PinStep DEF Table!Next
<1>4. ASSUME NEW w \in Worker, NEW id \in HdId, RefMiss(w, id) \/ CloseMiss(w, id)
      PROVE  UNCHANGED Table!vars
  BY <1>4, HiddenStep DEF RefMiss, CloseMiss
<1>5. ASSUME NEW w \in Worker, HdictOpenFail(w) PROVE Table!Next
  BY <1>5, DiscardStep DEF Table!Next
<1>6. ASSUME NEW w \in Worker, hdb_reopen(w) PROVE Table!Next
  BY <1>6, MountStep DEF Table!Next
<1>7. ASSUME NEW w \in Worker, Deref(w) PROVE Table!Next
  BY <1>7, UnpinStep DEF Table!Next
<1>8. CASE HdictClose
  BY <1>8, ReclaimStep DEF Table!Next
<1>9. CASE hdb_mgr /\ ~HdictClose
  BY <1>9, HiddenStep DEF hdb_mgr
<1>10. CASE UNCHANGED vars
  BY <1>10, HiddenStep
<1>11. QED
  BY <1>1, <1>2, <1>3, <1>4, <1>5, <1>6, <1>7, <1>8, <1>9, <1>10 DEF Next

LEMMA MountedIffHashed ==
  ASSUME IInv, NEW id \in HdId
  PROVE  Mounted(id) = NULL <=> NotInChain(id)
<1>1. CASE NotInChain(id) BY <1>1 DEF Mounted
<1>2. CASE ~NotInChain(id)
  <2>1. PICK h \in Range(htab[HASH(id)]) : hdid[h] = id BY <1>2 DEF NotInChain
  <2>2. h \in Range(open_list) /\ h \in Handle
    BY <2>1, OpenIffHashed, ListTypes DEF IInv
  <2>3. Mounted(id) = h BY <2>1, <2>2, MountedIsOpen DEF FindsOpen
  <2> QED BY <1>2, <2>2, <2>3, HdbAssumption
<1> QED BY <1>1, <1>2

\* Each step but a close of its number leaves a number mounted.
LEMMA UnmountsByClose ==
  ASSUME IInv, IInv', [Next]_vars, NEW id \in HdId, ~NotInChain(id), NotInChain(id)'
  PROVE  \E w \in Worker : Close(w, id)
<1>1. AllMounted[id] # NULL /\ AllMounted'[id] = NULL
  <2>1. Mounted(id) # NULL BY MountedIffHashed
  <2>2. Mounted(id)' = NULL BY DEF Mounted
  <2> QED BY <2>1, <2>2 DEF AllMounted
<1>2. NULL \notin Handle BY HdbAssumption
<1>3. ~ UNCHANGED Table!vars BY <1>1 DEF Table!vars
<1>4. ASSUME NEW w \in Worker, NEW n \in HdId, Close(w, n)
      PROVE  \E v \in Worker : Close(v, id)
  <2>1. AllMounted' = [AllMounted EXCEPT ![n] = NULL] BY <1>4, UnmountStep DEF Table!Unmount
  <2>2. n = id BY <1>1, <2>1 DEF AllMounted
  <2> QED BY <1>4, <2>2
<1>5. ASSUME NEW w \in Worker, NEW n \in HdId, HdictOpen(w, n) PROVE FALSE
  BY <1>1, <1>5, LoadStep DEF Table!Load
<1>6. ASSUME NEW w \in Worker, NEW n \in HdId, Ref(w, n) PROVE FALSE
  BY <1>1, <1>6, PinStep DEF Table!Pin
<1>7. ASSUME NEW w \in Worker, NEW n \in HdId, RefMiss(w, n) \/ CloseMiss(w, n) PROVE FALSE
  BY <1>3, <1>7, HiddenStep DEF RefMiss, CloseMiss
<1>8. ASSUME NEW w \in Worker, HdictOpenFail(w) PROVE FALSE
  BY <1>1, <1>8, DiscardStep DEF Table!Discard
<1>9. ASSUME NEW w \in Worker, hdb_reopen(w) PROVE FALSE
  <2>1. PICK h \in Handle, n \in HdId : Table!Mount(n, h) BY <1>9, MountStep
  <2>2. AllMounted' = [AllMounted EXCEPT ![n] = h] BY <2>1 DEF Table!Mount
  <2> QED BY <1>1, <1>2, <2>2 DEF AllMounted
<1>10. ASSUME NEW w \in Worker, Deref(w) PROVE FALSE
  BY <1>1, <1>10, UnpinStep DEF Table!Unpin
<1>11. CASE HdictClose
  BY <1>1, <1>11, ReclaimStep DEF Table!Reclaim
<1>12. CASE hdb_mgr /\ ~HdictClose BY <1>3, <1>12, HiddenStep DEF hdb_mgr
<1>13. CASE UNCHANGED vars BY <1>3, <1>13, HiddenStep
<1> QED BY <1>4, <1>5, <1>6, <1>7, <1>8, <1>9, <1>10, <1>11, <1>12, <1>13 DEF Next

\* Replacing never makes a number unavailable: lookups lose one only when it is
\* closed.
THEOREM OnlyCloseUnmountsHolds == Spec => OnlyCloseUnmounts
<1> DEFINE Closes == \A id \in HdId :
      ~NotInChain(id) /\ NotInChain(id)' => \E w \in Worker : Close(w, id)
<1>1. IInv /\ IInv' /\ [Next]_vars => [Closes]_vars BY UnmountsByClose
<1> QED BY <1>1, InductiveInvariant, PTL DEF Spec, OnlyCloseUnmounts

\* hdict.c keeps what MountTable promises: replacing is atomic, a reader pins
\* what is mounted when it asks, nothing pinned is reclaimed, nothing retired
\* is mounted again.
THEOREM ImplementsTableSafety == Spec => KeepsTable
BY InductiveInvariant, TableInit, TableStepMaps, PTL DEF Spec, KeepsTable, Table!Spec
=============================================================================
