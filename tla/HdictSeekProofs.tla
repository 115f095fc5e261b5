--------------------------- MODULE HdictSeekProofs ---------------------------
(***************************************************************************)
(* hdict_seek finds what the source holds and nothing else, for every      *)
(* source of up to WORD / 2 lines, without the filter, and with it when    *)
(* the line maker survives writing it.                                     *)
(***************************************************************************)
EXTENDS HdictSeek, TLAPS

USE SeekAssumption

-----------------------------------------------------------------------------
(* Arithmetic *)

LEMMA ProductNat == \A a, b \in Nat : a * b \in Nat
  OBVIOUS

\* What a pos packs is what it unpacks to.
LEMMA PosUnpacks ==
  ASSUME NEW a \in Nat, NEW b \in 0 .. OFFS - 1
  PROVE  (a * OFFS + b) % OFFS = b /\ (a * OFFS + b) \div OFFS = a
<1> DEFINE n == a * OFFS + b
           q == n \div OFFS
           r == n % OFFS
<1>1. a * OFFS \in Nat /\ n \in Nat /\ OFFS \in Nat /\ OFFS > 0
  BY ProductNat
<1>2. q \in Int /\ r \in 0 .. OFFS - 1 /\ n = OFFS * q + r
  BY <1>1
<1> HIDE DEF q, r
<1>3. OFFS * (a - q) = r - b
  BY <1>1, <1>2
<1>4. ~(a - q >= 1)
  <2>1. SUFFICES ASSUME a - q >= 1 PROVE FALSE
    OBVIOUS
  <2>2. OFFS * (a - q) >= OFFS
    BY <1>1, <1>2, <2>1
  <2>3. QED BY <1>2, <1>3, <2>2
<1>5. ~(a - q <= -1)
  <2>1. SUFFICES ASSUME a - q <= -1 PROVE FALSE
    OBVIOUS
  <2>2. OFFS * (a - q) <= -OFFS
    BY <1>1, <1>2, <2>1
  <2>3. QED BY <1>2, <1>3, <2>2
<1>6. a = q
  BY <1>2, <1>4, <1>5
<1>7. r = b
  BY <1>1, <1>2, <1>6
<1>8. QED BY <1>6, <1>7 DEF q, r

\* What the type invariant says of the elements of the lists.
LEMMA Elements ==
  ASSUME TypeOK
  PROVE  /\ Len(lines) \in Nat /\ DOMAIN lines = 1 .. Len(lines)
         /\ Len(idx) \in Nat /\ DOMAIN idx = 1 .. Len(idx)
         /\ \A i \in DOMAIN lines : lines[i] \in Line /\ lines[i].key \in Nat
         /\ \A i \in DOMAIN idx : idx[i] \in Entry /\ idx[i].key \in Nat
         /\ key \in Nat
<1>1. lines \in Seq(Line) /\ idx \in Seq(Entry) /\ key \in Key
  BY DEF TypeOK
<1>2. \A l \in Line : l.key \in Nat
  BY DEF Line
<1>3. \A e \in Entry : e.key \in Nat
  BY DEF Entry
<1>4. \A i \in DOMAIN lines : lines[i] \in Line
  BY <1>1
<1>5. \A i \in DOMAIN idx : idx[i] \in Entry
  BY <1>1
<1>6. QED BY <1>1, <1>2, <1>3, <1>4, <1>5

\* mid lies between low and high, because their sum fits a word.
LEMMA MidBetween ==
  ASSUME TypeOK, FilesOK, Narrowed, pc = "loop" \/ pc = "hit", low < high
  PROVE  /\ mid = (low + high) \div 2
         /\ mid \in Nat /\ low <= mid /\ mid < high
         /\ mid + 1 \in DOMAIN idx /\ AtMid \in Entry
         /\ high <= Len(idx) /\ Len(idx) \in Nat
<1>1. low \in Nat /\ high \in Nat /\ Len(idx) \in Nat /\ DOMAIN idx = 1 .. Len(idx)
  BY DEF TypeOK
<1>2. high <= Len(idx) /\ Len(idx) <= LinesMax
  BY DEF TypeOK, FilesOK, Narrowed
<1>3. low + high \in 0 .. WORD - 1
  BY <1>1, <1>2
<1>4. (low + high) % WORD = low + high
  BY <1>3
<1>5. mid = (low + high) \div 2
  BY <1>4 DEF mid
<1>6. mid \in Nat /\ low <= mid /\ mid < high
  BY <1>1, <1>5
<1>7. mid + 1 \in DOMAIN idx
  BY <1>1, <1>2, <1>6
<1>8. AtMid \in Entry
  BY <1>7 DEF AtMid, TypeOK
<1>9. QED BY <1>1, <1>2, <1>5, <1>6, <1>7, <1>8

-----------------------------------------------------------------------------
(* The files *)

LEMMA InitSeekInv == Init => SeekInv
<1> SUFFICES ASSUME Init PROVE SeekInv
  OBVIOUS
<1>1. TypeOK
  <2>1. 0 \in 0 .. WORD - 1 /\ 0 \in 0 .. OFFS - 1 /\ 0 <= LinesMax
    OBVIOUS
  <2>2. lines \in Seq(Line) /\ idx \in Seq(Entry) /\ Len(lines) = 0
    BY DEF Init
  <2>3. QED BY <2>1, <2>2 DEF Init, TypeOK
<1>2. ValuesInside /\ FilesOK /\ Narrowed /\ Concluded
  BY DEF Init, ValuesInside, FilesOK, Narrowed, Concluded
<1>3. QED BY <1>1, <1>2 DEF SeekInv

LEMMA ReadLineSeekInv ==
  ASSUME SeekInv, NEW k \in Key, NEW len \in 0 .. LenMax, ReadLine(k, len)
  PROVE  SeekInv'
<1> DEFINE line == [key |-> k, len |-> len, off |-> dat_len]
<1>1. line \in Line /\ dat_len' \in 0 .. OFFS - 1
  BY DEF SeekInv, TypeOK, ReadLine, Line
<1>2. lines' \in Seq(Line) /\ Len(lines') = Len(lines) + 1 /\ Len(lines) \in Nat
  BY <1>1 DEF SeekInv, TypeOK, ReadLine
<1>3. Len(lines') <= LinesMax
  BY <1>2 DEF ReadLine
<1>4. TypeOK'
  BY <1>1, <1>2, <1>3 DEF SeekInv, TypeOK, ReadLine
<1>5. pc' = "make"
  BY DEF ReadLine
<1>6. ValuesInside'
  <2>1. SUFFICES ASSUME NEW i \in DOMAIN lines'
                 PROVE  lines'[i].off + lines'[i].len <= dat_len'
    BY DEF ValuesInside
  <2>2. dat_len' = dat_len + len /\ dat_len \in Nat /\ len \in Nat
    BY DEF ReadLine, SeekInv, TypeOK
  <2>3. CASE i \in DOMAIN lines
    <3>1. lines'[i] = lines[i]
      <4>1. lines \in Seq(Line) /\ lines' = Append(lines, line) /\ i \in 1 .. Len(lines)
        BY <2>3, Elements DEF ReadLine, SeekInv, TypeOK
      <4>2. QED BY <1>1, <4>1
    <3>2. lines[i].off \in Nat /\ lines[i].len \in Nat
      BY <2>3, Elements DEF SeekInv, Line
    <3>3. lines[i].off + lines[i].len <= dat_len
      BY <2>3 DEF SeekInv, ValuesInside
    <3>4. QED BY <2>2, <3>1, <3>2, <3>3
  <2>4. CASE i \notin DOMAIN lines
    <3>1. i = Len(lines) + 1
      BY <1>2, <2>4, Elements DEF SeekInv
    <3>2. lines'[i] = line
      BY <3>1 DEF ReadLine, SeekInv, TypeOK
    <3>3. QED BY <2>2, <3>2
  <2>5. QED BY <2>3, <2>4
<1>7. QED BY <1>4, <1>5, <1>6 DEF SeekInv, FilesOK, Narrowed, Concluded

LEMMA WriteIdxSeekInv ==
  ASSUME SeekInv, WriteIdx
  PROVE  SeekInv'
<1> USE DEF SeekInv
<1>1. PICK p \in Sorting :
        idx' = [i \in DOMAIN lines |->
                  [key |-> lines[p[i]].key, pos |-> Pos(lines[p[i]])]]
  BY DEF WriteIdx
<1>2. /\ DOMAIN lines = 1 .. Len(lines) /\ Len(lines) \in Nat
      /\ \A i \in DOMAIN lines : p[i] \in DOMAIN lines /\ lines[p[i]] \in Line
  BY Elements DEF Sorting
<1>3. \A line \in Line : line.key \in Key /\ Pos(line) \in Nat
  <2>1. SUFFICES ASSUME NEW line \in Line PROVE Pos(line) \in Nat
    BY DEF Line
  <2>2. line.len \in Nat /\ line.off \in Nat
    BY DEF Line
  <2>3. line.len % LENS \in Nat
    BY <2>2
  <2>4. (line.len % LENS) * OFFS \in Nat
    BY <2>3, ProductNat
  <2>5. QED BY <2>2, <2>4 DEF Pos
<1>4. idx' \in Seq(Entry) /\ Len(idx') = Len(lines)
  BY <1>1, <1>2, <1>3 DEF Entry
<1>5. DOMAIN idx' = DOMAIN lines /\ lines' = lines
  BY <1>1, <1>2 DEF WriteIdx
<1>6. \A i \in DOMAIN lines : lines[i].key \in Nat
  BY Elements
<1>7. filtered' \in BOOLEAN /\ (filtered' => lines # <<>>)
  BY DEF WriteIdx
<1>8. ASSUME filtered'
      PROVE  /\ bit' \subseteq Nat
             /\ \A i \in DOMAIN lines : lines[i].key % bit_num \in bit'
  <2>1. bit_num > 0
    BY <1>8 DEF WriteIdx
  <2>2. bit_num \in Nat
    <3>1. Len(lines) * BIT_MULTI \in Nat
      BY <1>2, ProductNat
    <3>2. bit_num \in Int
      BY <3>1 DEF bit_num, int
    <3> QED BY <2>1, <3>2
  <2>3. bit' = {lines[i].key % bit_num : i \in DOMAIN lines}
    BY <1>8 DEF WriteIdx
  <2>4. \A i \in DOMAIN lines : lines[i].key % bit_num \in Nat
    BY <1>6, <2>1, <2>2
  <2>5. QED BY <2>3, <2>4
<1>9. ~filtered' => bit' = {}
  BY DEF WriteIdx
<1>10. TypeOK'
  BY <1>4, <1>5, <1>7, <1>8, <1>9 DEF WriteIdx, TypeOK
<1>11. \A j \in DOMAIN lines : \E i \in DOMAIN idx' :
         idx'[i].key = lines[j].key /\ idx'[i].pos = Pos(lines[j])
  <2>1. SUFFICES ASSUME NEW j \in DOMAIN lines
                 PROVE  \E i \in DOMAIN idx' :
                          idx'[i].key = lines[j].key /\ idx'[i].pos = Pos(lines[j])
    OBVIOUS
  <2>2. PICK i \in DOMAIN lines : p[i] = j
    BY DEF Sorting
  <2>3. idx'[i].key = lines[j].key /\ idx'[i].pos = Pos(lines[j])
    BY <1>1, <2>2
  <2>4. QED BY <1>5, <2>2, <2>3
<1>12. \A i \in DOMAIN idx' : \E j \in DOMAIN lines :
         idx'[i].key = lines[j].key /\ idx'[i].pos = Pos(lines[j])
  BY <1>1, <1>2, <1>5
<1>13. \A i, j \in DOMAIN idx' : i < j => idx'[i].key <= idx'[j].key
  BY <1>1, <1>5 DEF Sorting
<1>14. FilesOK'
  BY <1>4, <1>5, <1>7, <1>8, <1>11, <1>12, <1>13 DEF FilesOK, Pos, bit_num, int
<1>15. pc' = "ready"
  BY DEF WriteIdx
<1>16. ValuesInside'
  BY DEF WriteIdx, ValuesInside
<1>17. QED BY <1>10, <1>14, <1>15, <1>16 DEF Narrowed, Concluded

-----------------------------------------------------------------------------
(* The search *)

LEMMA FilesStay ==
  ASSUME FilesOK, ValuesInside, UNCHANGED files, pc \notin {"make", "dead"}
  PROVE  FilesOK' /\ ValuesInside'
  BY DEF FilesOK, ValuesInside, files, Pos, bit_num, int

LEMMA SeekSeekInv ==
  ASSUME SeekInv, NEW k \in Key, Seek(k)
  PROVE  SeekInv'
<1>1. FilesOK' /\ ValuesInside'
  BY FilesStay DEF SeekInv, Seek
<1>2. QED BY <1>1 DEF SeekInv, Seek, TypeOK, files, Narrowed, Concluded

LEMMA FilterSeekInv ==
  ASSUME SeekInv, Filter
  PROVE  SeekInv'
<1> USE DEF SeekInv
<1>1. FilesOK' /\ ValuesInside'
  BY FilesStay DEF Filter
<1>2. Len(idx) \in 0 .. WORD - 1 /\ DOMAIN idx = 1 .. Len(idx)
  BY DEF TypeOK, FilesOK, Filter
<1>3. TypeOK'
  BY <1>2 DEF TypeOK, Filter, files
<1>4. Narrowed'
  BY <1>2 DEF Filter, Narrowed, files
<1>5. ASSUME pc' = "miss" PROVE \A i \in DOMAIN idx : idx[i].key # key
  <2>1. filtered /\ key % bit_num \notin bit
    BY <1>5 DEF Filter
  <2>2. QED BY <2>1 DEF Filter, FilesOK
<1>6. Concluded'
  BY <1>5 DEF Filter, Concluded, files
<1>7. QED BY <1>1, <1>3, <1>4, <1>6

LEMMA GoLeftSeekInv ==
  ASSUME SeekInv, GoLeft
  PROVE  SeekInv'
<1> USE DEF SeekInv
<1>1. /\ mid \in Nat /\ low <= mid /\ mid < high
      /\ mid + 1 \in DOMAIN idx /\ AtMid \in Entry /\ high <= Len(idx) /\ Len(idx) \in Nat
  BY MidBetween DEF GoLeft
<1>2. FilesOK' /\ ValuesInside'
  BY FilesStay DEF GoLeft
<1>3. TypeOK'
  <2>1. high' \in 0 .. WORD - 1
    <3>1. low \in 0 .. WORD - 1 /\ high \in 0 .. WORD - 1
      BY DEF TypeOK
    <3>2. QED BY <1>1, <3>1 DEF GoLeft
  <2>2. QED BY <2>1 DEF TypeOK, GoLeft, files
<1>4. \A i \in mid + 1 .. Len(idx) : idx[i].key > key
  <2>1. SUFFICES ASSUME NEW i \in mid + 1 .. Len(idx) PROVE idx[i].key > key
    OBVIOUS
  <2>2. i \in DOMAIN idx /\ idx[i] \in Entry
    BY <1>1, Elements
  <2>3. /\ idx[mid + 1].key \in Nat /\ idx[i].key \in Nat /\ key \in Nat
        /\ mid + 1 \in DOMAIN idx
    BY <1>1, <2>2, Elements
  <2>4. idx[mid + 1].key <= idx[i].key
    <3>1. CASE i = mid + 1
      BY <2>3, <3>1
    <3>2. CASE mid + 1 < i
      BY <1>1, <2>2, <3>2 DEF FilesOK, GoLeft
    <3>3. QED BY <1>1, <3>1, <3>2
  <2>5. idx[mid + 1].key > key
    BY DEF GoLeft, AtMid
  <2>6. QED BY <2>3, <2>4, <2>5
<1>5. Narrowed'
  BY <1>1, <1>4 DEF Narrowed, GoLeft, files
<1>6. QED BY <1>2, <1>3, <1>5 DEF GoLeft, Concluded

LEMMA GoRightSeekInv ==
  ASSUME SeekInv, GoRight
  PROVE  SeekInv'
<1> USE DEF SeekInv
<1>1. /\ mid \in Nat /\ low <= mid /\ mid < high
      /\ mid + 1 \in DOMAIN idx /\ AtMid \in Entry /\ high <= Len(idx) /\ Len(idx) \in Nat
  BY MidBetween DEF GoRight
<1>2. FilesOK' /\ ValuesInside'
  BY FilesStay DEF GoRight
<1>3. TypeOK'
  <2>1. low' \in 0 .. WORD - 1
    <3>1. low \in 0 .. WORD - 1 /\ high \in 0 .. WORD - 1
      BY DEF TypeOK
    <3>2. QED BY <1>1, <3>1 DEF GoRight
  <2>2. QED BY <2>1 DEF TypeOK, GoRight, files
<1>4. \A i \in 1 .. mid + 1 : idx[i].key < key
  <2>1. SUFFICES ASSUME NEW i \in 1 .. mid + 1 PROVE idx[i].key < key
    OBVIOUS
  <2>2. i \in DOMAIN idx /\ idx[i] \in Entry
    BY <1>1, Elements
  <2>3. /\ idx[mid + 1].key \in Nat /\ idx[i].key \in Nat /\ key \in Nat
        /\ mid + 1 \in DOMAIN idx
    BY <1>1, <2>2, Elements
  <2>4. idx[i].key <= idx[mid + 1].key
    <3>1. CASE i = mid + 1
      BY <2>3, <3>1
    <3>2. CASE i < mid + 1
      BY <1>1, <2>2, <3>2 DEF FilesOK, GoRight
    <3>3. QED BY <1>1, <3>1, <3>2
  <2>5. idx[mid + 1].key < key
    BY DEF GoRight, AtMid
  <2>6. QED BY <2>3, <2>4, <2>5
<1>5. Narrowed'
  <2>1. low' = mid + 1 /\ high' = high /\ idx' = idx /\ key' = key
    BY DEF GoRight, files
  <2>2. low' <= high' /\ high' <= Len(idx')
    <3>1. high \in Nat
      BY DEF TypeOK
    <3>2. QED BY <1>1, <2>1, <3>1
  <2>3. \A i \in high + 1 .. Len(idx) : idx[i].key > key
    BY DEF Narrowed, GoRight
  <2>4. QED BY <1>4, <2>1, <2>2, <2>3 DEF Narrowed
<1>6. QED BY <1>2, <1>3, <1>5 DEF GoRight, Concluded

LEMMA HitSeekInv ==
  ASSUME SeekInv, Hit
  PROVE  SeekInv'
<1>1. FilesOK' /\ ValuesInside'
  BY FilesStay DEF SeekInv, Hit
<1>2. AtMid' = AtMid
  BY DEF Hit, AtMid, mid, files
<1>3. Concluded'
  BY <1>2 DEF Hit, Concluded
<1>4. QED BY <1>1, <1>3 DEF SeekInv, Hit, TypeOK, Narrowed, files

LEMMA MissSeekInv ==
  ASSUME SeekInv, Miss
  PROVE  SeekInv'
<1> USE DEF SeekInv
<1>1. FilesOK' /\ ValuesInside'
  BY FilesStay DEF Miss
<1>2. \A i \in DOMAIN idx : idx[i].key # key
  <2>1. SUFFICES ASSUME NEW i \in DOMAIN idx PROVE idx[i].key # key
    OBVIOUS
  <2>2. low \in Nat /\ high \in Nat /\ low >= high /\ i \in 1 .. Len(idx)
    BY DEF TypeOK, Miss
  <2>3. i \in 1 .. low \/ i \in high + 1 .. Len(idx)
    BY <2>2
  <2>4. idx[i].key < key \/ idx[i].key > key
    BY <2>3 DEF Narrowed, Miss
  <2>5. idx[i].key \in Nat /\ key \in Nat
    BY Elements
  <2>6. QED BY <2>4, <2>5
<1>3. QED BY <1>1, <1>2 DEF Miss, TypeOK, Narrowed, Concluded, files

LEMMA NextSeekInv == SeekInv /\ [Next]_vars => SeekInv'
<1> SUFFICES ASSUME SeekInv, [Next]_vars PROVE SeekInv'
  OBVIOUS
<1>1. CASE UNCHANGED vars
  BY <1>1 DEF vars, files, SeekInv, TypeOK, ValuesInside, FilesOK, Narrowed, Concluded, Pos, bit_num,
              int,
              AtMid, mid
<1>2. ASSUME NEW k \in Key, NEW len \in 0 .. LenMax, ReadLine(k, len) PROVE SeekInv'
  BY <1>2, ReadLineSeekInv
<1>3. ASSUME NEW k \in Key, Seek(k) PROVE SeekInv'
  BY <1>3, SeekSeekInv
<1>4. CASE WriteIdx
  BY <1>4, WriteIdxSeekInv
<1>7. CASE WriteDies
  BY <1>7 DEF WriteDies, files, SeekInv, TypeOK, ValuesInside, FilesOK, Narrowed, Concluded
<1>5. CASE hdict_seek
  BY <1>5, FilterSeekInv, GoLeftSeekInv, GoRightSeekInv, HitSeekInv, MissSeekInv
     DEF hdict_seek
<1>6. QED BY <1>1, <1>2, <1>3, <1>4, <1>5, <1>7 DEF Next

-----------------------------------------------------------------------------
\* The interval between low and high always holds every entry with the key.
THEOREM SeekInvariant == Spec => []SeekInv
BY InitSeekInv, NextSeekInv, PTL DEF Spec

\* No probe leaves the index: the sum of low and high never wraps.
THEOREM ProbeInsideHolds == Spec => []ProbeInside
<1>1. SeekInv => ProbeInside
  BY MidBetween DEF SeekInv, ProbeInside
<1>2. QED BY <1>1, SeekInvariant, PTL

\* A hit is the place of a value the source gave the key, all of it inside dat; a
\* miss is its absence.
THEOREM FoundHolds == Spec => []Found
<1>1. SeekInv => Found
  <2> SUFFICES ASSUME SeekInv PROVE Found
    OBVIOUS
  <2> USE DEF SeekInv
  <2>1. ASSUME pc = "hit"
        PROVE  /\ hdict_read(off, length)
               /\ \E i \in Source(key) : off = lines[i].off /\ length = lines[i].len
    <3>1. mid + 1 \in DOMAIN idx /\ AtMid.key = key
      BY <2>1, MidBetween DEF Concluded
    <3>2. PICK j \in DOMAIN lines :
            AtMid.key = lines[j].key /\ AtMid.pos = Pos(lines[j])
      BY <2>1, <3>1 DEF FilesOK, AtMid
    <3>3. lines[j].len \in 0 .. LenMax /\ lines[j].off \in 0 .. OFFS - 1
      BY Elements DEF Line
    <3>4. lines[j].len % LENS = lines[j].len
      BY <3>3
    <3>5. AtMid.pos = lines[j].len * OFFS + lines[j].off
      BY <3>2, <3>4 DEF Pos
    <3>6. off = lines[j].off /\ length = lines[j].len
      BY <3>3, <3>5, PosUnpacks DEF off, length
    <3>7. j \in Source(key)
      BY <3>1, <3>2 DEF Source
    <3>8. hdict_read(off, length)
      BY <3>2, <3>6 DEF hdict_read, ValuesInside
    <3>9. QED BY <3>6, <3>7, <3>8
  <2>2. ASSUME pc = "miss" PROVE Source(key) = {}
    <3>1. \A i \in DOMAIN idx : idx[i].key # key
      BY <2>2 DEF Concluded
    <3>2. QED BY <2>2, <3>1 DEF FilesOK, Source
  <2>3. QED BY <2>1, <2>2 DEF Found
<1>2. QED BY <1>1, SeekInvariant, PTL
=============================================================================
