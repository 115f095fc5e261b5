----------------------------- MODULE HdictSeek -----------------------------
(***************************************************************************)
(* Finding a key in a dictionary: the files tools/lushan_line_maker.cc     *)
(* writes (dat, the sorted idx, the optional bit filter), and the search   *)
(* hdict_seek makes in them. Words keep their width, as WORD, OFFS and     *)
(* LENS: the size of the filter is an int, which many lines overflow.      *)
(***************************************************************************)
EXTENDS Integers, Sequences

CONSTANTS
  Key,        \* keys (64 bits, unsigned)
  LinesMax,   \* bound: lines of a source file
  LenMax,     \* bound: length of a value
  BIT_MULTI,  \* bits of the filter for each key (128 in the code)
  WORD,       \* 2^32, the range of uint32_t
  OFFS,       \* 2^40, the range of the offset in pos
  LENS        \* 2^24, the range of the length in pos

\* Fewer than 2^31 entries, and values shorter than 16 MB.
ASSUME SeekAssumption ==
  /\ Key \subseteq Nat
  /\ {LinesMax, LenMax} \subseteq Nat
  /\ {BIT_MULTI, WORD, OFFS, LENS} \subseteq Nat \ {0}
  /\ 2 * LinesMax <= WORD /\ LenMax < LENS

VARIABLES
  lines,    \* the lines read, each with the offset its value has in dat
  dat_len,  \* bytes written to dat
  idx,      \* the entries of the file idx, and of hdict->idx
  filtered, \* a bit filter was made, and fits the index
  bit,      \* the bits set in it
  pc,       \* make, ready, dead; in hdict_seek filter, loop, hit or miss
  key,      \* what is searched
  low, high

files == <<lines, dat_len, idx, filtered, bit>>
vars == <<files, pc, key, low, high>>

Line == [key : Key, len : 0 .. LenMax, off : 0 .. OFFS - 1]
Entry == [key : Key, pos : Nat]

TypeOK ==
  /\ lines \in Seq(Line) /\ Len(lines) <= LinesMax
  /\ dat_len \in 0 .. OFFS - 1
  /\ idx \in Seq(Entry)
  /\ filtered \in BOOLEAN /\ bit \subseteq Nat
  /\ pc \in {"make", "ready", "dead", "filter", "loop", "hit", "miss"}
  /\ key \in Key
  /\ low \in 0 .. WORD - 1 /\ high \in 0 .. WORD - 1

\* A new directory with empty files; where one exists nothing is made.
Init ==
  /\ lines = <<>> /\ dat_len = 0
  /\ idx = <<>> /\ filtered = FALSE /\ bit = {}
  /\ pc = "make"
  /\ key \in Key
  /\ low = 0 /\ high = 0

-----------------------------------------------------------------------------
(* lushan_line_maker *)

\* A line's value goes to the end of dat (bound: dat stays below OFFS).
ReadLine(k, len) ==
  /\ pc = "make" /\ Len(lines) < LinesMax /\ dat_len + len < OFFS
  /\ lines' = Append(lines, [key |-> k, len |-> len, off |-> dat_len])
  /\ dat_len' = dat_len + len
  /\ UNCHANGED <<idx, filtered, bit, pc, key, low, high>>

\* (len << 40) | off, in 64 bits.
Pos(line) == (line.len % LENS) * OFFS + line.off

\* Orders of the lines by key; std::sort leaves equal keys in any order.
Sorting ==
  {p \in [DOMAIN lines -> DOMAIN lines] :
     /\ \A j \in DOMAIN lines : \E i \in DOMAIN lines : p[i] = j
     /\ \A i, j \in DOMAIN lines : i < j => lines[p[i]].key <= lines[p[j]].key}

\* What an int keeps of a number.
int(n) == LET m == n % WORD IN IF 2 * m < WORD THEN m ELSE m - WORD

\* The bits of the filter: BIT_MULTI for each line, as an int.
bit_num == int(Len(lines) * BIT_MULTI)

\* The index is sorted and written, and with -b the filter. hdict_open takes the
\* filter when the index is not empty and its size is BIT_MULTI for each entry,
\* which it is not when the int has gone round.
WriteIdx ==
  /\ pc = "make"
  /\ \E p \in Sorting :
       idx' = [i \in DOMAIN lines |->
                 [key |-> lines[p[i]].key, pos |-> Pos(lines[p[i]])]]
  /\ \E with_bit \in BOOLEAN :
       /\ with_bit => lines = <<>> \/ bit_num > 0
       /\ filtered' = (with_bit /\ lines # <<>> /\ bit_num \div Len(lines) = BIT_MULTI)
       /\ bit' = IF filtered' THEN {lines[i].key % bit_num : i \in DOMAIN lines} ELSE {}
  /\ pc' = "ready"
  /\ UNCHANGED <<lines, dat_len, key, low, high>>

\* With a size that is negative or zero the line maker dies: it gets no memory
\* for the filter, or takes a key modulo zero. Nobody mounts what it leaves.
WriteDies ==
  /\ pc = "make" /\ lines # <<>> /\ bit_num <= 0
  /\ pc' = "dead"
  /\ UNCHANGED <<files, key, low, high>>

-----------------------------------------------------------------------------
(* hdict_seek *)

Seek(k) ==
  /\ pc \in {"ready", "hit", "miss"}
  /\ key' = k
  /\ pc' = "filter"
  /\ UNCHANGED <<files, low, high>>

\* Wrong: the filter is read with another size than it was made with.
Filter_OtherSize ==
  /\ pc = "filter"
  /\ low' = 0 /\ high' = Len(idx)
  /\ pc' = IF filtered => key % (bit_num + 1) \in bit THEN "loop" ELSE "miss"
  /\ UNCHANGED <<files, key>>

Filter ==
  /\ pc = "filter"
  /\ low' = 0 /\ high' = Len(idx)
  /\ pc' = IF filtered => key % bit_num \in bit THEN "loop" ELSE "miss"
  /\ UNCHANGED <<files, key>>

mid == ((low + high) % WORD) \div 2
AtMid == idx[mid + 1]  \* the C array counts from 0

\* Wrong: the lower half without its last entry, in a word or in an int.
GoLeft_SkipsOne ==
  /\ pc = "loop" /\ low < high /\ AtMid.key > key
  /\ high' = (mid - 1) % WORD
  /\ UNCHANGED <<files, pc, key, low>>

GoLeft_Signed ==
  /\ pc = "loop" /\ low < high /\ AtMid.key > key
  /\ high' = mid - 1
  /\ UNCHANGED <<files, pc, key, low>>

GoLeft ==
  /\ pc = "loop" /\ low < high /\ AtMid.key > key
  /\ high' = mid
  /\ UNCHANGED <<files, pc, key, low>>

\* Wrong: the search keeps the entry it has just compared.
GoRight_Stays ==
  /\ pc = "loop" /\ low < high /\ AtMid.key < key
  /\ low' = mid
  /\ UNCHANGED <<files, pc, key, high>>

GoRight ==
  /\ pc = "loop" /\ low < high /\ AtMid.key < key
  /\ low' = mid + 1
  /\ UNCHANGED <<files, pc, key, high>>

Hit ==
  /\ pc = "loop" /\ low < high /\ AtMid.key = key
  /\ pc' = "hit"
  /\ UNCHANGED <<files, key, low, high>>

Miss ==
  /\ pc = "loop" /\ low >= high
  /\ pc' = "miss"
  /\ UNCHANGED <<files, key, low, high>>

\* What a hit returns in *off and *length.
off == AtMid.pos % OFFS
length == AtMid.pos \div OFFS

\* The bytes asked for are all in dat: neither does hdict_read fail, from memory,
\* nor does it come back with fewer, from the file.
hdict_read(at, len) == at + len <= dat_len

hdict_seek == Filter \/ GoLeft \/ GoRight \/ Hit \/ Miss

Next ==
  \/ \E k \in Key, len \in 0 .. LenMax : ReadLine(k, len)
  \/ WriteIdx \/ WriteDies
  \/ \E k \in Key : Seek(k)
  \/ hdict_seek

Spec == Init /\ [][Next]_vars
FairSpec == Spec /\ WF_vars(hdict_seek)

-----------------------------------------------------------------------------
(* Correctness *)

Source(k) == {i \in DOMAIN lines : lines[i].key = k}

\* A hit returns the place in dat of a value the source gave the key, where
\* hdict_read finds all of it, and a miss means the source has none: neither the
\* filter, the packing of pos, the sort nor the search loses or mixes up a key,
\* duplicates included.
Found ==
  /\ pc = "hit" =>
       /\ hdict_read(off, length)
       /\ \E i \in Source(key) : off = lines[i].off /\ length = lines[i].len
  /\ pc = "miss" => Source(key) = {}

\* No probe reads outside the index, whatever the 32 bit sum does.
ProbeInside == pc = "loop" /\ low < high => low <= mid /\ mid < high /\ high <= Len(idx)

\* Every value is in dat.
ValuesInside == \A i \in DOMAIN lines : lines[i].off + lines[i].len <= dat_len

\* The index holds the lines, sorted, and the filter has a bit for each.
FilesOK ==
  pc \notin {"make", "dead"} =>
    /\ Len(idx) = Len(lines)
    /\ \A j \in DOMAIN lines : \E i \in DOMAIN idx :
         idx[i].key = lines[j].key /\ idx[i].pos = Pos(lines[j])
    /\ \A i \in DOMAIN idx : \E j \in DOMAIN lines :
         idx[i].key = lines[j].key /\ idx[i].pos = Pos(lines[j])
    /\ \A i, j \in DOMAIN idx : i < j => idx[i].key <= idx[j].key
    /\ filtered => lines # <<>> /\ \A i \in DOMAIN lines : lines[i].key % bit_num \in bit

\* The key is at none of the places the search has left behind.
Narrowed ==
  pc \in {"loop", "hit"} =>
    /\ low <= high /\ high <= Len(idx)
    /\ \A i \in 1 .. low : idx[i].key < key
    /\ \A i \in high + 1 .. Len(idx) : idx[i].key > key

Concluded ==
  /\ pc = "hit" => low < high /\ AtMid.key = key
  /\ pc = "miss" => \A i \in DOMAIN idx : idx[i].key # key

\* The inductive invariant of the search.
SeekInv == TypeOK /\ ValuesInside /\ FilesOK /\ Narrowed /\ Concluded

\* Every search ends.
SeekEnds == pc \in {"filter", "loop"} ~> pc \in {"hit", "miss"}
=============================================================================
