------------------------------ MODULE Replies ------------------------------
(***************************************************************************)
(* What a worker of src/lushan.c does for get, gets, stats reset and the   *)
(* commands answered with a line: the reply it packs in the buffer of the  *)
(* connection it serves, and the statistics it keeps.                      *)
(*                                                                         *)
(* Sizes are in bytes, a terminating NUL included where the code writes    *)
(* one. Each worker serves a connection of its own: Server shows that no   *)
(* two have the same. Every section under stats_lock is one step; num_qry  *)
(* of the dictionary is read and written in two, without a lock.           *)
(***************************************************************************)
EXTENDS Integers, FiniteSets

CONSTANTS
  Worker,
  DATA_BUFFER_SIZE,       \* the buffer of a new connection, 8192
  SLACK,                  \* room kept besides a value, 512
  HDICT_VALUE_LENGTH_MAX, \* longer values are not sent, 204800
  MODULE_SLACK,           \* room lpack_ascii keeps besides key and value, 256
  INT_MAX,                \* largest buffer an int can size, 2^31 - 1
  WORD,                   \* the counters are modulo 2^32
  Header,                 \* lengths of "VALUE %s %u %u\r\n", up to 267
  MODULE_HEADER,          \* the same without the key, when a module packs it
  Key, Length,            \* lengths of a module's key, and of values
  Line,                   \* lengths of one-line replies
  MaxTokens,              \* bound: tokens in a get, for each worker
  MaxAsked                \* bound: lookups in the dictionary

CRLF == 2
END == 6  \* with its NUL

ASSUME RepliesAssumption ==
  /\ IsFiniteSet(Worker)
  /\ {DATA_BUFFER_SIZE, SLACK, MODULE_SLACK, MODULE_HEADER} \subseteq Nat
  /\ HDICT_VALUE_LENGTH_MAX \in Nat /\ INT_MAX \in Nat
  /\ WORD \in Nat \ {0} /\ MaxTokens \in [Worker -> Nat \ {0}] /\ MaxAsked \in Nat
  /\ Header \subseteq Nat /\ Key \subseteq Nat /\ Length \subseteq Nat /\ Line \subseteq Nat
  /\ \A n \in Header : n + CRLF + END <= SLACK
  /\ MODULE_HEADER + CRLF + END <= MODULE_SLACK
  /\ \A n \in Line : n + CRLF + 1 <= DATA_BUFFER_SIZE
  /\ END <= DATA_BUFFER_SIZE /\ DATA_BUFFER_SIZE <= INT_MAX

VARIABLES
  wsize, wbytes,  \* the buffer of each worker's connection
  peak,           \* the end of what was written last, NUL included
  pc,             \* what each worker is doing
  left,           \* tokens of its get still to scan
  length,         \* the length of the value it found
  tmp,            \* the num_qry it read
  get_cmds, get_hits, get_misses,
  num_qry,
  asked,          \* lookups that were made, however num_qry counted them
  raced,          \* two workers have counted in num_qry at the same time
  early,          \* workers whose token was counted before the last reset
  stray, other    \* since then: outcomes without their token, and the reverse

buffer == <<wsize, wbytes, peak>>
scan == <<left, length, tmp>>
counters == <<get_cmds, get_hits, get_misses>>
queries == <<num_qry, asked, raced>>
resets == <<early, stray, other>>
vars == <<buffer, pc, scan, counters, queries, resets>>

Busy == {"counted", "asking", "seek"}  \* between get_cmds++ and its outcome

TypeOK ==
  /\ wsize \in [Worker -> Nat] /\ wbytes \in [Worker -> Nat] /\ peak \in [Worker -> Nat]
  /\ pc \in [Worker -> {"ready", "token", "pack", "module"} \cup Busy]
  /\ left \in [Worker -> Nat] /\ length \in [Worker -> Length \cup {0}]
  /\ tmp \in [Worker -> Nat]
  /\ get_cmds \in 0 .. WORD - 1 /\ get_hits \in 0 .. WORD - 1 /\ get_misses \in 0 .. WORD - 1
  /\ num_qry \in Nat /\ asked \in Nat /\ raced \in BOOLEAN
  /\ early \subseteq Worker
  /\ stray \in 0 .. WORD - 1 /\ other \in 0 .. WORD - 1

Init ==
  /\ wsize = [w \in Worker |-> DATA_BUFFER_SIZE]
  /\ wbytes = [w \in Worker |-> 0] /\ peak = [w \in Worker |-> 0]
  /\ pc = [w \in Worker |-> "ready"]
  /\ left = [w \in Worker |-> 0] /\ length = [w \in Worker |-> 0]
  /\ tmp = [w \in Worker |-> 0]
  /\ get_cmds = 0 /\ get_hits = 0 /\ get_misses = 0
  /\ num_qry = 0 /\ asked = 0 /\ raced = FALSE
  /\ early = {} /\ stray = 0 /\ other = 0

Inc(n) == (n + 1) % WORD
Goto(w, label) == pc' = [pc EXCEPT ![w] = label]

-----------------------------------------------------------------------------
(* The buffer *)

Fits(w, need) == need <= wsize[w] - wbytes[w]

\* Wrong: room for the value only, not for what is in the buffer already.
NewSize_ForgetsReply(w, need) ==
  IF 2 * wsize[w] < need
  THEN (need \div DATA_BUFFER_SIZE + 1) * DATA_BUFFER_SIZE
  ELSE 2 * wsize[w]

NewSize(w, need) ==
  IF 2 * wsize[w] - wbytes[w] < need
  THEN ((need + wbytes[w]) \div DATA_BUFFER_SIZE + 1) * DATA_BUFFER_SIZE
  ELSE 2 * wsize[w]

\* A size beyond INT_MAX is negative, and realloc refuses it.
MakeRoom(w, need) ==
  \/ Fits(w, need) /\ wsize' = wsize
  \/ /\ ~Fits(w, need) /\ NewSize(w, need) <= INT_MAX
     /\ wsize' = [wsize EXCEPT ![w] = NewSize(w, need)]

Write(w, from, len) ==
  /\ wbytes' = [wbytes EXCEPT ![w] = from + len]
  /\ peak' = [peak EXCEPT ![w] = from + len + 1]

Empty(w) ==
  /\ wbytes' = [wbytes EXCEPT ![w] = 0]
  /\ peak' = [peak EXCEPT ![w] = 0]

\* pack_string: a line instead of what the buffer held.
pack_string(w, len) ==
  /\ pc[w] = "ready"
  /\ Write(w, 0, len + CRLF)
  /\ UNCHANGED <<wsize, pc, scan>>

-----------------------------------------------------------------------------
(* Scanning a get *)

Get(w) ==
  /\ pc[w] = "ready"
  /\ \E n \in 1 .. MaxTokens[w] : left' = [left EXCEPT ![w] = n]
  /\ Empty(w)
  /\ Goto(w, "token")
  /\ UNCHANGED <<wsize, length, tmp, counters, queries, resets>>

NextToken(w) ==
  /\ pc[w] = "token" /\ left[w] > 0
  /\ left' = [left EXCEPT ![w] = @ - 1]
  /\ get_cmds' = Inc(get_cmds)
  /\ early' = early \ {w}
  /\ Goto(w, "counted")
  /\ UNCHANGED <<buffer, length, tmp, get_hits, get_misses, queries, stray, other>>

\* A hit or a miss is counted for the token w is at.
Outcome(w) ==
  /\ stray' = IF w \in early THEN Inc(stray) ELSE stray
  /\ early' = early \ {w}
  /\ UNCHANGED other

\* The token w is at is not counted as a hit or a miss.
NoOutcome(w) ==
  /\ other' = IF w \in early THEN other ELSE Inc(other)
  /\ early' = early \ {w}
  /\ UNCHANGED stray

\* A key of more than 250 bytes, or an m key without a question mark.
Illegal(w) ==
  /\ pc[w] = "counted"
  /\ NoOutcome(w)
  /\ Goto(w, "token")
  /\ UNCHANGED <<buffer, scan, counters, queries>>

\* hdb_ref or hmods_ref finds nothing mounted under the number.
NotMounted(w) ==
  /\ pc[w] = "counted"
  /\ get_misses' = Inc(get_misses)
  /\ Outcome(w)
  /\ Goto(w, "token")
  /\ UNCHANGED <<buffer, scan, get_cmds, get_hits, queries>>

CallModule(w) ==
  /\ pc[w] = "counted"
  /\ NoOutcome(w)
  /\ Goto(w, "module")
  /\ UNCHANGED <<buffer, scan, counters, queries>>

\* hdict->num_qry++, its two halves.
ReadNumQry(w) ==
  /\ pc[w] = "counted" /\ asked < MaxAsked
  /\ tmp' = [tmp EXCEPT ![w] = num_qry]
  /\ raced' = (raced \/ \E v \in Worker \ {w} : pc[v] = "asking")
  /\ Goto(w, "asking")
  /\ UNCHANGED <<buffer, left, length, counters, num_qry, asked, resets>>

\* Wrong: the query is counted before and after the lookup.
WriteNumQry_Twice(w) ==
  /\ pc[w] = "asking"
  /\ num_qry' = tmp[w] + 2 /\ asked' = asked + 1
  /\ tmp' = [tmp EXCEPT ![w] = 0]
  /\ Goto(w, "seek")
  /\ UNCHANGED <<buffer, left, length, counters, raced, resets>>

WriteNumQry(w) ==
  /\ pc[w] = "asking"
  /\ num_qry' = tmp[w] + 1 /\ asked' = asked + 1
  /\ tmp' = [tmp EXCEPT ![w] = 0]
  /\ Goto(w, "seek")
  /\ UNCHANGED <<buffer, left, length, counters, raced, resets>>

SeekMiss(w) ==
  /\ pc[w] = "seek"
  /\ get_misses' = Inc(get_misses)
  /\ Outcome(w)
  /\ Goto(w, "token")
  /\ UNCHANGED <<buffer, scan, get_cmds, get_hits, queries>>

SeekHit(w, len) ==
  /\ pc[w] = "seek"
  /\ get_hits' = Inc(get_hits)
  /\ length' = [length EXCEPT ![w] = len]
  /\ Outcome(w)
  /\ Goto(w, "pack")
  /\ UNCHANGED <<buffer, left, tmp, get_cmds, get_misses, queries>>

-----------------------------------------------------------------------------
(* Packing records *)

Packed(w) ==
  /\ length' = [length EXCEPT ![w] = 0]
  /\ Goto(w, "token")

\* Wrong: room is made for the value without its header and the end.
Pack_NoSlack(w, nc) ==
  /\ pc[w] = "pack" /\ length[w] < HDICT_VALUE_LENGTH_MAX
  /\ MakeRoom(w, length[w])
  /\ Write(w, wbytes[w], nc + length[w] + CRLF)
  /\ Packed(w)
  /\ UNCHANGED <<left, tmp, counters, queries, resets>>

Pack(w, nc) ==
  /\ pc[w] = "pack" /\ length[w] < HDICT_VALUE_LENGTH_MAX
  /\ MakeRoom(w, SLACK + length[w])
  /\ Write(w, wbytes[w], nc + length[w] + CRLF)
  /\ Packed(w)
  /\ UNCHANGED <<left, tmp, counters, queries, resets>>

\* hdict_read comes back with less: the header and what was read are written,
\* and will be written over.
ReadFails(w, nc) ==
  /\ pc[w] = "pack" /\ length[w] < HDICT_VALUE_LENGTH_MAX
  /\ MakeRoom(w, SLACK + length[w])
  /\ peak' = [peak EXCEPT ![w] = wbytes[w] + nc + length[w]]
  /\ Packed(w)
  /\ UNCHANGED <<wbytes, left, tmp, counters, queries, resets>>

\* The value is too long, or there is no memory for it: no record.
PackFails(w) ==
  /\ pc[w] = "pack"
  /\ \/ length[w] >= HDICT_VALUE_LENGTH_MAX
     \/ ~Fits(w, SLACK + length[w])
  /\ Packed(w)
  /\ UNCHANGED <<buffer, left, tmp, counters, queries, resets>>

\* A module calls lpack_ascii for a value of len bytes, which is copied up to
\* its first NUL; or lpack_header, lpack_append_body and lpack_footer, which
\* together pack the same record, with all of the value.
lpack_ascii(w, key, len) ==
  /\ pc[w] = "module"
  /\ MakeRoom(w, key + MODULE_SLACK + len)
  /\ \E copied \in {n \in Length : n <= len} :
       Write(w, wbytes[w], MODULE_HEADER + key + copied + CRLF)
  /\ Goto(w, "token")
  /\ UNCHANGED <<scan, counters, queries, resets>>

\* The module has no answer, or lpack_ascii no memory for it.
ModuleSilent(w) ==
  /\ pc[w] = "module"
  /\ Goto(w, "token")
  /\ UNCHANGED <<buffer, scan, counters, queries, resets>>

Footer(w) ==
  /\ pc[w] = "token" /\ left[w] = 0
  /\ Write(w, wbytes[w], END - 1)
  /\ Goto(w, "ready")
  /\ UNCHANGED <<wsize, scan, counters, queries, resets>>

-----------------------------------------------------------------------------
(* The other commands *)

\* gets: the connection comes with an empty buffer (CleanHandoff of Server).
Gets(w) ==
  /\ pc[w] = "ready"
  /\ Empty(w)
  /\ left' = [left EXCEPT ![w] = 0]
  /\ Goto(w, "module")
  /\ UNCHANGED <<wsize, length, tmp, counters, queries, resets>>

\* A miss that no command was counted for; there is no reply (see Server).
GetsNotMounted(w) ==
  /\ pc[w] = "ready"
  /\ get_misses' = Inc(get_misses) /\ stray' = Inc(stray)
  /\ UNCHANGED <<buffer, pc, scan, get_cmds, get_hits, queries, early, other>>

\* stats, info, open, close and the like, as far as the reply goes.
OneLine(w) ==
  /\ \E len \in Line : pack_string(w, len)
  /\ UNCHANGED <<counters, queries, resets>>

\* Wrong: misses are not reset.
StatsReset_KeepsMisses(w) ==
  /\ \E len \in Line : pack_string(w, len)
  /\ get_cmds' = 0 /\ get_hits' = 0 /\ UNCHANGED get_misses
  /\ early' = {v \in Worker : pc[v] \in Busy}
  /\ stray' = 0 /\ other' = 0
  /\ UNCHANGED queries

StatsReset(w) ==
  /\ \E len \in Line : pack_string(w, len)
  /\ get_cmds' = 0 /\ get_hits' = 0 /\ get_misses' = 0
  /\ early' = {v \in Worker : pc[v] \in Busy}
  /\ stray' = 0 /\ other' = 0
  /\ UNCHANGED queries

WorkerStep(w) ==
  \/ Get(w) \/ NextToken(w) \/ Illegal(w) \/ NotMounted(w) \/ CallModule(w)
  \/ ReadNumQry(w) \/ WriteNumQry(w) \/ SeekMiss(w)
  \/ \E len \in Length : SeekHit(w, len)
  \/ \E nc \in Header : Pack(w, nc) \/ ReadFails(w, nc)
  \/ PackFails(w)
  \/ \E key \in Key, len \in Length : lpack_ascii(w, key, len)
  \/ ModuleSilent(w) \/ Footer(w)
  \/ Gets(w) \/ GetsNotMounted(w) \/ OneLine(w) \/ StatsReset(w)

Next == \E w \in Worker : WorkerStep(w)

Spec == Init /\ [][Next]_vars

-----------------------------------------------------------------------------
(* Correctness *)

\* No reply runs over its buffer, whatever the sizes of its records and however
\* often growing failed: the room kept besides each value is enough for the
\* header before it, and for the END that nothing makes room for.
NoOverrun == \A w \in Worker : peak[w] <= wsize[w]

\* What makes it so: between two tokens there is always room for the end.
RoomForEnd ==
  \A w \in Worker :
    /\ DATA_BUFFER_SIZE <= wsize[w]
    /\ pc[w] # "ready" => wbytes[w] + END <= wsize[w]

\* The counters of stats add up modulo 2^32 (as in the sample of README.md
\* section six, where hits and misses have passed it): every get counted is a
\* hit, a miss, neither, or at work, save for outcomes whose get was counted
\* before a reset, and for gets.
StatsAddUp ==
  (get_cmds + stray) % WORD =
    (get_hits + get_misses + other
       + Cardinality({w \in Worker \ early : pc[w] \in Busy})) % WORD

\* A dictionary's num_qry never counts a lookup that was not made, and it
\* misses one only if two workers counted at the same time.
NumQryHonest == num_qry <= asked /\ (~raced => num_qry = asked)
=============================================================================
