--------------------------- MODULE RepliesProofs ---------------------------
(***************************************************************************)
(* No reply runs over its buffer, for all sizes; num_qry is honest; the    *)
(* counters of stats add up modulo 2^32.                                   *)
(***************************************************************************)
EXTENDS Replies, FiniteSetTheorems, TLAPS

USE DEF CRLF, END

\* A whole number of buffers that is more than x.
LEMMA RoundUp ==
  ASSUME NEW x \in Nat, NEW d \in Nat \ {0}
  PROVE  (x \div d + 1) * d \in Nat /\ (x \div d + 1) * d > x
<1>1. x \div d \in Nat /\ x % d \in 0 .. d - 1 /\ x = d * (x \div d) + (x % d)
  BY Z3
<1>2. \A q \in Nat : (q + 1) * d = d * q + d /\ (q + 1) * d \in Nat BY Z3
<1> QED BY <1>1, <1>2

\* The new size holds what is there and what is needed, and is not smaller.
LEMMA NewSizeEnough ==
  ASSUME TypeOK, NEW w \in Worker, NEW need \in Nat, DATA_BUFFER_SIZE <= wsize[w]
  PROVE  /\ NewSize(w, need) \in Nat
         /\ need <= NewSize(w, need) - wbytes[w]
         /\ wsize[w] <= NewSize(w, need)
<1>1. wsize[w] \in Nat /\ wbytes[w] \in Nat BY DEF TypeOK
<1>2. DATA_BUFFER_SIZE \in Nat \ {0} BY RepliesAssumption
<1> DEFINE x == need + wbytes[w]
           up == (x \div DATA_BUFFER_SIZE + 1) * DATA_BUFFER_SIZE
<1>3. x \in Nat BY <1>1
<1>4. up \in Nat /\ up > x BY <1>2, <1>3, RoundUp
<1>5. NewSize(w, need) = IF 2 * wsize[w] - wbytes[w] < need THEN up ELSE 2 * wsize[w]
  BY DEF NewSize
<1> HIDE DEF up
<1> QED BY <1>1, <1>4, <1>5

\* Making room keeps the buffers of the others, and leaves the room asked for.
LEMMA MakesRoom ==
  ASSUME TypeOK, NEW w \in Worker, NEW need \in Nat, DATA_BUFFER_SIZE <= wsize[w],
         MakeRoom(w, need)
  PROVE  /\ wsize' \in [Worker -> Nat]
         /\ need <= wsize'[w] - wbytes[w] /\ wsize[w] <= wsize'[w]
         /\ \A v \in Worker : v # w => wsize'[v] = wsize[v]
<1>1. wsize \in [Worker -> Nat] /\ wbytes[w] \in Nat BY DEF TypeOK
<1>2. CASE Fits(w, need) /\ wsize' = wsize BY <1>1, <1>2 DEF Fits
<1>3. CASE wsize' = [wsize EXCEPT ![w] = NewSize(w, need)]
  BY <1>1, <1>3, NewSizeEnough
<1> QED BY <1>2, <1>3 DEF MakeRoom

QryInv ==
  /\ num_qry <= asked
  /\ \A w \in Worker : pc[w] = "asking" => tmp[w] <= asked
  /\ ~raced => /\ num_qry = asked
               /\ \A v, w \in Worker : pc[v] = "asking" /\ pc[w] = "asking" =>
                    v = w /\ tmp[w] = num_qry

Inv == TypeOK /\ RoomForEnd /\ NoOverrun /\ QryInv

LEMMA InitInv == Init => Inv
<1> SUFFICES ASSUME Init PROVE Inv OBVIOUS
<1>1. DATA_BUFFER_SIZE \in Nat /\ 0 \in 0 .. WORD - 1 BY RepliesAssumption
<1>2. TypeOK BY <1>1 DEF Init, TypeOK, Busy
<1>3. RoomForEnd /\ NoOverrun BY RepliesAssumption DEF Init, RoomForEnd, NoOverrun
<1>4. QryInv BY DEF Init, QryInv
<1> QED BY <1>2, <1>3, <1>4 DEF Inv

\* The counters stay below 2^32.
LEMMA IncInWord == \A n \in 0 .. WORD - 1 : Inc(n) \in 0 .. WORD - 1
BY RepliesAssumption, Z3 DEF Inc

\* What a step of worker w may do to the buffers.
BufferStep(w) ==
  /\ wsize' \in [Worker -> Nat] /\ wbytes' \in [Worker -> Nat] /\ peak' \in [Worker -> Nat]
  /\ pc' \in [Worker -> {"ready", "token", "pack", "module"} \cup Busy]
  /\ wsize[w] <= wsize'[w] /\ peak'[w] <= wsize'[w]
  /\ pc'[w] # "ready" => wbytes'[w] + END <= wsize'[w]
  /\ \A v \in Worker \ {w} : /\ wsize'[v] = wsize[v] /\ wbytes'[v] = wbytes[v]
                             /\ peak'[v] = peak[v] /\ pc'[v] = pc[v]

LEMMA BufferStepKeeps ==
  ASSUME TypeOK, RoomForEnd, NoOverrun, NEW w \in Worker, BufferStep(w)
  PROVE  RoomForEnd' /\ NoOverrun'
<1>1. DATA_BUFFER_SIZE \in Nat /\ wsize[w] \in Nat /\ wsize'[w] \in Nat
  BY RepliesAssumption DEF TypeOK, BufferStep
<1>2. ASSUME NEW v \in Worker
      PROVE  /\ DATA_BUFFER_SIZE <= wsize'[v]
             /\ pc'[v] # "ready" => wbytes'[v] + END <= wsize'[v]
             /\ peak'[v] <= wsize'[v]
  <2>1. CASE v = w BY <1>1, <2>1 DEF BufferStep, RoomForEnd
  <2>2. CASE v # w BY <2>2 DEF BufferStep, RoomForEnd, NoOverrun
  <2> QED BY <2>1, <2>2
<1> QED BY <1>2 DEF RoomForEnd, NoOverrun

\* A step that does not touch num_qry keeps what holds of it.
LEMMA QryKept ==
  ASSUME QryInv, UNCHANGED queries, tmp' = tmp,
         \A v \in Worker : pc'[v] = "asking" => pc[v] = "asking"
  PROVE  QryInv'
BY DEF QryInv, queries

\* What a worker's step does to the rest of the state.
RestStep ==
  /\ left' \in [Worker -> Nat] /\ length' \in [Worker -> Length \cup {0}]
  /\ tmp' \in [Worker -> Nat]
  /\ get_cmds' \in 0 .. WORD - 1 /\ get_hits' \in 0 .. WORD - 1
  /\ get_misses' \in 0 .. WORD - 1
  /\ num_qry' \in Nat /\ asked' \in Nat /\ raced' \in BOOLEAN
  /\ early' \subseteq Worker
  /\ stray' \in 0 .. WORD - 1 /\ other' \in 0 .. WORD - 1

LEMMA TypeStep == ASSUME NEW w \in Worker, BufferStep(w), RestStep PROVE TypeOK'
BY DEF BufferStep, RestStep, TypeOK

\* Actions that leave num_qry, the buffers' sizes and the last write alone.
ScanAction(w) ==
  \/ Get(w) \/ NextToken(w) \/ Illegal(w) \/ NotMounted(w) \/ CallModule(w)
  \/ SeekMiss(w) \/ (\E len \in Length : SeekHit(w, len))
  \/ PackFails(w) \/ ModuleSilent(w) \/ Gets(w) \/ GetsNotMounted(w)

\* Scanning never moves the buffer's end forward.
LEMMA ScanBuffer ==
  ASSUME Inv, NEW w \in Worker, ScanAction(w)
  PROVE  BufferStep(w)
<1>1. /\ wsize[w] \in Nat /\ wbytes[w] \in Nat /\ END <= wsize[w] /\ peak[w] <= wsize[w]
      /\ pc[w] # "ready" => wbytes[w] + END <= wsize[w]
  BY RepliesAssumption DEF Inv, TypeOK, RoomForEnd, NoOverrun
<1>2. /\ wsize \in [Worker -> Nat] /\ wbytes \in [Worker -> Nat] /\ peak \in [Worker -> Nat]
      /\ pc \in [Worker -> {"ready", "token", "pack", "module"} \cup Busy]
  BY DEF Inv, TypeOK
<1>3. wsize' = wsize /\ (peak' = peak \/ peak' = [peak EXCEPT ![w] = 0])
  BY DEF ScanAction, Get, NextToken, Illegal, NotMounted, CallModule, SeekMiss, SeekHit,
         PackFails, ModuleSilent, Gets, GetsNotMounted, buffer, Empty
<1>4. \E label \in {"ready", "token", "pack", "module"} \cup Busy :
        pc' = [pc EXCEPT ![w] = label]
  <2>1. pc = [pc EXCEPT ![w] = pc[w]] /\ pc[w] \in {"ready", "token", "pack", "module"} \cup Busy
    BY <1>2
  <2> QED BY <2>1 DEF ScanAction, Get, NextToken, Illegal, NotMounted, CallModule, SeekMiss,
             SeekHit, PackFails, Packed, ModuleSilent, Gets, GetsNotMounted, Goto, Busy
<1>5. \/ wbytes' = [wbytes EXCEPT ![w] = 0]
      \/ wbytes' = wbytes /\ pc[w] # "ready"
      \/ wbytes' = wbytes /\ pc' = pc
  BY DEF ScanAction, Get, NextToken, Illegal, NotMounted, CallModule, SeekMiss, SeekHit,
         PackFails, ModuleSilent, Gets, GetsNotMounted, buffer, Empty
<1>6. /\ wbytes' \in [Worker -> Nat] /\ peak' \in [Worker -> Nat] /\ peak'[w] <= wsize'[w]
      /\ \A v \in Worker \ {w} : wbytes'[v] = wbytes[v] /\ peak'[v] = peak[v]
  BY <1>1, <1>2, <1>3, <1>5
<1>7. pc'[w] # "ready" => wbytes'[w] + END <= wsize'[w]
  BY <1>1, <1>2, <1>3, <1>5
<1>8. /\ pc' \in [Worker -> {"ready", "token", "pack", "module"} \cup Busy]
      /\ \A v \in Worker \ {w} : pc'[v] = pc[v]
  BY <1>2, <1>4
<1> QED BY <1>1, <1>2, <1>3, <1>6, <1>7, <1>8 DEF BufferStep

\* Outcomes count modulo 2^32.
LEMMA OutcomeTypes ==
  ASSUME TypeOK, NEW w \in Worker, Outcome(w) \/ NoOutcome(w)
  PROVE  early' \subseteq Worker /\ stray' \in 0 .. WORD - 1 /\ other' \in 0 .. WORD - 1
BY IncInWord DEF TypeOK, Outcome, NoOutcome

LEMMA ScanRest ==
  ASSUME Inv, NEW w \in Worker, ScanAction(w)
  PROVE  RestStep
<1>1. TypeOK BY DEF Inv
<1>2. /\ left \in [Worker -> Nat] /\ length \in [Worker -> Length \cup {0}]
      /\ tmp' = tmp /\ tmp \in [Worker -> Nat]
      /\ num_qry' = num_qry /\ num_qry \in Nat /\ asked' = asked /\ asked \in Nat
      /\ raced' = raced /\ raced \in BOOLEAN
  BY <1>1 DEF TypeOK, ScanAction, Get, NextToken, Illegal, NotMounted, CallModule, SeekMiss,
              SeekHit, PackFails, Packed, ModuleSilent, Gets, GetsNotMounted, scan, queries
<1>3. left' \in [Worker -> Nat]
  <2>1. \/ left' = left
        \/ (\E n \in 1 .. MaxTokens[w] : left' = [left EXCEPT ![w] = n])
        \/ (left[w] > 0 /\ left' = [left EXCEPT ![w] = left[w] - 1])
        \/ left' = [left EXCEPT ![w] = 0]
    BY <1>1 DEF ScanAction, Get, NextToken, Illegal, NotMounted, CallModule, SeekMiss,
              SeekHit, PackFails, Packed, ModuleSilent, Gets, GetsNotMounted, scan
  <2>2. \A n \in 1 .. MaxTokens[w] : n \in Nat BY RepliesAssumption
  <2> QED BY <1>2, <2>1, <2>2
<1>4. length' \in [Worker -> Length \cup {0}]
  BY <1>2 DEF ScanAction, Get, NextToken, Illegal, NotMounted, CallModule, SeekMiss,
              SeekHit, PackFails, Packed, ModuleSilent, Gets, GetsNotMounted, scan
<1>5. /\ get_cmds' \in 0 .. WORD - 1 /\ get_hits' \in 0 .. WORD - 1
      /\ get_misses' \in 0 .. WORD - 1
  BY <1>1, IncInWord DEF TypeOK, ScanAction, Get, NextToken, Illegal, NotMounted, CallModule,
     SeekMiss, SeekHit, PackFails, ModuleSilent, Gets, GetsNotMounted, counters
<1>6. early' \subseteq Worker /\ stray' \in 0 .. WORD - 1 /\ other' \in 0 .. WORD - 1
  <2>1. CASE Outcome(w) \/ NoOutcome(w) BY <1>1, <2>1, OutcomeTypes
  <2>2. CASE /\ early' = early \/ early' = early \ {w}
             /\ stray' = stray \/ stray' = Inc(stray)
             /\ other' = other
    BY <1>1, <2>2, IncInWord DEF TypeOK
  <2> QED BY <2>1, <2>2 DEF ScanAction, Get, NextToken, Illegal, NotMounted, CallModule,
        SeekMiss, SeekHit, PackFails, ModuleSilent, Gets, GetsNotMounted, resets
<1> QED BY <1>2, <1>3, <1>4, <1>5, <1>6 DEF RestStep

\* Actions that pack a record, a footer or a line.
PackAction(w) ==
  \/ \E nc \in Header : Pack(w, nc) \/ ReadFails(w, nc)
  \/ \E key \in Key, len \in Length : lpack_ascii(w, key, len)
  \/ Footer(w) \/ OneLine(w) \/ StatsReset(w)

\* A write that ends in the buffer, followed by room for the end unless the
\* reply is complete.
LEMMA WriteStep ==
  ASSUME Inv, NEW w \in Worker,
         wsize' \in [Worker -> Nat], wsize[w] <= wsize'[w],
         \A v \in Worker : v # w => wsize'[v] = wsize[v],
         NEW from \in Nat, NEW len \in Nat, Write(w, from, len),
         from + len + 1 <= wsize'[w],
         NEW label \in {"ready", "token", "pack", "module"} \cup Busy, Goto(w, label),
         label # "ready" => from + len + END <= wsize'[w]
  PROVE  BufferStep(w)
<1>1. /\ wbytes \in [Worker -> Nat] /\ peak \in [Worker -> Nat]
      /\ pc \in [Worker -> {"ready", "token", "pack", "module"} \cup Busy]
  BY DEF Inv, TypeOK
<1>2. /\ wbytes' \in [Worker -> Nat] /\ peak' \in [Worker -> Nat]
      /\ wbytes'[w] = from + len /\ peak'[w] = from + len + 1
      /\ \A v \in Worker \ {w} : wbytes'[v] = wbytes[v] /\ peak'[v] = peak[v]
  BY <1>1 DEF Write
<1>3. /\ pc' \in [Worker -> {"ready", "token", "pack", "module"} \cup Busy]
      /\ pc'[w] = label /\ \A v \in Worker \ {w} : pc'[v] = pc[v]
  BY <1>1 DEF Goto
<1> QED BY <1>2, <1>3 DEF BufferStep

LEMMA PackBuffer ==
  ASSUME Inv, NEW w \in Worker, PackAction(w)
  PROVE  BufferStep(w)
<1>1. /\ TypeOK /\ wsize \in [Worker -> Nat] /\ wsize[w] \in Nat /\ wbytes[w] \in Nat
      /\ DATA_BUFFER_SIZE \in Nat /\ DATA_BUFFER_SIZE <= wsize[w]
      /\ pc[w] # "ready" => wbytes[w] + END <= wsize[w]
  BY RepliesAssumption DEF Inv, TypeOK, RoomForEnd
<1>2. ASSUME NEW nc \in Header, Pack(w, nc) PROVE BufferStep(w)
  <2>1. length[w] \in Nat
    <3>1. length[w] \in Length \cup {0} BY <1>1 DEF TypeOK
    <3>2. Length \subseteq Nat BY RepliesAssumption
    <3>3. \A n \in Length \cup {0} : n \in Nat BY <3>2
    <3> QED BY <3>1, <3>3
  <2>2. SLACK + length[w] \in Nat BY <2>1, RepliesAssumption
  <2>3. nc \in Nat /\ nc + CRLF + END <= SLACK BY RepliesAssumption
  <2>4. /\ wsize' \in [Worker -> Nat] /\ wsize[w] <= wsize'[w]
        /\ SLACK + length[w] <= wsize'[w] - wbytes[w]
        /\ \A v \in Worker : v # w => wsize'[v] = wsize[v]
    BY <1>1, <1>2, <2>2, MakesRoom DEF Pack
  <2>5. SLACK \in Nat /\ wsize'[w] \in Nat BY <2>4, RepliesAssumption
  <2>6. wbytes[w] + (nc + length[w] + CRLF) + END <= wsize'[w]
    BY <1>1, <2>1, <2>3, <2>4, <2>5
  <2>7. Write(w, wbytes[w], nc + length[w] + CRLF) /\ Goto(w, "token")
    BY <1>2 DEF Pack, Packed
  <2>8. nc + length[w] + CRLF \in Nat BY <2>1, <2>3
  <2>9. wbytes[w] + (nc + length[w] + CRLF) + 1 <= wsize'[w] BY <1>1, <2>5, <2>6, <2>8
  <2> QED BY <1>1, <2>4, <2>6, <2>7, <2>8, <2>9, WriteStep
<1>3. ASSUME NEW nc \in Header, ReadFails(w, nc) PROVE BufferStep(w)
  <2>1. length[w] \in Nat
    <3>1. length[w] \in Length \cup {0} BY <1>1 DEF TypeOK
    <3>2. Length \subseteq Nat BY RepliesAssumption
    <3>3. \A n \in Length \cup {0} : n \in Nat BY <3>2
    <3> QED BY <3>1, <3>3
  <2>2. SLACK + length[w] \in Nat BY <2>1, RepliesAssumption
  <2>3. nc \in Nat /\ nc + CRLF + END <= SLACK /\ SLACK \in Nat BY RepliesAssumption
  <2>4. /\ wsize' \in [Worker -> Nat] /\ wsize[w] <= wsize'[w]
        /\ SLACK + length[w] <= wsize'[w] - wbytes[w]
        /\ \A v \in Worker : v # w => wsize'[v] = wsize[v]
    BY <1>1, <1>3, <2>2, MakesRoom DEF ReadFails
  <2>5. wbytes[w] + nc + length[w] + END <= wsize'[w]
    BY <1>1, <2>1, <2>3, <2>4
  <2>6. /\ peak \in [Worker -> Nat] /\ wbytes \in [Worker -> Nat]
        /\ pc \in [Worker -> {"ready", "token", "pack", "module"} \cup Busy]
    BY DEF Inv, TypeOK
  <2>7. /\ wbytes' = wbytes /\ peak' = [peak EXCEPT ![w] = wbytes[w] + nc + length[w]]
        /\ pc' = [pc EXCEPT ![w] = "token"]
    BY <1>3 DEF ReadFails, Packed, Goto
  <2>8. wbytes[w] + nc + length[w] \in Nat /\ wsize'[w] \in Nat BY <1>1, <2>1, <2>3, <2>4
  <2>9. /\ peak' \in [Worker -> Nat] /\ peak'[w] <= wsize'[w]
        /\ wbytes'[w] + END <= wsize'[w]
    BY <1>1, <2>1, <2>3, <2>5, <2>6, <2>7, <2>8
  <2> QED BY <2>4, <2>6, <2>7, <2>9 DEF BufferStep
<1>4. ASSUME NEW key \in Key, NEW len \in Length, lpack_ascii(w, key, len)
      PROVE BufferStep(w)
  <2>1. /\ key \in Nat /\ len \in Nat /\ MODULE_SLACK \in Nat /\ MODULE_HEADER \in Nat
        /\ MODULE_HEADER + CRLF + END <= MODULE_SLACK
    BY RepliesAssumption
  <2>2. key + MODULE_SLACK + len \in Nat BY <2>1
  <2>3. /\ wsize' \in [Worker -> Nat] /\ wsize[w] <= wsize'[w]
        /\ key + MODULE_SLACK + len <= wsize'[w] - wbytes[w]
        /\ \A v \in Worker : v # w => wsize'[v] = wsize[v]
    BY <1>1, <1>4, <2>2, MakesRoom DEF lpack_ascii
  <2>4. PICK copied \in {n \in Length : n <= len} :
          Write(w, wbytes[w], MODULE_HEADER + key + copied + CRLF)
    BY <1>4 DEF lpack_ascii
  <2>5. copied \in Nat /\ copied <= len BY RepliesAssumption
  <2>6. MODULE_HEADER + key + copied + CRLF \in Nat /\ wsize'[w] \in Nat BY <2>1, <2>3, <2>5
  <2>7. wbytes[w] + (MODULE_HEADER + key + copied + CRLF) + END <= wsize'[w]
    BY <1>1, <2>1, <2>3, <2>5, <2>6
  <2>8. wbytes[w] + (MODULE_HEADER + key + copied + CRLF) + 1 <= wsize'[w]
    BY <1>1, <2>6, <2>7
  <2>9. Goto(w, "token") BY <1>4 DEF lpack_ascii
  <2> QED BY <1>1, <2>3, <2>4, <2>6, <2>7, <2>8, <2>9, WriteStep
<1>5. CASE Footer(w)
  <2>1. pc[w] # "ready" BY <1>5 DEF Footer
  <2>2. wsize' = wsize /\ Write(w, wbytes[w], END - 1) /\ Goto(w, "ready")
    BY <1>5 DEF Footer
  <2>3. END - 1 \in Nat /\ wbytes[w] + (END - 1) + 1 <= wsize'[w] BY <1>1, <2>1, <2>2
  <2> QED BY <1>1, <2>2, <2>3, WriteStep
<1>6. ASSUME NEW len \in Line, pack_string(w, len) PROVE BufferStep(w)
  <2>1. len \in Nat /\ len + CRLF + 1 <= DATA_BUFFER_SIZE BY RepliesAssumption
  <2>2. /\ wsize' = wsize /\ Write(w, 0, len + CRLF)
        /\ pc' = pc /\ pc[w] = "ready"
    BY <1>6 DEF pack_string
  <2>3. Goto(w, "ready") BY <2>2 DEF Goto, Inv, TypeOK
  <2>4. 0 + (len + CRLF) + 1 <= wsize'[w] /\ len + CRLF \in Nat BY <1>1, <2>1, <2>2
  <2> QED BY <1>1, <2>2, <2>3, <2>4, WriteStep
<1> QED BY <1>2, <1>3, <1>4, <1>5, <1>6 DEF PackAction, OneLine, StatsReset

LEMMA PackRest ==
  ASSUME Inv, NEW w \in Worker, PackAction(w)
  PROVE  RestStep
<1> USE DEF PackAction, Pack, ReadFails, Packed, lpack_ascii, Footer, OneLine, StatsReset,
            pack_string, scan, queries, counters, resets
<1>1. TypeOK BY DEF Inv
<1>2. /\ left' = left /\ left \in [Worker -> Nat]
      /\ tmp' = tmp /\ tmp \in [Worker -> Nat]
      /\ num_qry' = num_qry /\ num_qry \in Nat /\ asked' = asked /\ asked \in Nat
      /\ raced' = raced /\ raced \in BOOLEAN
  BY <1>1 DEF TypeOK
<1>3. length' \in [Worker -> Length \cup {0}] BY <1>1 DEF TypeOK
<1>5. 0 \in 0 .. WORD - 1 BY RepliesAssumption
<1>6. /\ get_cmds' \in 0 .. WORD - 1 /\ get_hits' \in 0 .. WORD - 1
      /\ get_misses' \in 0 .. WORD - 1
  BY <1>1, <1>5 DEF TypeOK
<1>7. early' \subseteq Worker /\ stray' \in 0 .. WORD - 1 /\ other' \in 0 .. WORD - 1
  BY <1>1, <1>5 DEF TypeOK
<1> QED BY <1>2, <1>3, <1>6, <1>7 DEF RestStep

\* Counting a query moves nothing in the buffers.
LEMMA CountQuery ==
  ASSUME Inv, NEW w \in Worker, ReadNumQry(w) \/ WriteNumQry(w)
  PROVE  BufferStep(w) /\ RestStep
<1> USE DEF ReadNumQry, WriteNumQry, Goto, buffer, counters, resets
<1>1. TypeOK /\ RoomForEnd /\ NoOverrun BY DEF Inv
<1>2. pc[w] # "ready"
  <2>1. pc[w] = "counted" \/ pc[w] = "asking" OBVIOUS
  <2> QED BY <2>1
<1>3. wsize' = wsize /\ wbytes' = wbytes /\ peak' = peak OBVIOUS
<1>4. /\ pc' \in [Worker -> {"ready", "token", "pack", "module"} \cup Busy]
      /\ \A v \in Worker \ {w} : pc'[v] = pc[v]
  BY <1>1 DEF TypeOK, Busy
<1>5. BufferStep(w)
  <2>1. /\ wsize[w] \in Nat /\ wbytes[w] + END <= wsize[w] /\ peak[w] <= wsize[w]
    BY <1>1, <1>2 DEF TypeOK, RoomForEnd, NoOverrun
  <2> QED BY <1>1, <1>3, <1>4, <2>1 DEF BufferStep, TypeOK
<1>6. left' = left /\ length' = length OBVIOUS
<1>7. tmp' \in [Worker -> Nat] BY <1>1 DEF TypeOK
<1>8. num_qry' \in Nat /\ asked' \in Nat BY <1>1 DEF TypeOK
<1>9. raced' \in BOOLEAN BY <1>1 DEF TypeOK
<1> QED BY <1>1, <1>3, <1>5, <1>6, <1>7, <1>8, <1>9 DEF RestStep, TypeOK

LEMMA ReadNumQryHonest ==
  ASSUME Inv, NEW w \in Worker, ReadNumQry(w)
  PROVE  QryInv'
<1>1. /\ tmp \in [Worker -> Nat] /\ num_qry \in Nat /\ asked \in Nat
      /\ pc \in [Worker -> {"ready", "token", "pack", "module"} \cup Busy]
      /\ QryInv
  BY DEF Inv, TypeOK
<1>2. /\ num_qry' = num_qry /\ asked' = asked
      /\ tmp'[w] = num_qry /\ pc'[w] = "asking"
      /\ \A v \in Worker \ {w} : tmp'[v] = tmp[v] /\ pc'[v] = pc[v]
      /\ raced' = (raced \/ \E v \in Worker \ {w} : pc[v] = "asking")
  BY <1>1 DEF ReadNumQry, Goto
<1>3. \A v \in Worker : pc'[v] = "asking" => tmp'[v] <= asked'
  BY <1>1, <1>2 DEF QryInv
<1>4. ASSUME ~raced'
      PROVE  /\ num_qry' = asked'
             /\ \A u, v \in Worker : pc'[u] = "asking" /\ pc'[v] = "asking" =>
                  u = v /\ tmp'[v] = num_qry'
  BY <1>1, <1>2, <1>4 DEF QryInv
<1> QED BY <1>1, <1>2, <1>3, <1>4 DEF QryInv

LEMMA WriteNumQryHonest ==
  ASSUME Inv, NEW w \in Worker, WriteNumQry(w)
  PROVE  QryInv'
<1>1. /\ tmp \in [Worker -> Nat] /\ num_qry \in Nat /\ asked \in Nat
      /\ pc \in [Worker -> {"ready", "token", "pack", "module"} \cup Busy]
      /\ QryInv
  BY DEF Inv, TypeOK
<1>2. /\ num_qry' = tmp[w] + 1 /\ asked' = asked + 1 /\ raced' = raced
      /\ pc[w] = "asking" /\ pc'[w] = "seek"
      /\ \A v \in Worker \ {w} : tmp'[v] = tmp[v] /\ pc'[v] = pc[v]
  BY <1>1 DEF WriteNumQry, Goto
<1>3. tmp[w] <= asked BY <1>1, <1>2 DEF QryInv
<1>4. num_qry' <= asked' BY <1>1, <1>2, <1>3
<1>5. ASSUME NEW v \in Worker, pc'[v] = "asking" PROVE tmp'[v] <= asked'
  <2>1. v # w BY <1>2, <1>5
  <2>2. tmp'[v] = tmp[v] /\ pc[v] = "asking" BY <1>2, <1>5, <2>1
  <2>3. tmp[v] <= asked BY <1>1, <2>2 DEF QryInv
  <2> QED BY <1>1, <1>2, <2>2, <2>3
<1>6. ASSUME ~raced'
      PROVE  num_qry' = asked' /\ \A v \in Worker : pc'[v] # "asking"
  <2>1. \A v \in Worker : pc[v] = "asking" => v = w BY <1>1, <1>2, <1>6 DEF QryInv
  <2>2. num_qry = asked /\ tmp[w] = num_qry BY <1>1, <1>2, <1>6 DEF QryInv
  <2> QED BY <1>1, <1>2, <2>1, <2>2
<1> QED BY <1>4, <1>5, <1>6 DEF QryInv

LEMMA NextInv == Inv /\ [Next]_vars => Inv'
<1> SUFFICES ASSUME Inv, [Next]_vars PROVE Inv' OBVIOUS
<1>1. CASE UNCHANGED vars
  BY <1>1 DEF vars, buffer, scan, counters, queries, resets, Inv, TypeOK, RoomForEnd,
              NoOverrun, QryInv
<1>2. ASSUME NEW w \in Worker, WorkerStep(w) PROVE Inv'
  <2>1. BufferStep(w) /\ RestStep
    BY <1>2, ScanBuffer, ScanRest, PackBuffer, PackRest, CountQuery
       DEF WorkerStep, ScanAction, PackAction
  <2>2. TypeOK' BY <2>1, TypeStep
  <2>3. RoomForEnd' /\ NoOverrun' BY <2>1, BufferStepKeeps DEF Inv
  <2>4. CASE ScanAction(w) \/ PackAction(w)
    <3>1. UNCHANGED queries /\ tmp' = tmp
      BY <2>4 DEF ScanAction, PackAction, Get, NextToken, Illegal, NotMounted, CallModule,
         SeekMiss, SeekHit, PackFails, ModuleSilent, Gets, GetsNotMounted, Pack, ReadFails,
         lpack_ascii, Footer, OneLine, StatsReset, pack_string, queries, scan
    <3>2. \A v \in Worker : pc'[v] = "asking" => pc[v] = "asking"
      <4>1. pc \in [Worker -> {"ready", "token", "pack", "module"} \cup Busy]
        BY DEF Inv, TypeOK
      <4>2. \/ pc' = pc
            \/ \E label \in {"ready", "token", "pack", "module", "counted"} :
                 pc' = [pc EXCEPT ![w] = label]
        BY <2>4 DEF ScanAction, PackAction, Get, NextToken, Illegal, NotMounted, CallModule,
           SeekMiss, SeekHit, PackFails, Packed, ModuleSilent, Gets, GetsNotMounted, Pack,
           ReadFails, lpack_ascii, Footer, OneLine, StatsReset, pack_string, Goto
      <4> QED BY <4>1, <4>2
    <3>3. QryInv' BY <3>1, <3>2, QryKept DEF Inv
    <3> QED BY <2>2, <2>3, <3>3 DEF Inv
  <2>5. CASE ReadNumQry(w) BY <2>2, <2>3, <2>5, ReadNumQryHonest DEF Inv
  <2>6. CASE WriteNumQry(w) BY <2>2, <2>3, <2>6, WriteNumQryHonest DEF Inv
  <2> QED BY <1>2, <2>4, <2>5, <2>6 DEF WorkerStep, ScanAction, PackAction
<1> QED BY <1>1, <1>2 DEF Next

LEMMA AlwaysInv == Spec => []Inv
BY InitInv, NextInv, PTL DEF Spec

\* The reply to any get, gets or other command stays inside the buffer of its
\* connection, for all sizes of buffers, headers, keys and values.
THEOREM NoOverrunHolds == Spec => [](TypeOK /\ NoOverrun)
<1>1. Inv => TypeOK /\ NoOverrun BY DEF Inv
<1> QED BY <1>1, AlwaysInv, PTL

\* There is room for the END of a get whenever its worker looks for a token.
THEOREM RoomForEndHolds == Spec => []RoomForEnd
<1>1. Inv => RoomForEnd BY DEF Inv
<1> QED BY <1>1, AlwaysInv, PTL

\* num_qry counts no lookup twice, and all of them unless two workers count at
\* the same time, for any number of workers.
THEOREM NumQryHonestHolds == Spec => []NumQryHonest
<1>1. Inv => NumQryHonest BY DEF Inv, QryInv, NumQryHonest
<1> QED BY <1>1, AlwaysInv, PTL

-----------------------------------------------------------------------------
(* The counters of stats, modulo WORD *)

\* a and b are the same number to a counter.
Same(a, b) == \E k \in Int : a = b + k * WORD

LEMMA Multiples ==
  ASSUME NEW k \in Int
  PROVE  /\ k * WORD \in Int /\ (k + 1) * WORD = k * WORD + WORD
         /\ (k - 1) * WORD = k * WORD - WORD
         /\ k >= 1 => k * WORD >= WORD
         /\ k <= -1 => k * WORD <= -WORD
BY RepliesAssumption, Z3

LEMMA SameMod ==
  ASSUME NEW a \in Nat, NEW b \in Nat
  PROVE  Same(a, b) <=> a % WORD = b % WORD
<1> DEFINE p == a \div WORD
           q == b \div WORD
           x == a % WORD
           y == b % WORD
<1>1. WORD \in Nat \ {0} BY RepliesAssumption
<1>2. /\ p \in Int /\ x \in 0 .. WORD - 1 /\ a = p * WORD + x
  BY <1>1, Z3
<1>3. /\ q \in Int /\ y \in 0 .. WORD - 1 /\ b = q * WORD + y
  BY <1>1, Z3
<1> HIDE DEF p, q, x, y
<1>4. \A i, j \in Int : (i + j) * WORD = i * WORD + j * WORD /\ (i - j) * WORD = i * WORD - j * WORD
  BY <1>1, Z3
<1>5. ASSUME NEW k \in Int, a = b + k * WORD PROVE x = y
  <2> DEFINE j == (q - p) + k
  <2>1. j \in Int BY <1>2, <1>3
  <2>2. j * WORD = (q * WORD - p * WORD) + k * WORD
    <3>1. q - p \in Int BY <1>2, <1>3
    <3>2. ((q - p) + k) * WORD = (q - p) * WORD + k * WORD BY <3>1, <1>4
    <3>3. (q - p) * WORD = q * WORD - p * WORD BY <1>2, <1>3, <1>4
    <3> QED BY <3>2, <3>3
  <2> HIDE DEF j
  <2>3. p * WORD \in Int /\ q * WORD \in Int /\ k * WORD \in Int /\ j * WORD \in Int
    BY <2>1, <1>2, <1>3, Multiples
  <2>4. x - y = j * WORD BY <1>1, <1>2, <1>3, <1>5, <2>2, <2>3
  <2>5. x - y < WORD /\ x - y > -WORD BY <1>1, <1>2, <1>3
  <2>6. ~(j >= 1) /\ ~(j <= -1)
    BY <2>1, <2>3, <2>4, <2>5, <1>1, Multiples
  <2>7. j = 0 BY <2>1, <2>6
  <2>8. j * WORD = 0 BY <2>7, <1>1
  <2> QED BY <2>4, <2>8, <1>2, <1>3
<1>6. ASSUME x = y PROVE Same(a, b)
  <2>1. p - q \in Int BY <1>2, <1>3
  <2>2. (p - q) * WORD = p * WORD - q * WORD BY <1>2, <1>3, <1>4
  <2>3. p * WORD \in Int /\ q * WORD \in Int BY <1>2, <1>3, Multiples
  <2>4. a = b + (p - q) * WORD BY <1>2, <1>3, <1>6, <2>2, <2>3
  <2> QED BY <2>1, <2>4 DEF Same
<1>7. (x = y) <=> (a % WORD = b % WORD) BY DEF x, y
<1> QED BY <1>5, <1>6, <1>7 DEF Same

LEMMA SameMoves ==
  ASSUME NEW a \in Int, NEW b \in Int, Same(a, b)
  PROVE  /\ Same(a + 1, b + 1)
         /\ Same(a - WORD, b) /\ Same(a, b - WORD)
<1>1. PICK k \in Int : a = b + k * WORD BY DEF Same
<1>2. k + 1 \in Int /\ k - 1 \in Int /\ WORD \in Int /\ k * WORD \in Int
  BY RepliesAssumption, Multiples
<1>3. a + 1 = (b + 1) + k * WORD BY <1>1, <1>2
<1>4. a - WORD = b + (k - 1) * WORD BY <1>1, <1>2, Multiples
<1>5. a = (b - WORD) + (k + 1) * WORD BY <1>1, <1>2, Multiples
<1> QED BY <1>2, <1>3, <1>4, <1>5 DEF Same

\* A counter that wraps round is still the same number.
LEMMA IncWraps ==
  ASSUME NEW n \in 0 .. WORD - 1
  PROVE  Inc(n) = n + 1 \/ Inc(n) = (n + 1) - WORD
<1>1. WORD \in Nat \ {0} BY RepliesAssumption
<1>2. CASE n + 1 < WORD BY <1>1, <1>2, Z3 DEF Inc
<1>3. CASE n + 1 = WORD BY <1>1, <1>3, Z3 DEF Inc
<1> QED BY <1>1, <1>2, <1>3

LEMMA IncSame ==
  ASSUME NEW n \in 0 .. WORD - 1, NEW m \in Int, NEW b \in Int
  PROVE  /\ Same((n + m) + 1, b) => Same(Inc(n) + m, b)
         /\ Same(b, (n + m) + 1) => Same(b, Inc(n) + m)
<1>1. WORD \in Int /\ n \in Int BY RepliesAssumption
<1>2. CASE Inc(n) = n + 1
  <2>1. Inc(n) + m = (n + m) + 1 BY <1>1, <1>2
  <2> QED BY <2>1
<1>3. CASE Inc(n) = (n + 1) - WORD
  <2>1. Inc(n) + m = ((n + m) + 1) - WORD /\ (n + m) + 1 \in Int BY <1>1, <1>3
  <2> QED BY <2>1, SameMoves
<1> QED BY <1>2, <1>3, IncWraps

\* The workers with a token that is counted and has no outcome yet, which a
\* reset did not come between.
AtWork == {w \in Worker \ early : pc[w] \in Busy}

\* StatsAddUp as a multiple of WORD, which steps carry along.
StatsInv ==
  Same(get_cmds + stray, ((get_hits + get_misses) + other) + Cardinality(AtWork))

LEMMA AtWorkType == IsFiniteSet(AtWork) /\ Cardinality(AtWork) \in Nat
<1>1. IsFiniteSet(Worker) /\ AtWork \subseteq Worker BY RepliesAssumption DEF AtWork
<1> QED BY <1>1, FS_Subset, FS_CardinalityType

\* What a step of w to label does to the number of workers at work: early may
\* change for w only.
LEMMA AtWorkNext ==
  ASSUME TypeOK, NEW w \in Worker, NEW label, pc' = [pc EXCEPT ![w] = label],
         early' \ {w} = early \ {w}
  PROVE  LET Counts == label \in Busy /\ w \notin early' IN
         /\ ~Counts => Cardinality(AtWork') =
              Cardinality(AtWork) - IF w \in AtWork THEN 1 ELSE 0
         /\ Counts => Cardinality(AtWork') =
              Cardinality(AtWork) + IF w \in AtWork THEN 0 ELSE 1
<1>1. pc'[w] = label /\ \A v \in Worker : v # w => pc'[v] = pc[v] BY DEF TypeOK
<1>2. \A v \in Worker : v # w => (v \in AtWork' <=> v \in AtWork) BY <1>1 DEF AtWork
<1>3. w \in AtWork' <=> label \in Busy /\ w \notin early' BY <1>1 DEF AtWork
<1>4. AtWork \subseteq Worker /\ AtWork' \subseteq Worker BY DEF AtWork
<1>5. IsFiniteSet(AtWork) /\ Cardinality(AtWork) \in Nat BY AtWorkType
<1>6. CASE ~(label \in Busy /\ w \notin early')
  <2>1. AtWork' = AtWork \ {w} BY <1>2, <1>3, <1>4, <1>6
  <2>2. CASE w \in AtWork
    <3>1. Cardinality(AtWork \ {w}) = Cardinality(AtWork) - 1 BY <1>5, <2>2, FS_RemoveElement
    <3> QED BY <2>1, <2>2, <3>1, <1>6
  <2>3. CASE w \notin AtWork
    <3>1. AtWork \ {w} = AtWork BY <2>3
    <3>2. Cardinality(AtWork') = Cardinality(AtWork) - 0 BY <2>1, <3>1, <1>5
    <3> QED BY <2>3, <3>2, <1>6
  <2> QED BY <2>2, <2>3
<1>7. CASE label \in Busy /\ w \notin early'
  <2>1. AtWork' = AtWork \cup {w} BY <1>2, <1>3, <1>4, <1>7
  <2>2. CASE w \in AtWork
    <3>1. AtWork' = AtWork BY <2>1, <2>2
    <3>2. Cardinality(AtWork) = Cardinality(AtWork) + 0 BY <1>5
    <3> QED BY <2>2, <3>1, <3>2, <1>7
  <2>3. CASE w \notin AtWork
    <3>1. Cardinality(AtWork \cup {w}) = Cardinality(AtWork) + 1 BY <1>5, <2>3, FS_AddElement
    <3> QED BY <2>1, <2>3, <3>1, <1>7
  <2> QED BY <2>2, <2>3
<1> QED BY <1>6, <1>7

LEMMA InitStats == Init => StatsInv
<1> SUFFICES ASSUME Init PROVE StatsInv OBVIOUS
<1>1. AtWork = {} BY DEF Init, AtWork, Busy
<1>2. Cardinality(AtWork) = 0 BY <1>1, FS_EmptySet
<1>3. 0 = 0 + 0 * WORD BY RepliesAssumption
<1> QED BY <1>2, <1>3 DEF Init, StatsInv, Same

\* A token is counted, and is at work.
LEMMA NextTokenStats == ASSUME Inv, StatsInv, NEW w \in Worker, NextToken(w) PROVE StatsInv'
<1> DEFINE n == Cardinality(AtWork)
           r == (get_hits + get_misses) + other
<1>1. /\ TypeOK /\ get_cmds \in 0 .. WORD - 1 /\ stray \in Int /\ r \in Int /\ n \in Nat
      /\ get_cmds \in Int
  BY AtWorkType, RepliesAssumption DEF Inv, TypeOK
<1>2. /\ get_cmds' = Inc(get_cmds) /\ early' = early \ {w} /\ pc' = [pc EXCEPT ![w] = "counted"]
      /\ UNCHANGED <<get_hits, get_misses, stray, other>> /\ pc[w] = "token"
  BY DEF NextToken, Goto
<1>3. Cardinality(AtWork') = n + 1
  <2>1. w \notin AtWork BY <1>2 DEF AtWork, Busy
  <2>2. "counted" \in Busy /\ w \notin early' BY <1>2 DEF Busy
  <2> QED BY <1>1, <1>2, <2>1, <2>2, AtWorkNext
<1>4. Same(get_cmds + stray, r + n) BY DEF StatsInv
<1> HIDE DEF n, r
<1>5. Same((get_cmds + stray) + 1, (r + n) + 1) BY <1>1, <1>4, SameMoves
<1>6. Same(Inc(get_cmds) + stray, (r + n) + 1) BY <1>1, <1>5, IncSame
<1>7. (r + n) + 1 = r + (n + 1) BY <1>1
<1> QED BY <1>2, <1>3, <1>6, <1>7 DEF StatsInv, r

\* A token is neither a hit nor a miss.
LEMMA NoOutcomeStats ==
  ASSUME Inv, StatsInv, NEW w \in Worker, Illegal(w) \/ CallModule(w) PROVE StatsInv'
<1> DEFINE n == Cardinality(AtWork)
           l == get_cmds + stray
           h == get_hits + get_misses
<1>1. /\ TypeOK /\ other \in 0 .. WORD - 1 /\ other \in Int /\ l \in Int /\ h \in Int /\ n \in Nat
  BY AtWorkType, RepliesAssumption DEF Inv, TypeOK
<1>2. /\ pc[w] = "counted" /\ other' = (IF w \in early THEN other ELSE Inc(other))
      /\ early' = early \ {w}
      /\ UNCHANGED <<get_cmds, get_hits, get_misses, stray>>
      /\ \E label \in {"token", "module"} : pc' = [pc EXCEPT ![w] = label]
  BY DEF Illegal, CallModule, NoOutcome, Goto, counters
<1>3. w \in AtWork <=> w \notin early BY <1>2 DEF AtWork, Busy
<1>4. Cardinality(AtWork') = n - IF w \in AtWork THEN 1 ELSE 0
  <2>1. PICK label \in {"token", "module"} : pc' = [pc EXCEPT ![w] = label] BY <1>2
  <2>2. label \notin Busy BY DEF Busy
  <2> QED BY <1>1, <1>2, <2>1, <2>2, AtWorkNext
<1>5. Same(l, (h + other) + n) BY DEF StatsInv
<1> HIDE DEF n, l, h
<1>6. CASE w \in early
  <2>1. Cardinality(AtWork') = n BY <1>1, <1>3, <1>4, <1>6
  <2> QED BY <1>2, <1>5, <1>6, <2>1 DEF StatsInv, l, h
<1>7. CASE w \notin early
  <2>1. Cardinality(AtWork') = n - 1 /\ other' = Inc(other) BY <1>1, <1>2, <1>3, <1>4, <1>7
  <2>2. (other + (h + (n - 1))) + 1 = (h + other) + n BY <1>1
  <2>3. h + (n - 1) \in Int BY <1>1
  <2>4. Same(l, Inc(other) + (h + (n - 1))) BY <1>1, <1>5, <2>2, <2>3, IncSame
  <2>5. Inc(other) \in Int BY <1>1, IncInWord, RepliesAssumption
  <2>6. Inc(other) + (h + (n - 1)) = (h + Inc(other)) + (n - 1) BY <1>1, <2>5
  <2> QED BY <1>2, <2>1, <2>4, <2>6 DEF StatsInv, l, h
<1> QED BY <1>6, <1>7

\* A token is a hit or a miss.
LEMMA OutcomeStats ==
  ASSUME Inv, StatsInv, NEW w \in Worker,
         NotMounted(w) \/ SeekMiss(w) \/ \E len \in Length : SeekHit(w, len)
  PROVE  StatsInv'
<1> DEFINE n == Cardinality(AtWork)
           h == get_hits + get_misses
<1>1. /\ TypeOK /\ stray \in 0 .. WORD - 1 /\ stray \in Int /\ get_cmds \in Int /\ other \in Int
      /\ get_hits \in 0 .. WORD - 1 /\ get_misses \in 0 .. WORD - 1
      /\ get_hits \in Int /\ get_misses \in Int /\ h \in Int /\ n \in Nat
  BY AtWorkType, RepliesAssumption DEF Inv, TypeOK
<1>2. /\ pc[w] \in {"counted", "seek"} /\ stray' = (IF w \in early THEN Inc(stray) ELSE stray)
      /\ early' = early \ {w}
      /\ UNCHANGED <<get_cmds, other>>
      /\ \E label \in {"token", "pack"} : pc' = [pc EXCEPT ![w] = label]
      /\ \/ get_misses' = Inc(get_misses) /\ get_hits' = get_hits
         \/ get_hits' = Inc(get_hits) /\ get_misses' = get_misses
  BY DEF NotMounted, SeekMiss, SeekHit, Outcome, Goto
<1>3. w \in AtWork <=> w \notin early BY <1>2 DEF AtWork, Busy
<1>4. Cardinality(AtWork') = n - IF w \in AtWork THEN 1 ELSE 0
  <2>1. PICK label \in {"token", "pack"} : pc' = [pc EXCEPT ![w] = label] BY <1>2
  <2>2. label \notin Busy BY DEF Busy
  <2> QED BY <1>1, <1>2, <2>1, <2>2, AtWorkNext
<1>5. Same(get_cmds + stray, (h + other) + n) BY DEF StatsInv
<1>6. ASSUME NEW a \in Int, NEW m \in Int, Same(a, ((h + other) + m) + 1)
      PROVE  Same(a, ((get_hits' + get_misses') + other) + m)
  <2>1. CASE get_misses' = Inc(get_misses) /\ get_hits' = get_hits
    <3>1. Inc(get_misses) \in Int BY <1>1, IncInWord, RepliesAssumption
    <3>2. (get_hits + other) + m \in Int /\
          (get_misses + ((get_hits + other) + m)) + 1 = ((h + other) + m) + 1
      BY <1>1
    <3>3. Same(a, Inc(get_misses) + ((get_hits + other) + m))
      BY <1>1, <1>6, <3>2, IncSame
    <3>4. Inc(get_misses) + ((get_hits + other) + m)
            = ((get_hits + Inc(get_misses)) + other) + m
      BY <1>1, <3>1
    <3> QED BY <2>1, <3>3, <3>4
  <2>2. CASE get_hits' = Inc(get_hits) /\ get_misses' = get_misses
    <3>1. Inc(get_hits) \in Int BY <1>1, IncInWord, RepliesAssumption
    <3>2. (get_misses + other) + m \in Int /\
          (get_hits + ((get_misses + other) + m)) + 1 = ((h + other) + m) + 1
      BY <1>1
    <3>3. Same(a, Inc(get_hits) + ((get_misses + other) + m))
      BY <1>1, <1>6, <3>2, IncSame
    <3>4. Inc(get_hits) + ((get_misses + other) + m)
            = ((Inc(get_hits) + get_misses) + other) + m
      BY <1>1, <3>1
    <3> QED BY <2>2, <3>3, <3>4
  <2> QED BY <1>2, <2>1, <2>2
<1> HIDE DEF n, h
<1>7. CASE w \in early
  <2>1. Cardinality(AtWork') = n /\ stray' = Inc(stray) BY <1>1, <1>2, <1>3, <1>4, <1>7
  <2>2. Same((get_cmds + stray) + 1, ((h + other) + n) + 1) BY <1>1, <1>5, SameMoves
  <2>3. (get_cmds + stray) + 1 = (stray + get_cmds) + 1 BY <1>1
  <2>4. ((h + other) + n) + 1 \in Int BY <1>1
  <2>5. Same(Inc(stray) + get_cmds, ((h + other) + n) + 1) BY <1>1, <2>2, <2>3, <2>4, IncSame
  <2>6. Inc(stray) \in Int BY <1>1, IncInWord, RepliesAssumption
  <2>7. Inc(stray) + get_cmds = get_cmds + Inc(stray) /\ get_cmds + Inc(stray) \in Int
    BY <1>1, <2>6
  <2>8. Same(get_cmds + Inc(stray), ((h + other) + n) + 1) BY <2>5, <2>7
  <2>9. Same(get_cmds + Inc(stray), ((get_hits' + get_misses') + other) + n)
    BY <1>1, <1>6, <2>7, <2>8
  <2> QED BY <1>2, <2>1, <2>9 DEF StatsInv
<1>8. CASE w \notin early
  <2>1. Cardinality(AtWork') = n - 1 /\ stray' = stray BY <1>1, <1>2, <1>3, <1>4, <1>8
  <2>2. ((h + other) + (n - 1)) + 1 = (h + other) + n /\ n - 1 \in Int
        /\ get_cmds + stray \in Int
    BY <1>1
  <2>3. Same(get_cmds + stray, ((get_hits' + get_misses') + other) + (n - 1))
    BY <1>5, <1>6, <2>2
  <2> QED BY <1>2, <2>1, <2>3 DEF StatsInv
<1> QED BY <1>7, <1>8

\* gets counts a miss without a command.
LEMMA GetsNotMountedStats ==
  ASSUME Inv, StatsInv, NEW w \in Worker, GetsNotMounted(w) PROVE StatsInv'
<1> DEFINE n == Cardinality(AtWork)
           m == (get_hits + other) + n
<1>1. /\ stray \in 0 .. WORD - 1 /\ stray \in Int /\ get_cmds \in Int /\ other \in Int
      /\ get_hits \in Int /\ get_misses \in 0 .. WORD - 1 /\ get_misses \in Int
      /\ n \in Int /\ m \in Int
  BY AtWorkType, RepliesAssumption DEF Inv, TypeOK
<1>2. /\ get_misses' = Inc(get_misses) /\ stray' = Inc(stray)
      /\ UNCHANGED <<pc, early, get_cmds, get_hits, other>>
  BY DEF GetsNotMounted
<1>3. Cardinality(AtWork') = n BY <1>2 DEF AtWork
<1>4. Same(get_cmds + stray, ((get_hits + get_misses) + other) + n) BY DEF StatsInv
<1> HIDE DEF n
<1>5. /\ (stray + get_cmds) + 1 = (get_cmds + stray) + 1
      /\ (get_misses + m) + 1 = (((get_hits + get_misses) + other) + n) + 1
      /\ get_cmds + stray \in Int /\ ((get_hits + get_misses) + other) + n \in Int
      /\ (get_misses + m) + 1 \in Int
  BY <1>1
<1>6. Inc(stray) \in Int /\ Inc(get_misses) \in Int BY <1>1, IncInWord, RepliesAssumption
<1>7. Same((get_cmds + stray) + 1, (((get_hits + get_misses) + other) + n) + 1)
  BY <1>4, <1>5, SameMoves
<1>8. Same((stray + get_cmds) + 1, (get_misses + m) + 1) BY <1>5, <1>7
<1>9. Same(Inc(stray) + get_cmds, (get_misses + m) + 1) BY <1>1, <1>5, <1>8, IncSame
<1>10. Inc(stray) + get_cmds = get_cmds + Inc(stray) /\ get_cmds + Inc(stray) \in Int
  BY <1>1, <1>6
<1>11. Same(get_cmds + Inc(stray), Inc(get_misses) + m) BY <1>1, <1>9, <1>10, IncSame
<1>12. Inc(get_misses) + m = ((get_hits + Inc(get_misses)) + other) + n BY <1>1, <1>6
<1> QED BY <1>2, <1>3, <1>11, <1>12 DEF StatsInv

\* Every token at work is early from here on.
LEMMA StatsResetStats == ASSUME Inv, NEW w \in Worker, StatsReset(w) PROVE StatsInv'
<1>1. /\ get_cmds' = 0 /\ get_hits' = 0 /\ get_misses' = 0 /\ stray' = 0 /\ other' = 0
      /\ early' = {v \in Worker : pc[v] \in Busy} /\ pc' = pc
  BY DEF StatsReset, pack_string
<1>2. AtWork' = {} BY <1>1 DEF AtWork
<1>3. Cardinality(AtWork') = 0 BY <1>2, FS_EmptySet
<1>4. 0 = 0 + 0 * WORD BY RepliesAssumption
<1> QED BY <1>1, <1>3, <1>4 DEF StatsInv, Same

\* The other steps count nothing, and no token comes to be at work or stops.
LEMMA OtherStats ==
  ASSUME Inv, StatsInv, UNCHANGED <<counters, resets>>,
         \A v \in Worker : pc'[v] \in Busy <=> pc[v] \in Busy
  PROVE  StatsInv'
<1>1. AtWork' = AtWork BY DEF AtWork, resets
<1> QED BY <1>1 DEF StatsInv, counters, resets

LEMMA NextStats == Inv /\ StatsInv /\ [Next]_vars => StatsInv'
<1> SUFFICES ASSUME Inv, StatsInv, [Next]_vars PROVE StatsInv' OBVIOUS
<1>1. CASE UNCHANGED vars BY <1>1, OtherStats DEF vars
<1>2. ASSUME NEW w \in Worker, WorkerStep(w) PROVE StatsInv'
  <2>1. CASE NextToken(w) BY <2>1, NextTokenStats
  <2>2. CASE Illegal(w) \/ CallModule(w) BY <2>2, NoOutcomeStats
  <2>3. CASE NotMounted(w) \/ SeekMiss(w) \/ \E len \in Length : SeekHit(w, len)
    BY <2>3, OutcomeStats
  <2>4. CASE GetsNotMounted(w) BY <2>4, GetsNotMountedStats
  <2>5. CASE StatsReset(w) BY <2>5, StatsResetStats
  <2>6. CASE \/ Get(w) \/ ReadNumQry(w) \/ WriteNumQry(w) \/ PackFails(w) \/ ModuleSilent(w)
             \/ Footer(w) \/ Gets(w) \/ OneLine(w)
             \/ \E nc \in Header : Pack(w, nc) \/ ReadFails(w, nc)
             \/ \E key \in Key, len \in Length : lpack_ascii(w, key, len)
    <3>1. UNCHANGED <<counters, resets>>
      BY <2>6 DEF Get, ReadNumQry, WriteNumQry, PackFails, ModuleSilent, Footer, Gets, OneLine,
         Pack, ReadFails, lpack_ascii
    <3>2. pc \in [Worker -> {"ready", "token", "pack", "module"} \cup Busy]
      BY DEF Inv, TypeOK
    <3>3. \/ pc' = pc
          \/ \E label : /\ pc' = [pc EXCEPT ![w] = label]
                        /\ label \in Busy <=> pc[w] \in Busy
      BY <2>6 DEF Get, ReadNumQry, WriteNumQry, PackFails, ModuleSilent, Footer, Gets, OneLine,
         Pack, ReadFails, lpack_ascii, Packed, pack_string, Goto, Busy
    <3>4. \A v \in Worker : pc'[v] \in Busy <=> pc[v] \in Busy BY <3>2, <3>3
    <3> QED BY <3>1, <3>4, OtherStats
  <2> QED BY <1>2, <2>1, <2>2, <2>3, <2>4, <2>5, <2>6 DEF WorkerStep
<1> QED BY <1>1, <1>2 DEF Next

\* The counters of stats add up modulo 2^32, through every reset and every
\* wrap-around, however many workers count (README.md section six).
THEOREM StatsAddUpHolds == Spec => []StatsAddUp
<1>1. ASSUME Inv, StatsInv PROVE StatsAddUp
  <2> DEFINE a == get_cmds + stray
             b == ((get_hits + get_misses) + other) + Cardinality(AtWork)
  <2>1. a \in Nat /\ b \in Nat
    <3>1. /\ get_cmds \in Nat /\ stray \in Nat /\ get_hits \in Nat /\ get_misses \in Nat
          /\ other \in Nat
      BY <1>1, RepliesAssumption DEF Inv, TypeOK
    <3> QED BY <3>1, AtWorkType
  <2>2. Same(a, b) BY <1>1 DEF StatsInv
  <2> HIDE DEF a, b
  <2>3. a % WORD = b % WORD BY <2>1, <2>2, SameMod
  <2> QED BY <2>3 DEF StatsAddUp, AtWork, a, b
<1>2. Inv /\ StatsInv /\ [Next]_vars => StatsInv' BY NextStats
<1> QED BY <1>1, <1>2, InitStats, AlwaysInv, PTL DEF Spec
=============================================================================
