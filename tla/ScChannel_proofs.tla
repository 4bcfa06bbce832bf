--------------------------- MODULE ScChannel_proofs ---------------------------
(***************************************************************************)
(* Proof that the sc channel never skips an action packet: scsn, in memory *)
(* and in the state cache, never gets ahead of the tree.  It holds for     *)
(* procsc(), and for ScStreamingParser as long as nobody moves a node (the *)
(* run sc_move_lost shows what happens when somebody does).                *)
(*                                                                         *)
(* NothingSkipped is not inductive.  What it needs is that a request asks  *)
(* from where the tree is complete, that the parser leaves no gap between  *)
(* there and the packet it has come to, and that an "isn" put aside is     *)
(* that of the operation being read.                                       *)
(*                                                                         *)
(* The last part proves that every variable stays within its type.         *)
(***************************************************************************)
EXTENDS ScChannel, WellFoundedInduction, TLAPS

\* No client moves a node.
NoMoves ==
    /\ "m" \notin Kinds
    /\ \A b \in Batches : \A i \in DOMAIN b : b[i] # "m"

Operation == [kind : {"u", "n", "m", "s"}, isn : BOOLEAN]

Command == [kind : {"u", "m", "p", "cached", "nocache"}, st : Int]

Request == [status : {"none", "sent", "answered"}, from : Nat, upto : Nat, ir : BOOLEAN]

Position == [stage : {"idle", "a", "sn", "eoo"}, op : Nat, part : {1, 2}, checked : BOOLEAN]

ParserFlags == [mInterimSn : Int, mNeedToPurge : BOOLEAN,
                mLastAPDeletedNode : BOOLEAN, mIsNewSharesMerged : BOOLEAN]

Types ==
    /\ ops \in Seq(Operation)
    /\ batch \in Seq(Command)
    /\ pendingsc \in Request
    /\ parser \in Position
    /\ streaming \in ParserFlags
    /\ fetch \in {"none", "cached", "nocache"}
    /\ scsn \in Int /\ NoSn <= scsn /\ scsn <= Len(ops)
    /\ db.scsn \in Int /\ NoSn <= db.scsn /\ db.scsn <= Len(ops)

\* Tree a shows all packets of operation k of the given kind.
WholeOp(k, kind, a) == \A p \in 1..Parts(kind) : <<k, p>> \in a

Whole(k, a) == WholeOp(k, ops[k].kind, a)

Kept ==
    /\ \A k \in 1..scsn : Whole(k, applied)
    /\ \A k \in 1..db.scsn : Whole(k, db.applied)

\* While nodes are being fetched there is no sc channel.
Fetching ==
    /\ cs \in {"sent", "refused", "executed"} => batch # <<>>
    /\ IsFetchNodes =>
          /\ scsn = NoSn /\ pendingsc.status = "none" /\ streaming.mInterimSn = NoSn
          /\ cs \in {"executed", "processing"} => batch[1].st \in 0..Len(ops)
    /\ ~IsFetchNodes =>
          \A i \in 1..Len(batch) : batch[i].kind \in {"u", "m", "p"}

\* A request asks from where the tree is complete.
Asking ==
    /\ pendingsc.status # "none" =>
          /\ pendingsc.from <= scsn
          /\ parser.stage = "idle" \/ (~Streaming /\ parser.stage # "eoo") =>
                pendingsc.from = scsn
    /\ pendingsc.status = "answered" =>
          pendingsc.from <= pendingsc.upto /\ pendingsc.upto <= Len(ops)
    /\ pendingsc.status # "answered" => parser.stage = "idle"

\* The parser leaves no gap.
Reading ==
    /\ parser.stage = "a" =>
          /\ pendingsc.from < parser.op /\ parser.op <= pendingsc.upto + 1
          /\ scsn < parser.op
          /\ \A k \in (pendingsc.from + 1)..(parser.op - 1) : Whole(k, applied)
          /\ parser.part = 2 =>
                /\ parser.op <= pendingsc.upto
                /\ Parts(ops[parser.op].kind) = 2
                /\ <<parser.op, 1>> \in applied
    /\ parser.stage = "sn" =>
          \A k \in (pendingsc.from + 1)..pendingsc.upto : Whole(k, applied)

NoMovesStreamed ==
    Streaming => /\ \A i \in 1..Len(ops) : ops[i].kind # "m"
                 /\ \A i \in 1..Len(batch) : batch[i].kind # "m"

\* The isn that is put aside belongs to the operation being read.
Interim ==
    streaming.mInterimSn # NoSn =>
        /\ parser.stage = "a" /\ parser.part = 2
        /\ streaming.mInterimSn = parser.op

Inv == Types /\ Kept /\ Fetching /\ Asking /\ Reading /\ NoMovesStreamed /\ Interim

invvars == <<ops, batch, cs, fetch, scsn, pendingsc, parser, streaming, applied, db>>

-----------------------------------------------------------------------------
(* Facts about operations and packets.                                     *)

\* Parts(): an operation has one or two packets.
LEMMA PartsType == ASSUME NEW kind PROVE Parts(kind) \in {1, 2}
BY DEF Parts

\* PacketsUpTo(): a tree contains it exactly when it shows every operation whole.
LEMMA UpToWhole ==
    ASSUME NEW n \in Int, NEW a
    PROVE  PacketsUpTo(n) \subseteq a <=> \A k \in 1..n : Whole(k, a)
<1>1. ASSUME PacketsUpTo(n) \subseteq a, NEW k \in 1..n, NEW p \in 1..Parts(ops[k].kind)
      PROVE  <<k, p>> \in a
  <2>1. <<k, p>> \in Packets(k)
    BY DEF Packets
  <2> QED
    BY <1>1, <2>1 DEF PacketsUpTo
<1>2. ASSUME \A k \in 1..n : Whole(k, a), NEW x \in PacketsUpTo(n)
      PROVE  x \in a
  <2>1. PICK k \in 1..n : x \in Packets(k)
    BY DEF PacketsUpTo
  <2>2. PICK p \in 1..Parts(ops[k].kind) : x = <<k, p>>
    BY <2>1 DEF Packets
  <2> QED
    BY <1>2, <2>2 DEF Whole, WholeOp
<1> QED
  BY <1>1, <1>2 DEF Whole, WholeOp

\* The inductive invariant implies NothingSkipped.
LEMMA KeptNothingSkipped == Types /\ Kept => NothingSkipped
BY Zenon, UpToWhole DEF Types, Kept, NothingSkipped

\* The log only grows: what is in it stays.
LEMMA LogGrows ==
    ASSUME NEW s \in Seq(Operation), NEW t \in Seq(Operation)
    PROVE  /\ s \o t \in Seq(Operation)
           /\ Len(s) <= Len(s \o t)
           /\ \A i \in 1..Len(s) : (s \o t)[i] = s[i]
           /\ \A i \in 1..Len(s \o t) : i > Len(s) =>
                 i - Len(s) \in 1..Len(t) /\ (s \o t)[i] = t[i - Len(s)]
OBVIOUS

\* Positions within a shorter log are positions of the longer one.
LEMMA WithinLog ==
    /\ \A x, a, b \in Nat : x <= a /\ a <= b => x <= b
    /\ \A x, a, b \in Nat : 1 <= x /\ x <= a /\ a <= b => x \in 1..b
    /\ \A a, b \in Nat : a <= b => \A i \in 1..a : i \in 1..b
OBVIOUS

\* An operation already read is one of the log.
LEMMA BelowLog ==
    \A a, b, c, n \in Nat : \A k \in (a + 1)..(b - 1) : b <= c + 1 /\ c <= n => k \in 1..n
OBVIOUS

-----------------------------------------------------------------------------
(* The invariant holds initially and is preserved.                         *)

\* A session that has just loaded its nodes satisfies the invariant.
LEMMA InitInv == Init => Inv
<1> SUFFICES ASSUME Init PROVE Inv
  OBVIOUS
<1> USE DEF Init
<1>1. Types
  BY DEF Types, NoRequest, NoParser, NoStreaming, NoSn, Request, Position, ParserFlags
<1>2. Kept /\ Fetching /\ NoMovesStreamed
  BY DEF Kept, Fetching, IsFetchNodes, NoMovesStreamed
<1>3. Asking /\ Reading /\ Interim
  BY DEF Asking, Reading, Interim, NoRequest, NoParser, NoStreaming, NoSn
<1> QED
  BY <1>1, <1>2, <1>3 DEF Inv

\* Everything below is about procsc(), or about logs without moves.
Scope == ~Streaming \/ NoMoves

\* The API executes a batch: every command but a "p" gets an operation of its kind,
\* in order, at the end of the log.
LEMMA ApiExecuted ==
    ASSUME ops \in Seq(Operation), batch \in Seq(Command), ~IsFetchNodes, ApiExecutes,
           \A i \in 1..Len(batch) : batch[i].kind \in {"u", "m", "p"}
    PROVE  /\ \E new \in Seq(Operation) : ops' = ops \o new
           /\ \A i \in 1..Len(ops') : i > Len(ops) => ops'[i].isn \in IsnChoices
           /\ batch' \in Seq(Command) /\ Len(batch') = Len(batch)
           /\ \A i \in 1..Len(batch) :
                 /\ batch'[i].kind = batch[i].kind
                 /\ batch[i].kind = "p" => batch'[i].st = batch[i].st
                 /\ batch[i].kind # "p" =>
                       /\ Len(ops) < batch'[i].st /\ batch'[i].st <= Len(ops')
                       /\ ops'[batch'[i].st].kind = batch[i].kind
           /\ \A i, j \in 1..Len(batch) :
                 i < j /\ batch[i].kind # "p" /\ batch[j].kind # "p" =>
                    batch'[i].st < batch'[j].st
           /\ \A i \in 1..Len(ops') : i > Len(ops) =>
                 \E j \in 1..Len(batch) : ops'[i].kind = batch[j].kind
\* The length of the log after a batch.
<1>LogLength.
      ASSUME NEW s \in Seq(Operation), NEW t \in Seq(Operation)
      PROVE  Len(s \o t) = Len(s) + Len(t)
  BY <1>LogLength
\* A batch given command by command is a sequence of commands.
<1>CommandsInOrder.
      ASSUME NEW n \in Nat, NEW b \in [1..n -> Command]
      PROVE  b \in Seq(Command) /\ Len(b) = n
  BY <1>CommandsInOrder
<1> DEFINE acting == {i \in DOMAIN batch : batch[i].kind # "p"}
           kinds == {batch[i].kind : i \in acting}
<1>1. PICK n \in 0..Len(batch), at \in [acting -> 1..Len(batch)] :
         /\ {at[i] : i \in acting} = 1..n
         /\ \A i, j \in acting : i < j => at[i] < at[j]
         /\ \E acts \in [1..n -> [kind : kinds, isn : IsnChoices]] :
               /\ \A i \in acting : acts[at[i]].kind = batch[i].kind
               /\ ops' = ops \o acts
         /\ batch' = [i \in DOMAIN batch |->
                        IF i \in acting
                        THEN [batch[i] EXCEPT !.st = Len(ops) + at[i]] ELSE batch[i]]
  BY Zenon DEF ApiExecutes
<1>2. PICK acts \in [1..n -> [kind : kinds, isn : IsnChoices]] :
         /\ \A i \in acting : acts[at[i]].kind = batch[i].kind
         /\ ops' = ops \o acts
  BY Zenon, <1>1
<1>3. /\ Len(batch) \in Nat /\ Len(ops) \in Nat /\ DOMAIN batch = 1..Len(batch) /\ n \in Nat
      /\ \A i \in 1..Len(batch) : i \in acting <=> batch[i].kind # "p"
      /\ \A i \in acting : i \in 1..Len(batch)
  OBVIOUS
<1>4. /\ kinds \subseteq {"u", "m"}
      /\ \A k \in kinds : \E j \in 1..Len(batch) : k = batch[j].kind
  BY <1>3
<1>5. [kind : kinds, isn : IsnChoices] \subseteq Operation
  BY <1>4, ScChannelAssumption DEF ScChannelAssumption, Operation
<1> HIDE DEF acting, kinds
<1>6. \A i \in acting : at[i] \in 1..n
  BY <1>1
<1>7. acts \in Seq(Operation) /\ Len(acts) = n
  BY <1>2, <1>3, <1>5
<1>8. /\ Len(ops') = Len(ops) + n
      /\ \A i \in 1..Len(ops') : i > Len(ops) => i - Len(ops) \in 1..n /\ ops'[i] = acts[i - Len(ops)]
  <2>1. ops' = ops \o acts
    BY <1>2
  <2>2. Len(ops') = Len(ops) + n
    BY Zenon, <1>7, <2>1, <1>LogLength
  <2>3. \A i \in 1..Len(ops') : i > Len(ops) =>
           i - Len(ops) \in 1..Len(acts) /\ ops'[i] = acts[i - Len(ops)]
    BY <1>7, <2>1, LogGrows
  <2> QED
    BY <1>7, <2>2, <2>3
<1>9. ASSUME NEW i \in 1..Len(ops'), i > Len(ops)
      PROVE  /\ ops'[i].isn \in IsnChoices
             /\ \E j \in 1..Len(batch) : ops'[i].kind = batch[j].kind
  <2>1. i - Len(ops) \in 1..n /\ ops'[i] = acts[i - Len(ops)]
    BY <1>8, <1>9
  <2>2. ops'[i] \in [kind : kinds, isn : IsnChoices]
    BY <1>2, <2>1
  <2> QED
    BY Zenon, <1>4, <2>2
<1>10. ASSUME NEW i \in 1..Len(batch)
       PROVE  /\ batch'[i] \in Command /\ batch'[i].kind = batch[i].kind
              /\ batch[i].kind = "p" => batch'[i].st = batch[i].st
              /\ batch[i].kind # "p" => batch'[i].st = Len(ops) + at[i]
  <2>1. batch[i] \in Command /\ (i \in acting => Len(ops) + at[i] \in Int)
    BY <1>3, <1>6
  <2>2. batch'[i] = IF i \in acting THEN [batch[i] EXCEPT !.st = Len(ops) + at[i]] ELSE batch[i]
    BY <1>1, <1>3
  <2> QED
    BY ZenonT(30), <1>3, <2>1, <2>2 DEF Command
<1>11. batch' \in Seq(Command) /\ Len(batch') = Len(batch)
  <2>1. batch' = [i \in DOMAIN batch |-> batch'[i]]
    BY <1>1
  <2>2. batch' = [i \in 1..Len(batch) |-> batch'[i]]
    BY <1>3, <2>1
  <2>3. \A i \in 1..Len(batch) : batch'[i] \in Command
    BY <1>10
  <2>4. batch' \in [1..Len(batch) -> Command]
    BY <2>2, <2>3
  <2>5. Len(batch) \in Nat
    BY <1>3
  <2> QED
    BY Zenon, <2>4, <2>5, <1>CommandsInOrder
<1>12. ASSUME NEW i \in 1..Len(batch), batch[i].kind # "p"
       PROVE  /\ Len(ops) < batch'[i].st /\ batch'[i].st <= Len(ops')
              /\ ops'[batch'[i].st].kind = batch[i].kind
  <2>1. i \in acting /\ at[i] \in 1..n /\ acts[at[i]].kind = batch[i].kind
    BY <1>2, <1>3, <1>6, <1>12
  <2>2. /\ Len(ops) + at[i] \in 1..Len(ops') /\ Len(ops) + at[i] > Len(ops)
        /\ (Len(ops) + at[i]) - Len(ops) = at[i]
    BY <1>3, <1>8, <2>1
  <2>3. ops'[Len(ops) + at[i]] = acts[at[i]]
    BY <1>8, <2>2
  <2>4. batch'[i].st = Len(ops) + at[i]
    BY <1>10, <1>12
  <2> QED
    BY <2>1, <2>2, <2>3, <2>4
<1>13. ASSUME NEW i \in 1..Len(batch), NEW j \in 1..Len(batch), i < j,
              batch[i].kind # "p", batch[j].kind # "p"
       PROVE  batch'[i].st < batch'[j].st
  <2>1. i \in acting /\ j \in acting /\ at[i] \in 1..n /\ at[j] \in 1..n
    BY <1>3, <1>6, <1>13
  <2>2. at[i] < at[j]
    BY <1>1, <1>13, <2>1
  <2>3. batch'[i].st = Len(ops) + at[i] /\ batch'[j].st = Len(ops) + at[j]
    BY <1>10, <1>13
  <2> QED
    BY <1>3, <2>1, <2>2, <2>3
<1>14. \E new \in Seq(Operation) : ops' = ops \o new
  BY Zenon, <1>2, <1>7
<1> QED
  BY Zenon, <1>9, <1>10, <1>11, <1>12, <1>13, <1>14

\* Request::process() leaves the batch as it is, or empty.
LEMMA ProcessBatch ==
    Process => \/ cs' = "processing" /\ batch' = batch
               \/ cs' = "idle" /\ batch' = <<>>
BY DEF Process

\* The idle values have their types.
LEMMA NothingTypes ==
    /\ NoRequest \in Request /\ NoParser \in Position /\ NoStreaming \in ParserFlags
    /\ NoRequest.status = "none" /\ NoParser.stage = "idle" /\ NoStreaming.mInterimSn = NoSn
BY DEF NoRequest, NoParser, NoStreaming, Request, Position, ParserFlags, NoSn

\* The idle values lie within any log.
LEMMA NothingBounds ==
    ASSUME NEW s \in Seq(Operation)
    PROVE  /\ Len(s) \in Nat /\ NoRequest.from <= Len(s) /\ ~NoParser.checked
           /\ NoSn \in Int /\ NoTag <= NoSn /\ NoSn <= Len(s)
BY DEF NoRequest, NoParser, NoSn, NoTag

\* 1..1 is {1}.
LEMMA OneIndex == 1 \in 1..1 /\ \A i \in 1..1 : i = 1
OBVIOUS

-----------------------------------------------------------------------------
\* Every step preserves the invariant.
LEMMA NextInv == Scope /\ Inv /\ [Next]_vars => Inv'
\* A step that leaves the invariant's variables alone preserves it.
<1>StutterInv. Inv /\ UNCHANGED invvars => Inv'
  BY DEF Inv, invvars, Types, Kept, Whole, WholeOp, Fetching, IsFetchNodes, Asking, Reading,
         NoMovesStreamed, Interim
\* A step that appends operations to the log leaves everything said of the old
\* ones true.
<1>GrowInv.
      ASSUME Inv, UNCHANGED <<scsn, pendingsc, parser, streaming, applied, db>>,
             NEW new \in Seq(Operation), ops' = ops \o new
      PROVE  /\ ops' \in Seq(Operation) /\ scsn' <= Len(ops') /\ db.scsn' <= Len(ops')
             /\ Len(ops) <= Len(ops')
             /\ Kept' /\ Asking' /\ Reading' /\ Interim'
  <2> USE <1>GrowInv
  <2>1. /\ ops \in Seq(Operation) /\ scsn \in Int /\ db.scsn \in Int
        /\ scsn <= Len(ops) /\ db.scsn <= Len(ops)
    BY DEF Inv, Types
  <2>2. /\ ops' \in Seq(Operation) /\ Len(ops) <= Len(ops')
        /\ \A i \in 1..Len(ops) : ops'[i] = ops[i]
    BY <2>1, LogGrows
  <2>3. Len(ops) \in Nat /\ Len(ops') \in Nat
    BY <2>1, <2>2
  <2>4. pendingsc \in Request /\ parser \in Position
    BY DEF Inv, Types
  <2>5. pendingsc.from \in Nat /\ pendingsc.upto \in Nat /\ parser.op \in Nat
    BY <2>4 DEF Request, Position
  <2>6. \A k \in 1..Len(ops) : \A a : Whole(k, a) => WholeOp(k, ops'[k].kind, a)
    BY <2>2 DEF Whole
  <2>7. Kept'
    BY <2>1, <2>3, <2>6 DEF Inv, Kept, Whole
  <2>8. Asking' /\ Interim'
    BY <2>2, <2>3, <2>5 DEF Inv, Asking, Interim
  <2>9. Reading'
    <3>1. parser.stage # "idle" => pendingsc.upto <= Len(ops)
      BY DEF Inv, Asking
    <3>2. ASSUME parser.stage = "a", NEW k \in (pendingsc.from + 1)..(parser.op - 1)
          PROVE  WholeOp(k, ops'[k].kind, applied)
      <4>1. Whole(k, applied)
        BY <3>2 DEF Inv, Reading
      <4>2. parser.op <= pendingsc.upto + 1
        BY <3>2 DEF Inv, Reading
      <4>3. k \in 1..Len(ops)
        <5>1. pendingsc.upto <= Len(ops) /\ Len(ops) \in Nat
          BY <3>1, <3>2, <2>3
        <5>2. pendingsc.from \in Nat /\ pendingsc.upto \in Nat /\ parser.op \in Nat
          BY Zenon, <2>5
        <5>3. k \in (pendingsc.from + 1)..(parser.op - 1)
          BY Zenon, <3>2
        <5> QED
          BY Zenon, <4>2, <5>1, <5>2, <5>3, BelowLog
      <4> QED
        BY <4>1, <4>3, <2>2 DEF Whole
    <3>3. ASSUME parser.stage = "sn", NEW k \in (pendingsc.from + 1)..pendingsc.upto
          PROVE  WholeOp(k, ops'[k].kind, applied)
      BY <3>1, <3>3, <2>3, <2>5, <2>6 DEF Inv, Reading
    <3>4. parser.stage = "a" /\ parser.part = 2 => ops'[parser.op] = ops[parser.op]
      BY <3>1, <2>2, <2>3, <2>5 DEF Inv, Reading
    <3> QED
      BY Zenon, <3>2, <3>3, <3>4 DEF Inv, Reading, Whole
  <2> QED
    BY <2>1, <2>2, <2>3, <2>7, <2>8, <2>9
\* An operation of another client only adds to the log.
<1>OtherClientActsInv. Scope /\ Inv /\ OtherClientActs => Inv'
  <2> SUFFICES ASSUME Scope, Inv, OtherClientActs PROVE Inv'
    OBVIOUS
  <2>1. PICK kind \in Kinds, isn \in IsnChoices :
           ops' = Append(ops, [kind |-> kind, isn |-> isn])
    BY DEF OtherClientActs
  <2> DEFINE o == [kind |-> kind, isn |-> isn]
  <2>2. o \in Operation
    BY ScChannelAssumption DEF ScChannelAssumption, Operation
  <2>3. ops \in Seq(Operation) /\ Types
    BY DEF Inv, Types
  <2>4. <<o>> \in Seq(Operation) /\ ops' = ops \o <<o>>
    <3>1. ops' = Append(ops, o)
      BY <2>1
    <3> HIDE DEF o
    <3> QED
      BY <3>1, <2>2, <2>3
  <2>5. UNCHANGED <<scsn, pendingsc, parser, streaming, applied, db, batch, cs, fetch>>
    BY DEF OtherClientActs, reqs, tree, fetchnodes
  <2>6. /\ ops' \in Seq(Operation) /\ scsn' <= Len(ops') /\ db.scsn' <= Len(ops')
        /\ Len(ops) <= Len(ops')
        /\ Kept' /\ Asking' /\ Reading' /\ Interim'
    BY Zenon, <2>4, <2>5, <1>GrowInv
  <2>7. Types'
    BY <2>3, <2>5, <2>6 DEF Types
  <2>8. Fetching'
    BY <2>3, <2>5, <2>6 DEF Inv, Fetching, IsFetchNodes
  <2>9. NoMovesStreamed'
    <3>1. Streaming => kind # "m"
      BY DEF Scope, NoMoves
    <3>2. ASSUME Streaming, NEW i \in 1..Len(ops') PROVE ops'[i].kind # "m"
      <4>1. i \in 1..Len(ops) => ops'[i] = ops[i]
        BY <2>1, <2>3
      <4>2. i \notin 1..Len(ops) => ops'[i] = o
        BY <2>1, <2>3, <3>2
      <4> QED
        BY <3>1, <3>2, <4>1, <4>2 DEF Inv, NoMovesStreamed
    <3> QED
      BY <3>2, <2>5 DEF Inv, NoMovesStreamed
  <2> QED
    BY <2>6, <2>7, <2>8, <2>9 DEF Inv
\* Executing a batch adds to the log and tags the results.
<1>ApiExecutesInv. Scope /\ Inv /\ ApiExecutes => Inv'
  <2> SUFFICES ASSUME Scope, Inv, ApiExecutes PROVE Inv'
    OBVIOUS
  <2>1. /\ ops \in Seq(Operation) /\ batch \in Seq(Command) /\ Types
        /\ batch # <<>> /\ Len(ops) \in Nat
    BY DEF Inv, Types, Fetching, ApiExecutes
  <2>2. /\ UNCHANGED <<scsn, pendingsc, parser, streaming, applied, db, fetch>>
        /\ cs = "sent" /\ cs' = "executed"
    BY DEF ApiExecutes, tree, fetchnodes
  <2>3. 1 \in DOMAIN batch /\ batch[1] \in Command
    BY <2>1
  <2>4. CASE IsFetchNodes
    <3>1. PICK k \in 0..Len(ops) : batch' = [batch EXCEPT ![1].st = k]
      BY <2>1, <2>4 DEF ApiExecutes
    <3>2. ops' = ops
      BY <2>4 DEF ApiExecutes
    <3>3. /\ batch' \in Seq(Command) /\ Len(batch') = Len(batch) /\ batch' # <<>>
          /\ \A i \in 1..Len(batch) : batch'[i].kind = batch[i].kind
          /\ batch'[1].st = k
      BY <2>1, <2>3, <3>1 DEF Command
    <3>4. Types' /\ Kept' /\ Asking' /\ Reading' /\ Interim'
      BY Zenon, <2>1, <2>2, <3>2, <3>3
         DEF Inv, Types, Kept, Whole, Asking, Reading, Interim
    <3>5. Fetching' /\ NoMovesStreamed'
      BY <2>1, <2>2, <2>4, <3>2, <3>3 DEF Inv, Fetching, IsFetchNodes, NoMovesStreamed
    <3> QED
      BY <3>4, <3>5 DEF Inv
  <2>5. CASE ~IsFetchNodes
    <3>1. \A i \in 1..Len(batch) : batch[i].kind \in {"u", "m", "p"}
      BY <2>1, <2>5 DEF Inv, Fetching
    <3>2. /\ \E new \in Seq(Operation) : ops' = ops \o new
          /\ batch' \in Seq(Command) /\ Len(batch') = Len(batch)
          /\ \A i \in 1..Len(batch) : batch'[i].kind = batch[i].kind
          /\ \A i \in 1..Len(ops') : i > Len(ops) =>
                \E j \in 1..Len(batch) : ops'[i].kind = batch[j].kind
      BY Zenon, <2>1, <2>5, <3>1, ApiExecuted
    <3>3. PICK new \in Seq(Operation) : ops' = ops \o new
      BY Zenon, <3>2
    <3>4. /\ ops' \in Seq(Operation) /\ scsn' <= Len(ops') /\ db.scsn' <= Len(ops')
          /\ Len(ops) <= Len(ops')
          /\ Kept' /\ Asking' /\ Reading' /\ Interim'
      BY <2>2, <3>3, <1>GrowInv
    <3>5. batch' # <<>>
      BY <2>1, <3>2
    <3>6. Types'
      BY <2>1, <2>2, <3>2, <3>4 DEF Types
    <3>7. Fetching'
      <4>1. ~IsFetchNodes'
        BY Zenon, <2>5, <3>2, OneIndex DEF IsFetchNodes
      <4>2. \A i \in 1..Len(batch') : batch'[i].kind \in {"u", "m", "p"}
        BY Zenon, <3>1, <3>2
      <4> QED
        BY Zenon, <3>5, <4>1, <4>2 DEF Fetching
    <3>8. NoMovesStreamed'
      <4>1. ASSUME Streaming, NEW i \in 1..Len(ops') PROVE ops'[i].kind # "m"
        <5>1. \A j \in 1..Len(batch) : batch[j].kind # "m"
          BY <2>1, <4>1 DEF Inv, NoMovesStreamed
        <5>2. CASE i <= Len(ops)
          <6>1. i \in 1..Len(ops) /\ ops'[i] = ops[i]
            BY <2>1, <3>3, <5>2, LogGrows
          <6> QED
            BY <4>1, <6>1 DEF Inv, NoMovesStreamed
        <5>3. CASE i > Len(ops)
          BY Zenon, <3>2, <5>1, <5>3
        <5> QED
          BY <2>1, <5>2, <5>3
      <4> QED
        BY Zenon, <2>1, <3>2, <4>1 DEF Inv, NoMovesStreamed
    <3> QED
      BY <3>4, <3>6, <3>7, <3>8 DEF Inv
  <2> QED
    BY <2>4, <2>5
\* What is asked of the commands in flight holds when there are none.
<1>NoBatch.
      ASSUME NoMovesStreamed, ops' = ops, batch' = <<>>, cs' = "idle"
      PROVE  Fetching' /\ NoMovesStreamed'
  <2> USE <1>NoBatch
  <2>1. Len(batch') = 0 /\ \A i \in 1..Len(batch') : FALSE
    OBVIOUS
  <2>2. ~IsFetchNodes'
    BY <2>1 DEF IsFetchNodes
  <2>3. Fetching'
    BY <2>1, <2>2 DEF Fetching
  <2>4. NoMovesStreamed'
    BY <2>1 DEF NoMovesStreamed
  <2> QED
    BY <2>3, <2>4
\* A step of the cs side that leaves the sc side alone and brings no new commands.
<1>CsSideInv.
      ASSUME Inv, UNCHANGED <<ops, scsn, pendingsc, parser, streaming, applied, db>>,
             fetch' \in {"none", "cached", "nocache"},
             \/ batch' = <<>> /\ cs' = "idle"
             \/ batch' = batch /\ cs' = cs
             \/ batch' = batch /\ batch # <<>> /\ ~IsFetchNodes
             \/ batch' = batch /\ batch # <<>> /\ cs' \notin {"executed", "processing"}
      PROVE  Inv'
  <2> USE <1>CsSideInv
  <2>1. Types' /\ Kept' /\ Asking' /\ Reading' /\ Interim'
    <3>1. batch' \in Seq(Command)
      <4>1. <<>> \in Seq(Command)
        OBVIOUS
      <4>2. batch \in Seq(Command)
        BY DEF Inv, Types
      <4>3. batch' = <<>> \/ batch' = batch
        OBVIOUS
      <4> QED
        BY Zenon, <4>1, <4>2, <4>3
    <3>2. Types'
      BY <3>1 DEF Inv, Types
    <3>3. Kept' /\ Asking' /\ Reading' /\ Interim'
      BY Zenon DEF Inv, Kept, Whole, Asking, Reading, Interim
    <3> QED
      BY <3>2, <3>3
  <2>2. CASE batch' = <<>>
    <3>1. CASE cs' = "idle"
      BY Zenon, <2>1, <2>2, <3>1, <1>NoBatch DEF Inv
    <3>2. CASE batch' = batch
      BY Zenon, <2>1, <2>2, <3>2 DEF Inv, Fetching, IsFetchNodes, NoMovesStreamed
    <3> QED
      BY <3>1, <3>2
  <2>3. CASE batch' = batch /\ batch # <<>>
    BY Zenon, <2>1, <2>3 DEF Inv, Fetching, IsFetchNodes, NoMovesStreamed
  <2>4. CASE batch' = batch /\ batch = <<>> /\ cs' = cs
    BY <2>2, <2>4
  <2> QED
    BY <2>2, <2>3, <2>4
\* serverrequest(): a new batch contains no fetchnodes.
<1>SendBatchInv. Scope /\ Inv /\ SendBatch => Inv'
  <2> SUFFICES ASSUME Scope, Inv, SendBatch PROVE Inv'
    OBVIOUS
  <2>1. UNCHANGED <<ops, scsn, pendingsc, parser, streaming, applied, db, fetch>>
    BY DEF SendBatch, server, tree, fetchnodes
  <2>2. PICK b \in Batches : batch' = [i \in DOMAIN b |-> [kind |-> b[i], st |-> NoTag]]
    BY DEF SendBatch
  <2>3. b \in Seq({"u", "m", "p"}) /\ b # <<>>
    BY ScChannelAssumption DEF ScChannelAssumption
  <2>4. /\ batch' \in Seq(Command) /\ batch' # <<>> /\ Len(batch') = Len(b)
        /\ \A i \in 1..Len(b) : batch'[i].kind = b[i] /\ b[i] \in {"u", "m", "p"}
        /\ 1 \in 1..Len(b)
    <3>1. /\ Len(b) \in Nat /\ DOMAIN b = 1..Len(b) /\ 1 \in 1..Len(b)
          /\ \A i \in 1..Len(b) : b[i] \in {"u", "m", "p"}
      BY <2>3
    <3>2. \A i \in 1..Len(b) : [kind |-> b[i], st |-> NoTag] \in Command
      BY <3>1 DEF Command, NoTag
    <3>3. batch' \in Seq(Command) /\ Len(batch') = Len(b)
      BY <2>2, <3>1, <3>2
    <3>4. \A i \in 1..Len(b) : batch'[i].kind = b[i]
      BY Zenon, <2>2, <3>1
    <3> QED
      BY <3>1, <3>3, <3>4
  <2>5. Types' /\ Kept' /\ Asking' /\ Reading' /\ Interim'
    BY Zenon, <2>1, <2>4 DEF Inv, Types, Kept, Whole, Asking, Reading, Interim
  <2>6. Fetching'
    BY <2>1, <2>4 DEF Fetching, IsFetchNodes
  <2>7. NoMovesStreamed'
    <3>1. Streaming => \A i \in 1..Len(b) : b[i] # "m"
      BY <2>3 DEF Scope, NoMoves
    <3> QED
      BY <2>1, <2>4, <3>1 DEF Inv, NoMovesStreamed
  <2> QED
    BY <2>5, <2>6, <2>7 DEF Inv
\* clearStreamingParser() commits the tree with the scsn it belongs to, or nothing.
<1>ClearStreamingParserKeeps.
      ASSUME Inv, ClearStreamingParser
      PROVE  /\ streaming' = NoStreaming
             /\ db.scsn' \in Int /\ NoSn <= db.scsn' /\ db.scsn' <= Len(ops)
             /\ \A k \in 1..db.scsn' : Whole(k, db.applied')
  BY <1>ClearStreamingParserKeeps DEF Inv, Types, Kept, ClearStreamingParser, PurgeAndCommit
\* A step after which nodes are being fetched and there is no sc request.
<1>FetchStepInv.
      ASSUME Inv, ops' = ops, pendingsc' = NoRequest, parser' = NoParser, scsn' = NoSn,
             fetch' \in {"none", "cached", "nocache"},
             streaming' \in ParserFlags, streaming'.mInterimSn = NoSn,
             db.scsn' \in Int, NoSn <= db.scsn', db.scsn' <= Len(ops),
             \A k \in 1..db.scsn' : Whole(k, db.applied'),
             batch' \in Seq(Command), Len(batch') = 1, batch' # <<>>,
             batch'[1].kind \in {"cached", "nocache"},
             cs' \in {"executed", "processing"} => batch'[1].st \in 0..Len(ops)
      PROVE  Inv'
  <2> USE <1>FetchStepInv
  <2>1. ops \in Seq(Operation)
    BY Zenon DEF Inv, Types
  <2>2. scsn' \in Int /\ NoSn <= scsn' /\ scsn' <= Len(ops) /\ 1..scsn' = {}
    BY <2>1 DEF NoSn
  <2>3. Types' /\ Kept'
    BY ZenonT(30), <2>2, NothingTypes DEF Inv, Types, Kept, Whole
  <2>4. Fetching'
    BY NothingTypes DEF Fetching, IsFetchNodes
  <2>5. NoMovesStreamed'
    <3>1. \A i \in 1..1 : i = 1
      BY OneIndex
    <3>2. batch'[1].kind # "m"
      OBVIOUS
    <3>3. NoMovesStreamed
      BY DEF Inv
    <3> QED
      BY <3>1, <3>2, <3>3 DEF NoMovesStreamed
  <2>6. Asking' /\ Reading' /\ Interim'
    BY Zenon, NothingTypes DEF Inv, Asking, Reading, Interim
  <2> QED
    BY Zenon, <2>3, <2>4, <2>5, <2>6 DEF Inv
\* resetScForFetchnodes() commits first and then switches the sc channel off.
<1>SendFetchNodesInv. Inv /\ SendFetchNodes => Inv'
  <2> SUFFICES ASSUME Inv, SendFetchNodes PROVE Inv'
    OBVIOUS
  <2>1. /\ fetch \in {"cached", "nocache"} /\ fetch' = "none" /\ cs' = "sent"
        /\ ops' = ops /\ ops \in Seq(Operation)
        /\ pendingsc' = NoRequest /\ parser' = NoParser /\ scsn' = NoSn
    BY DEF Inv, Types, SendFetchNodes, server
  <2>2. /\ streaming' = NoStreaming
        /\ db.scsn' \in Int /\ NoSn <= db.scsn' /\ db.scsn' <= Len(ops)
        /\ \A k \in 1..db.scsn' : Whole(k, db.applied')
    BY <1>ClearStreamingParserKeeps DEF SendFetchNodes
  <2>3. batch' = <<[kind |-> fetch, st |-> NoTag]>>
    BY DEF SendFetchNodes
  <2>4. [kind |-> fetch, st |-> NoTag] \in Command
    BY <2>1 DEF Command, NoTag
  <2>5. /\ batch' \in Seq(Command) /\ Len(batch') = 1 /\ batch' # <<>>
        /\ batch'[1].kind = fetch
    BY <2>3, <2>4
  <2> QED
    BY <2>1, <2>2, <2>5, NothingTypes, <1>FetchStepInv
\* The first chunk of fetchnodes empties tree and state cache together.
<1>FetchNodesBeginsInv. Inv /\ FetchNodesBegins => Inv'
  <2> SUFFICES ASSUME Inv, FetchNodesBegins PROVE Inv'
    OBVIOUS
  <2>1. /\ UNCHANGED <<ops, batch, fetch, streaming>>
        /\ cs = "executed" /\ cs' = "processing" /\ IsFetchNodes
        /\ pendingsc' = NoRequest /\ parser' = NoParser
        /\ scsn' = NoSn /\ db' = [scsn |-> NoSn, applied |-> {}, seqTag |-> NoTag]
    BY ZenonT(30) DEF FetchNodesBegins, server, fetchnodes
  <2>2. /\ ops \in Seq(Operation) /\ batch \in Seq(Command) /\ batch # <<>>
        /\ streaming \in ParserFlags /\ streaming.mInterimSn = NoSn
        /\ batch[1].st \in 0..Len(ops)
        /\ fetch \in {"none", "cached", "nocache"}
    BY Zenon, <2>1 DEF Inv, Types, Fetching
  <2>3. db.scsn' \in Int /\ NoSn <= db.scsn' /\ db.scsn' <= Len(ops) /\ 1..db.scsn' = {}
    BY <2>1, <2>2 DEF NoSn
  <2>4. Len(batch') = 1 /\ batch'[1].kind \in {"cached", "nocache"}
    BY Zenon, <2>1 DEF IsFetchNodes
  <2> QED
    BY ZenonT(30), <2>1, <2>2, <2>3, <2>4, <1>FetchStepInv
\* The last chunk of fetchnodes brings a tree that is complete up to its scsn.
<1>FetchNodesEndsInv. Inv /\ FetchNodesEnds => Inv'
  <2> SUFFICES ASSUME Inv, FetchNodesEnds PROVE Inv'
    OBVIOUS
  <2> DEFINE k == batch[1].st
  <2>1. /\ UNCHANGED <<ops, fetch, streaming, pendingsc, parser>>
        /\ cs = "processing" /\ cs' = "idle" /\ IsFetchNodes /\ batch' = <<>>
        /\ scsn' = k /\ applied' = PacketsUpTo(k)
        /\ db' = [scsn |-> k, applied |-> PacketsUpTo(k), seqTag |-> k]
    BY DEF FetchNodesEnds, server, fetchnodes
  <2>2. /\ ops \in Seq(Operation) /\ k \in 0..Len(ops) /\ Len(ops) \in Nat /\ NoSn <= k
        /\ streaming.mInterimSn = NoSn /\ pendingsc.status = "none" /\ parser.stage = "idle"
    <3>1. Types /\ Fetching /\ Asking
      BY Zenon DEF Inv
    <3>2. streaming.mInterimSn = NoSn /\ pendingsc.status = "none" /\ k \in 0..Len(ops)
      BY <2>1, <3>1 DEF Fetching
    <3>3. parser.stage = "idle"
      BY <3>1, <3>2 DEF Asking
    <3>4. ops \in Seq(Operation) /\ Len(ops) \in Nat
      BY <3>1 DEF Types
    <3>5. NoSn <= k
      BY <3>2, <3>4 DEF NoSn
    <3> QED
      BY <3>2, <3>3, <3>4, <3>5
  <2> HIDE DEF k
  <2>3. \A j \in 1..k : Whole(j, PacketsUpTo(k))
    <3>1. k \in Int /\ PacketsUpTo(k) \subseteq PacketsUpTo(k)
      BY <2>2
    <3> QED
      BY <3>1, UpToWhole
  <2>4. Types'
    BY <2>1, <2>2 DEF Inv, Types
  <2>5. Kept'
    BY <2>1, <2>3 DEF Kept, Whole
  <2>6. Fetching' /\ NoMovesStreamed'
    BY ZenonT(30), <2>1, <1>NoBatch DEF Inv
  <2>7. Asking' /\ Reading' /\ Interim'
    BY <2>1, <2>2 DEF Asking, Reading, Interim
  <2> QED
    BY Zenon, <2>4, <2>5, <2>6, <2>7 DEF Inv
\* A refused batch stays as it is.
<1>ApiRefusesInv. Inv /\ ApiRefuses => Inv'
  <2> SUFFICES ASSUME Inv, ApiRefuses PROVE Inv'
    OBVIOUS
  <2>1. /\ UNCHANGED <<ops, batch, fetch, scsn, pendingsc, parser, streaming, applied, db>>
        /\ cs \in {"sent", "refused"} /\ cs' \in {"sent", "refused"}
    BY DEF ApiRefuses, server, fetchnodes, tree
  <2>2. batch # <<>> /\ fetch' \in {"none", "cached", "nocache"}
    BY <2>1 DEF Inv, Fetching, Types
  <2> QED
    BY <2>1, <2>2, <1>CsSideInv
\* Handing out results leaves the sc side alone.
<1>CsResponseInv. Inv /\ CsResponse => Inv'
  <2> SUFFICES ASSUME Inv, CsResponse PROVE Inv'
    OBVIOUS
  <2>1. /\ UNCHANGED <<ops, fetch, scsn, pendingsc, parser, streaming, applied, db>>
        /\ Process /\ cs = "executed" /\ ~IsFetchNodes
    BY DEF CsResponse, server, fetchnodes, tree
  <2>2. batch # <<>> /\ fetch' \in {"none", "cached", "nocache"}
    BY <2>1 DEF Inv, Fetching, Types
  <2> QED
    BY <2>1, <2>2, ProcessBatch, <1>CsSideInv
\* An sc request asks from scsn, where the tree is complete.
<1>ScRequestInv. Inv /\ ScRequest => Inv'
  <2> SUFFICES ASSUME Inv, ScRequest PROVE Inv'
    OBVIOUS
  <2>1. /\ UNCHANGED <<ops, batch, cs, fetch, scsn, parser, streaming, applied, db>>
        /\ pendingsc.status = "none" /\ scsn # NoSn
        /\ pendingsc' = [NoRequest EXCEPT !.status = "sent", !.from = scsn]
    BY DEF ScRequest, ScsnReady, server, reqs, fetchnodes, tree
  <2>2. scsn \in Nat /\ parser.stage = "idle" /\ streaming.mInterimSn = NoSn
    BY <2>1 DEF Inv, Types, Asking, Interim, NoSn
  <2>3. /\ pendingsc' \in Request /\ pendingsc'.status = "sent" /\ pendingsc'.from = scsn
    BY Zenon, <2>1, <2>2 DEF Request, NoRequest
  <2>4. Types' /\ Kept'
    BY <2>1, <2>3 DEF Inv, Types, Kept, Whole
  <2>5. Asking' /\ Reading' /\ Interim' /\ NoMovesStreamed'
    BY <2>1, <2>2, <2>3 DEF Inv, Asking, Reading, Interim, NoMovesStreamed
  <2>6. Fetching'
    BY <2>1 DEF Inv, Fetching, IsFetchNodes
  <2> QED
    BY <2>4, <2>5, <2>6 DEF Inv
\* An answer extends from where it was asked to within the log.
<1>ApiAnswersInv.
      ASSUME Inv, NEW upto \in pendingsc.from..Len(ops), NEW ir \in BOOLEAN,
             ApiAnswers(upto, ir)
      PROVE  Inv'
  <2> USE <1>ApiAnswersInv
  <2>1. /\ UNCHANGED <<ops, batch, cs, fetch, scsn, parser, streaming, applied, db>>
        /\ pendingsc.status = "sent"
        /\ pendingsc' = [pendingsc EXCEPT !.status = "answered", !.upto = upto, !.ir = ir]
    BY DEF ApiAnswers, server, reqs, fetchnodes, tree
  <2>2. /\ pendingsc \in Request /\ ops \in Seq(Operation) /\ parser.stage = "idle"
    BY <2>1 DEF Inv, Types, Asking
  <2>3. pendingsc.from \in Nat /\ Len(ops) \in Nat
    BY <2>2 DEF Request
  <2>4. upto \in Nat /\ pendingsc.from <= upto /\ upto <= Len(ops)
    BY <2>3
  <2>5. /\ pendingsc' \in Request /\ pendingsc'.status = "answered"
        /\ pendingsc'.from = pendingsc.from /\ pendingsc'.upto = upto
    BY Zenon, <2>1, <2>2, <2>4 DEF Request
  <2>6. Types' /\ Kept'
    BY <2>1, <2>5 DEF Inv, Types, Kept, Whole
  <2>7. Asking' /\ Reading' /\ Interim' /\ NoMovesStreamed'
    BY <2>1, <2>2, <2>4, <2>5 DEF Inv, Asking, Reading, Interim, NoMovesStreamed
  <2>8. Fetching'
    BY <2>1 DEF Inv, Fetching, IsFetchNodes
  <2> QED
    BY <2>6, <2>7, <2>8 DEF Inv
\* API_ETOOMANY: without scsn there is nothing to skip.
<1>ApiTooManyInv. Inv /\ ApiTooMany => Inv'
  <2> SUFFICES ASSUME Inv, ApiTooMany PROVE Inv'
    OBVIOUS
  <2>1. /\ UNCHANGED <<ops, batch, cs, parser, streaming, applied, db>>
        /\ pendingsc.status = "sent" /\ pendingsc' = NoRequest
        /\ fetch' = "nocache" /\ scsn' = NoSn
    BY DEF ApiTooMany, server, reqs, tree
  <2>2. parser.stage = "idle" /\ streaming.mInterimSn = NoSn
    BY <2>1 DEF Inv, Asking, Interim
  <2>3. scsn' \in Int /\ NoSn <= scsn' /\ scsn' <= Len(ops) /\ 1..scsn' = {}
    BY <2>1 DEF NoSn, Inv, Types
  <2>4. Types' /\ Kept'
    BY Zenon, <2>1, <2>3, NothingTypes DEF Inv, Types, Kept, Whole
  <2>5. Asking' /\ Reading' /\ Interim' /\ NoMovesStreamed'
    BY ZenonT(30), <2>1, <2>2, NothingTypes DEF Inv, Asking, Reading, Interim, NoMovesStreamed
  <2>6. Fetching'
    BY <2>1 DEF Inv, Fetching, IsFetchNodes
  <2> QED
    BY <2>4, <2>5, <2>6 DEF Inv
\* A cut answer commits scsn with the tree it belongs to, or nothing.
<1>ScFailsInv. Inv /\ ScFails => Inv'
  <2> SUFFICES ASSUME Inv, ScFails PROVE Inv'
    OBVIOUS
  <2>1. /\ UNCHANGED <<ops, batch, cs, fetch, scsn, applied>>
        /\ pendingsc.status # "none" /\ pendingsc' = NoRequest /\ parser' = NoParser
    BY DEF ScFails, server, reqs, fetchnodes
  <2>2. /\ streaming' = NoStreaming
        /\ db.scsn' \in Int /\ NoSn <= db.scsn' /\ db.scsn' <= Len(ops)
        /\ \A k \in 1..db.scsn' : Whole(k, db.applied')
    BY Zenon, <1>ClearStreamingParserKeeps DEF ScFails
  <2>3. Types' /\ Kept'
    BY Zenon, <2>1, <2>2, NothingTypes DEF Inv, Types, Kept, Whole
  <2>4. Asking' /\ Reading' /\ Interim' /\ NoMovesStreamed'
    BY Zenon, <2>1, <2>2, NothingTypes DEF Inv, Asking, Reading, Interim, NoMovesStreamed
  <2>5. Fetching'
    BY Zenon, <2>1, <2>2, NothingTypes DEF Inv, Fetching, IsFetchNodes
  <2> QED
    BY <2>3, <2>4, <2>5 DEF Inv
\* The parser starts right after the packets the tree contains.
<1>ScStartInv. Inv /\ ScStart => Inv'
  <2> SUFFICES ASSUME Inv, ScStart PROVE Inv'
    OBVIOUS
  <2>1. /\ UNCHANGED <<ops, batch, cs, fetch, scsn, pendingsc, streaming, applied, db>>
        /\ pendingsc.status = "answered" /\ parser.stage = "idle"
        /\ parser' = [NoParser EXCEPT !.stage = "a", !.op = pendingsc.from + 1]
    BY DEF ScStart, server, reqs, fetchnodes, tree
  <2>2. pendingsc \in Request /\ Types
    BY DEF Inv, Types
  <2>3. /\ pendingsc.from \in Nat /\ pendingsc.upto \in Nat /\ pendingsc.from <= pendingsc.upto
        /\ scsn \in Int
    BY ZenonT(30), <2>1, <2>2 DEF Request, Inv, Asking, Types
  <2>4. /\ parser' \in Position /\ parser'.stage = "a" /\ parser'.op = pendingsc.from + 1
        /\ parser'.part = 1
    <3>1. parser' = [stage |-> "a", op |-> pendingsc.from + 1, part |-> 1, checked |-> FALSE]
      BY ZenonT(30), <2>1 DEF NoParser
    <3>2. pendingsc.from + 1 \in Nat
      BY <2>3
    <3> QED
      BY <3>1, <3>2 DEF Position
  <2>5. Types' /\ Kept'
    BY <2>1, <2>4 DEF Inv, Types, Kept, Whole
  <2>6. streaming.mInterimSn = NoSn
    BY <2>1 DEF Inv, Interim
  <2>7. Asking' /\ Interim' /\ NoMovesStreamed'
    BY <2>1, <2>4, <2>6 DEF Inv, Asking, Interim, NoMovesStreamed
  <2>8. Fetching'
    BY <2>1 DEF Inv, Fetching, IsFetchNodes
  <2>9. scsn < pendingsc.from + 1
    BY <2>1, <2>3 DEF Inv, Asking
  <2>10. Reading'
    BY <2>1, <2>3, <2>4, <2>9 DEF Inv, Reading
  <2> QED
    BY <2>5, <2>7, <2>8, <2>10 DEF Inv
\* A step within an answer that moves the parser, and may hand out results.
<1>ParserStepInv.
      ASSUME Inv, parser.stage \in {"a", "sn", "eoo"},
             UNCHANGED <<ops, fetch, scsn, pendingsc, applied, db>>,
             streaming' \in ParserFlags, streaming'.mInterimSn = streaming.mInterimSn,
             UNCHANGED <<batch, cs>> \/ Process,
             parser' \in Position, parser'.stage # "idle",
             parser.stage = "eoo" => parser'.stage = "eoo",
             Reading', Interim'
      PROVE  Inv'
  <2> USE <1>ParserStepInv
  <2>1. pendingsc.status = "answered"
    BY Zenon DEF Inv, Asking
  <2>2. ~IsFetchNodes
    BY Zenon, <2>1 DEF Inv, Fetching
  <2>3. \/ UNCHANGED <<batch, cs>>
        \/ cs' = "idle" /\ batch' = <<>>
        \/ cs' = "processing" /\ batch' = batch
    BY ProcessBatch
  <2>4. batch \in Seq(Command) /\ <<>> \in Seq(Command) /\ Len(<<>>) = 0 /\ 1..0 = {}
    BY DEF Inv, Types
  <2>5. batch' \in Seq(Command)
    BY ZenonT(30), <2>3, <2>4
  <2>6. Types' /\ Kept'
    BY <2>5 DEF Inv, Types, Kept, Whole
  <2>7. Asking'
    BY Zenon, <2>1 DEF Inv, Asking
  <2>8. CASE batch' = <<>> /\ cs' = "idle"
    <3>1. Len(batch') = 0
      BY Zenon, <2>4, <2>8
    <3>2. Fetching' /\ NoMovesStreamed'
      BY <2>4, <2>8, <3>1 DEF Inv, Fetching, IsFetchNodes, NoMovesStreamed
    <3> QED
      BY Zenon, <2>6, <2>7, <3>2 DEF Inv
  <2>9. CASE batch' = batch /\ cs' \in {cs, "processing"}
    <3>1. Fetching' /\ NoMovesStreamed'
      BY Zenon, <2>2, <2>9 DEF Inv, Fetching, IsFetchNodes, NoMovesStreamed
    <3> QED
      BY <2>6, <2>7, <3>1 DEF Inv
  <2> QED
    BY <2>3, <2>8, <2>9
\* Checking a packet's tag does not move the parser.
<1>CheckPacketInv. Inv /\ CheckPacket => Inv'
  <2> SUFFICES ASSUME Inv, CheckPacket PROVE Inv'
    OBVIOUS
  <2>1. /\ UNCHANGED <<ops, fetch, scsn, pendingsc, streaming, applied, db>>
        /\ parser.stage = "a"
        /\ UNCHANGED <<batch, cs>> \/ Process
    BY DEF CheckPacket, AtPacket, CheckSequenceTag, server, reqs, fetchnodes, tree
  <2>2. parser \in Position /\ streaming \in ParserFlags
    BY DEF Inv, Types
  <2>3. PICK b \in BOOLEAN : parser' = [parser EXCEPT !.checked = b]
    <3>1. MayProceed(St(parser.op, parser.part)) \in BOOLEAN
      BY DEF MayProceed
    <3> QED
      BY <3>1 DEF CheckPacket
  <2>4. /\ parser' \in Position /\ parser'.stage = parser.stage /\ parser'.op = parser.op
        /\ parser'.part = parser.part
    BY Zenon, <2>2, <2>3 DEF Position
  <2>5. Reading' /\ Interim'
    BY <2>1, <2>4 DEF Inv, Reading, Interim, Whole
  <2> QED
    BY <2>1, <2>2, <2>4, <2>5, <1>ParserStepInv
\* At the end of the array all packets of the answer are applied.
<1>ArrayEndsInv. Inv /\ ArrayEnds => Inv'
  <2> SUFFICES ASSUME Inv, ArrayEnds PROVE Inv'
    OBVIOUS
  <2>1. /\ UNCHANGED <<ops, fetch, scsn, pendingsc, streaming, applied, db>>
        /\ parser.stage = "a" /\ parser.op > pendingsc.upto
        /\ UNCHANGED <<batch, cs>> \/ Process
        /\ parser' = [parser EXCEPT !.stage = "sn"]
    BY DEF ArrayEnds, CheckSequenceTag, server, reqs, fetchnodes, tree
  <2>2. /\ parser \in Position /\ streaming \in ParserFlags /\ pendingsc \in Request
    BY DEF Inv, Types
  <2>3. parser' \in Position /\ parser'.stage = "sn"
    BY <2>1, <2>2 DEF Position
  <2>4. parser.op \in Nat /\ pendingsc.upto \in Nat /\ pendingsc.from \in Nat
    BY <2>2 DEF Position, Request
  <2>5. parser.op = pendingsc.upto + 1 /\ parser.part # 2
    BY <2>1, <2>4 DEF Inv, Reading
  <2>6. parser.op - 1 = pendingsc.upto
    BY <2>4, <2>5
  <2>7. Reading' /\ Interim'
    BY Zenon, <2>1, <2>3, <2>5, <2>6 DEF Inv, Reading, Interim, Whole
  <2> QED
    BY <2>1, <2>2, <2>3, <2>7, <1>ParserStepInv
\* An interim commit writes scsn with the tree it belongs to.
<1>CommitInterimInv. Inv /\ CommitInterim => Inv'
  <2> SUFFICES ASSUME Inv, CommitInterim PROVE Inv'
    OBVIOUS
  <2>1. /\ UNCHANGED <<ops, batch, cs, fetch, scsn, pendingsc, parser, applied>>
        /\ streaming' = [streaming EXCEPT !.mNeedToPurge = FALSE]
        /\ db' = [scsn |-> scsn, applied |-> applied, seqTag |-> seqTag]
    BY DEF CommitInterim, PurgeAndCommit, server, reqs, fetchnodes
  <2>2. streaming \in ParserFlags
    BY DEF Inv, Types
  <2>3. streaming' \in ParserFlags /\ streaming'.mInterimSn = streaming.mInterimSn
    BY Zenon, <2>1, <2>2 DEF ParserFlags
  <2>4. Types' /\ Kept'
    BY <2>1, <2>3 DEF Inv, Types, Kept, Whole
  <2>5. Asking' /\ Reading' /\ Interim' /\ NoMovesStreamed' /\ Fetching'
    BY <2>1, <2>3 DEF Inv, Asking, Reading, Interim, NoMovesStreamed, Fetching, IsFetchNodes,
                      Whole
  <2> QED
    BY <2>4, <2>5 DEF Inv
\* sc_storeSn() moves scsn over packets that are all applied.
<1>StoreSnInv. Inv /\ StoreSn => Inv'
  <2> SUFFICES ASSUME Inv, StoreSn PROVE Inv'
    OBVIOUS
  <2>1. /\ UNCHANGED <<ops, batch, cs, fetch, pendingsc, applied>>
        /\ parser.stage = "sn" /\ parser' = [parser EXCEPT !.stage = "eoo"]
        /\ scsn' = pendingsc.upto
        /\ streaming' = [streaming EXCEPT !.mNeedToPurge = FALSE]
        /\ db' = [scsn |-> pendingsc.upto, applied |-> applied, seqTag |-> seqTag]
    BY DEF StoreSn, PurgeAndCommit, server, reqs, fetchnodes
  <2>2. /\ streaming \in ParserFlags /\ parser \in Position /\ pendingsc \in Request
        /\ pendingsc.status = "answered" /\ streaming.mInterimSn = NoSn
        /\ ops \in Seq(Operation) /\ scsn \in Int
    BY <2>1 DEF Inv, Types, Asking, Interim
  <2>3. streaming' \in ParserFlags /\ streaming'.mInterimSn = NoSn
    BY Zenon, <2>1, <2>2 DEF ParserFlags
  <2>4. parser' \in Position /\ parser'.stage = "eoo"
    BY <2>1, <2>2 DEF Position
  <2>5. /\ pendingsc.from \in Nat /\ pendingsc.upto \in Nat /\ Len(ops) \in Nat
        /\ pendingsc.from <= scsn /\ pendingsc.upto <= Len(ops)
        /\ pendingsc.from <= pendingsc.upto
    BY <2>2 DEF Inv, Asking, Request
  <2>6. \A k \in 1..pendingsc.upto : Whole(k, applied)
    <3> SUFFICES ASSUME NEW k \in 1..pendingsc.upto PROVE Whole(k, applied)
      OBVIOUS
    <3>1. k \in 1..scsn \/ k \in (pendingsc.from + 1)..pendingsc.upto
      BY <2>2, <2>5
    <3> QED
      BY <2>1, <3>1 DEF Inv, Kept, Reading
  <2>7. Types' /\ Kept'
    BY <2>1, <2>3, <2>4, <2>5, <2>6 DEF Inv, Types, Kept, Whole, NoSn
  <2>8. Asking' /\ Reading' /\ Interim' /\ NoMovesStreamed'
    BY Zenon, <2>1, <2>2, <2>3, <2>4, <2>5 DEF Inv, Asking, Reading, Interim, NoMovesStreamed
  <2>9. Fetching'
    BY Zenon, <2>1, <2>2 DEF Inv, Fetching, IsFetchNodes
  <2> QED
    BY <2>7, <2>8, <2>9 DEF Inv
\* sc_procEoo() forgets the answer.
<1>ProcEooInv. Inv /\ ProcEoo => Inv'
  <2> SUFFICES ASSUME Inv, ProcEoo PROVE Inv'
    OBVIOUS
  <2>1. /\ UNCHANGED <<ops, batch, cs, fetch, scsn, applied, db>>
        /\ pendingsc' = NoRequest /\ parser' = NoParser /\ streaming' = NoStreaming
    BY Zenon DEF ProcEoo, server, reqs, tree
  <2>2. Types' /\ Kept'
    BY Zenon, <2>1, NothingTypes DEF Inv, Types, Kept, Whole
  <2>3. Asking' /\ Reading' /\ Interim' /\ NoMovesStreamed' /\ Fetching'
    BY Zenon, <2>1, NothingTypes
       DEF Inv, Asking, Reading, Interim, NoMovesStreamed, Fetching, IsFetchNodes
  <2> QED
    BY <2>2, <2>3 DEF Inv
\* A restart takes scsn and tree from the same commit.
<1>RestartInv. Inv /\ Restart => Inv'
  <2> SUFFICES ASSUME Inv, Restart PROVE Inv'
    OBVIOUS
  <2>1. /\ UNCHANGED <<ops, db>>
        /\ batch' = <<>> /\ cs' = "idle" /\ fetch' \in {"none", "cached", "nocache"}
        /\ scsn' = db.scsn /\ applied' = db.applied
        /\ pendingsc' = NoRequest /\ parser' = NoParser /\ streaming' = NoStreaming
    BY DEF Restart, server
  <2>2. <<>> \in Seq(Command) /\ Len(<<>>) = 0 /\ 1..0 = {}
    OBVIOUS
  <2>3. Types'
    BY <2>1, <2>2, NothingTypes DEF Inv, Types
  <2>4. Kept'
    BY Zenon, <2>1 DEF Inv, Kept, Whole
  <2>5. Asking' /\ Reading' /\ Interim'
    BY Zenon, <2>1, NothingTypes DEF Inv, Asking, Reading, Interim
  <2>7. Fetching' /\ NoMovesStreamed'
    BY <2>1, <1>NoBatch DEF Inv
  <2> QED
    BY Zenon, <2>3, <2>4, <2>5, <2>7 DEF Inv
\* Applying a packet closes no gap unread, and stores an isn only with its operation.
<1>ApplyPacketInv. Scope /\ Inv /\ ApplyPacket => Inv'
  <2> SUFFICES ASSUME Scope, Inv, ApplyPacket PROVE Inv'
    OBVIOUS
  <2> DEFINE k == parser.op
             p == parser.part
             kind == ops[k].kind
             deleted == kind = "m" /\ p = 1 /\ NodeFound(k)
             merged == ~(kind = "s" /\ p = 1)
             isn == IF p = 1 /\ ops[k].isn THEN k ELSE streaming.mInterimSn
             store == Streaming /\ isn # NoSn /\ IsnCanBeProcessed(deleted, merged)
  <2>1. /\ parser.stage = "a" /\ k <= pendingsc.upto
        /\ UNCHANGED <<ops, batch, cs, fetch, pendingsc, db>>
    BY DEF ApplyPacket, AtPacket, server, reqs, fetchnodes
  <2>2. /\ applied' = TreeAfter(k, p)
        /\ streaming' = [mInterimSn |-> IF store \/ ~Streaming THEN NoSn ELSE isn,
                         mNeedToPurge |-> streaming.mNeedToPurge \/ store,
                         mLastAPDeletedNode |-> deleted,
                         mIsNewSharesMerged |-> merged]
        /\ scsn' = IF store THEN isn ELSE scsn
        /\ parser' = IF p < Parts(kind)
                     THEN [parser EXCEPT !.part = p + 1, !.checked = FALSE]
                     ELSE [parser EXCEPT !.op = k + 1, !.part = 1, !.checked = FALSE]
    BY DEF ApplyPacket
  <2>3. /\ ops \in Seq(Operation) /\ parser \in Position /\ pendingsc \in Request
        /\ streaming \in ParserFlags /\ scsn \in Int /\ NoSn <= scsn /\ scsn <= Len(ops)
    BY DEF Inv, Types
  <2>4. /\ k \in Nat /\ p \in {1, 2} /\ pendingsc.from \in Nat /\ pendingsc.upto \in Nat
        /\ streaming.mInterimSn \in Int /\ streaming.mNeedToPurge \in BOOLEAN
        /\ Len(ops) \in Nat
    BY <2>3 DEF Position, Request, ParserFlags
  <2>5. /\ pendingsc.status = "answered" /\ pendingsc.upto <= Len(ops)
        /\ pendingsc.from <= scsn /\ pendingsc.from < k /\ scsn < k
    BY <2>1 DEF Inv, Asking, Reading
  <2>6. k \in 1..Len(ops) /\ ops[k] \in Operation
    BY <2>1, <2>3, <2>4, <2>5
  <2>7. Parts(kind) \in {1, 2} /\ (p = 2 => Parts(kind) = 2 /\ <<k, 1>> \in applied)
    BY <2>1, PartsType DEF Inv, Reading
  <2>8. <<k, p>> \in applied' /\ (p = 2 => <<k, 1>> \in applied')
    BY <2>2, <2>4, <2>7 DEF TreeAfter
  <2>9. \A j \in 1..(k - 1) : Whole(j, applied')
    <3> SUFFICES ASSUME NEW j \in 1..(k - 1), NEW q \in 1..Parts(ops[j].kind)
                 PROVE  <<j, q>> \in applied'
      BY DEF Whole, WholeOp
    <3>1. j \in 1..scsn \/ j \in (pendingsc.from + 1)..(k - 1)
      BY <2>3, <2>4, <2>5
    <3>2. <<j, q>> \in applied
      BY Zenon, <2>1, <3>1 DEF Inv, Kept, Reading, Whole, WholeOp
    <3>3. <<j, q>> # <<k, 2>>
      BY <2>4
    <3> QED
      BY <2>2, <3>2, <3>3 DEF TreeAfter
  <2>10. p = Parts(kind) => Whole(k, applied')
    BY <2>4, <2>7, <2>8 DEF Whole, WholeOp
  <2>11. store => isn = k /\ p = Parts(kind)
    <3>1. isn # NoSn => isn = k
      BY Zenon, <2>1 DEF Inv, Interim
    <3>2. Streaming => kind # "m"
      BY Zenon, <2>6 DEF Inv, NoMovesStreamed
    <3>3. store => ~(kind = "s" /\ p = 1)
      BY Zenon DEF IsnCanBeProcessed
    <3> QED
      BY ZenonT(30), <2>4, <2>7, <3>1, <3>2, <3>3 DEF Parts
  <2>12. isn \in Int /\ store \in BOOLEAN /\ deleted \in BOOLEAN /\ merged \in BOOLEAN
    <3>1. isn \in Int
      BY <2>4
    <3>2. deleted \in BOOLEAN /\ merged \in BOOLEAN
      OBVIOUS
    <3>3. store \in BOOLEAN
      OBVIOUS
    <3> QED
      BY Zenon, <3>1, <3>2, <3>3
  <2>13. /\ isn # NoSn => isn = k
         /\ Streaming /\ p = Parts(kind) /\ isn # NoSn => store
    <3>1. Streaming => kind # "m"
      BY Zenon, <2>6 DEF Inv, NoMovesStreamed
    <3>2. isn # NoSn => isn = k
      BY Zenon DEF Inv, Interim
    <3>3. kind # "m" => ~deleted
      OBVIOUS
    <3>4. p = Parts(kind) => merged
      BY DEF Parts
    <3>5. Streaming /\ isn # NoSn /\ ~deleted /\ merged => store
      BY Zenon DEF IsnCanBeProcessed
    <3> HIDE DEF store, isn, deleted, merged
    <3> QED
      BY Zenon, <3>1, <3>2, <3>3, <3>4, <3>5
  <2> HIDE DEF store, isn, deleted, merged
  <2>14. /\ streaming' \in ParserFlags
         /\ streaming'.mInterimSn = IF store \/ ~Streaming THEN NoSn ELSE isn
    BY <2>2, <2>4, <2>12 DEF ParserFlags, NoSn
  <2>15. /\ scsn' \in Int /\ NoSn <= scsn' /\ scsn' <= k /\ (scsn' = k => p = Parts(kind))
         /\ scsn <= scsn' /\ (~Streaming => scsn' = scsn)
    <3>1. CASE store
      BY <2>2, <2>3, <2>4, <2>5, <2>11, <3>1 DEF NoSn, store
    <3>2. CASE ~store
      BY <2>2, <2>3, <2>4, <2>5, <3>2
    <3> QED
      BY <3>1, <3>2
  <2>16. Kept'
    <3>1. ASSUME NEW j \in 1..scsn' PROVE Whole(j, applied')
      <4>1. j \in 1..(k - 1) \/ (j = k /\ p = Parts(kind))
        BY <2>4, <2>15
      <4> QED
        BY Zenon, <4>1, <2>9, <2>10
    <3> QED
      BY Zenon, <2>1, <3>1 DEF Inv, Kept, Whole
  <2>17. CASE p < Parts(kind)
    <3>1. p = 1 /\ Parts(kind) = 2 /\ ~store
      BY <2>4, <2>7, <2>11, <2>17
    <3>2. parser' = [parser EXCEPT !.part = 2, !.checked = FALSE] /\ scsn' = scsn
      BY <2>2, <2>17, <3>1
    <3>3. /\ parser' \in Position /\ parser'.stage = "a" /\ parser'.op = k
          /\ parser'.part = 2
      BY Zenon, <2>1, <2>3, <3>2 DEF Position
    <3>4. Types'
      BY <2>1, <2>14, <3>2, <3>3 DEF Inv, Types
    <3>5. \A j \in (pendingsc.from + 1)..(k - 1) : Whole(j, applied')
      BY <2>4, <2>9
    <3>6. Reading'
      BY <2>1, <2>4, <2>5, <2>8, <3>1, <3>2, <3>3, <3>5 DEF Inv, Reading, Whole
    <3>7. Asking' /\ Interim' /\ NoMovesStreamed'
      BY Zenon, <2>1, <2>5, <2>13, <2>14, <3>2, <3>3 DEF Inv, Asking, Interim, NoMovesStreamed
    <3>8. Fetching'
      BY Zenon, <2>1, <2>5 DEF Inv, Fetching, IsFetchNodes
    <3> QED
      BY Zenon, <2>16, <3>4, <3>6, <3>7, <3>8 DEF Inv
  <2>18. CASE ~(p < Parts(kind))
    <3>1. p = Parts(kind)
      BY <2>4, <2>7, <2>18
    <3>2. parser' = [parser EXCEPT !.op = k + 1, !.part = 1, !.checked = FALSE]
      BY <2>2, <2>18
    <3>3. /\ parser' \in Position /\ parser'.stage = "a" /\ parser'.op = k + 1
          /\ parser'.part = 1
      <4>1. k + 1 \in Nat
        BY <2>4
      <4> QED
        BY Zenon, <2>1, <2>3, <3>2, <4>1 DEF Position
    <3>4. Types'
      <4>1. scsn' \in Int /\ NoSn <= scsn' /\ scsn' <= Len(ops)
        BY <2>1, <2>4, <2>5, <2>15
      <4>2. Types
        BY DEF Inv
      <4> QED
        BY <2>1, <2>14, <3>3, <4>1, <4>2 DEF Types
    <3>5. \A j \in (pendingsc.from + 1)..k : Whole(j, applied')
      <4>1. \A j \in (pendingsc.from + 1)..k : j \in 1..(k - 1) \/ j = k
        BY <2>4
      <4> QED
        BY <4>1, <2>9, <2>10, <3>1
    <3>6. Reading'
      <4>1. /\ pendingsc.from < k + 1 /\ k + 1 <= pendingsc.upto + 1
            /\ scsn' < k + 1 /\ (k + 1) - 1 = k
        BY <2>1, <2>4, <2>5, <2>15
      <4>2. \A j \in (pendingsc.from + 1)..((k + 1) - 1) : Whole(j, applied')
        BY Zenon, <3>5, <4>1
      <4> QED
        BY <2>1, <3>3, <4>1, <4>2 DEF Reading, Whole
    <3>7. streaming'.mInterimSn = NoSn
      BY Zenon, <2>13, <2>14, <3>1
    <3>8. Asking' /\ Interim' /\ NoMovesStreamed'
      <4>1. pendingsc.from <= scsn'
        BY <2>3, <2>4, <2>5, <2>15
      <4>2. Asking'
        <5>1. Asking
          BY DEF Inv
        <5> QED
          BY Zenon, <2>1, <2>5, <2>15, <3>3, <4>1, <5>1 DEF Asking
      <4>3. Interim'
        BY Zenon, <3>7 DEF Interim
      <4>4. NoMovesStreamed'
        BY <2>1 DEF Inv, NoMovesStreamed
      <4> QED
        BY <4>2, <4>3, <4>4
    <3>9. Fetching'
      BY Zenon, <2>1, <2>5 DEF Inv, Fetching, IsFetchNodes
    <3> QED
      BY <2>16, <3>4, <3>6, <3>8, <3>9 DEF Inv
  <2> QED
    BY <2>17, <2>18
<1> SUFFICES ASSUME Scope, Inv, [Next]_vars PROVE Inv'
  OBVIOUS
<1>1. CASE NotifyPurge \/ FetchNodes \/ UNCHANGED vars
  <2>1. CASE NotifyPurge \/ UNCHANGED vars
    <3>1. UNCHANGED invvars
      BY Zenon, <2>1 DEF NotifyPurge, vars, invvars, server, reqs, fetchnodes, tree
    <3> QED
      BY Zenon, <3>1, <1>StutterInv
  <2>2. CASE FetchNodes
    <3>1. /\ UNCHANGED <<ops, batch, cs, scsn, pendingsc, parser, streaming, applied, db>>
          /\ fetch' = "cached"
      BY <2>2 DEF FetchNodes, server, reqs, tree
    <3> QED
      BY <3>1, <1>CsSideInv
  <2> QED
    BY <1>1, <2>1, <2>2
<1>2. CASE \E upto \in pendingsc.from..Len(ops), ir \in BOOLEAN : ApiAnswers(upto, ir)
  BY <1>2, <1>ApiAnswersInv
<1>3. CASE ScRead
  BY <1>3, <1>ScStartInv, <1>CheckPacketInv, <1>ApplyPacketInv, <1>ArrayEndsInv, <1>StoreSnInv, <1>ProcEooInv
     DEF ScRead
<1> QED
  BY <1>1, <1>2, <1>3, <1>OtherClientActsInv, <1>SendBatchInv, <1>SendFetchNodesInv, <1>ApiExecutesInv,
     <1>ApiRefusesInv, <1>CsResponseInv, <1>FetchNodesBeginsInv, <1>FetchNodesEndsInv, <1>ScRequestInv,
     <1>ApiTooManyInv, <1>ScFailsInv, <1>CommitInterimInv, <1>RestartInv DEF Next

\* scsn never gets ahead of the tree, in memory or in the state cache: whatever is
\* cut, repeated or crashes, no action packet is skipped by procsc(), nor by
\* ScStreamingParser when nobody moves a node.
THEOREM NoPacketSkipped ==
    ASSUME Scope
    PROVE  Spec => []NothingSkipped
<1>1. Init => Inv
  BY InitInv
<1>2. Inv /\ [Next]_vars => Inv'
  BY NextInv
<1>3. Inv => NothingSkipped
  BY Zenon, KeptNothingSkipped DEF Inv
<1> QED
  BY <1>1, <1>2, <1>3, PTL DEF Spec

-----------------------------------------------------------------------------
(* No result is left behind.  A tag is only seen while a result waits for  *)
(* it, so that the end of the packets hands the result out.                *)

SeenWaits ==
    /\ DOMAIN parser = {"stage", "op", "part", "checked"}
    /\ mCurrentSeqtagSeen \in BOOLEAN
    /\ mCurrentSeqtagSeen => mCurrentSeqtag # NoTag
    /\ NoResultLeftBehind

\* Every step preserves SeenWaits.
LEMMA NextSeenWaits == SeenWaits /\ [Next]_vars => SeenWaits'
\* sc_checkSequenceTag() leaves a tag seen only if a result waits for it, and none
\* at the end of the packets.
<1>CheckSequenceTagSeen.
      ASSUME NEW tag, CheckSequenceTag(tag),
             mCurrentSeqtagSeen \in BOOLEAN, mCurrentSeqtagSeen => mCurrentSeqtag # NoTag
      PROVE  /\ mCurrentSeqtagSeen' \in BOOLEAN
             /\ mCurrentSeqtagSeen' => mCurrentSeqtag' # NoTag
             /\ tag = NoTag => ~mCurrentSeqtagSeen'
  <2> USE <1>CheckSequenceTagSeen
  <2>1. CASE Exhausted(tag)
    BY Zenon, <2>1 DEF CheckSequenceTag, Process
  <2>2. CASE ~Exhausted(tag)
    BY Zenon, <2>2 DEF CheckSequenceTag, Exhausted
  <2> QED
    BY <2>1, <2>2
<1> SUFFICES ASSUME SeenWaits, [Next]_vars PROVE SeenWaits'
  OBVIOUS
<1> USE DEF SeenWaits, NoResultLeftBehind
<1>1. CASE UNCHANGED <<tags, parser>>
  BY <1>1 DEF tags
<1>2. CASE CsResponse \/ FetchNodesBegins \/ Restart
  BY Zenon, <1>2 DEF CsResponse, FetchNodesBegins, Restart, NoParser
<1>3. CASE UNCHANGED tags /\ parser' = NoParser
  BY Zenon, <1>3 DEF tags, NoParser
<1>4. CASE ScStart
  <2>1. parser' = [stage |-> "a", op |-> pendingsc.from + 1, part |-> 1, checked |-> FALSE]
    BY Zenon, <1>4 DEF ScStart, NoParser
  <2> QED
    BY <1>4, <2>1 DEF ScStart, tags
<1>5. CASE CheckPacket
  <2>1. parser.stage = "a" /\ \E b : parser' = [parser EXCEPT !.checked = b]
    BY ZenonT(30), <1>5 DEF CheckPacket, AtPacket
  <2>2. DOMAIN parser' = DOMAIN parser /\ parser'.stage = "a"
    BY <2>1
  <2>3. UNCHANGED tags \/ CheckSequenceTag(St(parser.op, parser.part))
    BY <1>5 DEF CheckPacket
  <2> QED
    BY <2>2, <2>3, <1>CheckSequenceTagSeen DEF tags
<1>6. CASE ApplyPacket
  <2>1. UNCHANGED tags /\ parser.stage = "a"
    BY <1>6 DEF ApplyPacket, AtPacket
  <2>2. \/ \E x, b : parser' = [parser EXCEPT !.part = x, !.checked = b]
        \/ \E x, y, b : parser' = [parser EXCEPT !.op = x, !.part = y, !.checked = b]
    BY ZenonT(30), <1>6 DEF ApplyPacket
  <2>3. DOMAIN parser' = DOMAIN parser /\ parser'.stage = "a"
    BY Zenon, <2>1, <2>2
  <2> QED
    BY <2>1, <2>3 DEF tags
<1>7. CASE ArrayEnds
  <2>1. parser' = [parser EXCEPT !.stage = "sn"] /\ CheckSequenceTag(NoTag)
    BY <1>7 DEF ArrayEnds
  <2>2. DOMAIN parser' = DOMAIN parser
    BY <2>1
  <2> QED
    BY <2>1, <2>2, <1>CheckSequenceTagSeen
<1>8. CASE StoreSn
  <2>1. parser' = [parser EXCEPT !.stage = "eoo"] /\ UNCHANGED tags /\ parser.stage = "sn"
    BY <1>8 DEF StoreSn
  <2>2. DOMAIN parser' = DOMAIN parser
    BY <2>1
  <2> QED
    BY <2>1, <2>2 DEF tags
<1>9. CASE SendFetchNodes \/ ScFails \/ ProcEoo
  <2>1. UNCHANGED tags /\ parser' = NoParser
    BY Zenon, <1>9 DEF SendFetchNodes, ScFails, ProcEoo
  <2> QED
    BY Zenon, <1>3, <2>1
<1>10. CASE \E upto \in pendingsc.from..Len(ops), ir \in BOOLEAN : ApiAnswers(upto, ir)
  BY <1>1, <1>10 DEF ApiAnswers
<1>11. CASE \/ OtherClientActs \/ NotifyPurge \/ SendBatch \/ ApiExecutes \/ ApiRefuses
            \/ FetchNodesEnds \/ FetchNodes \/ ScRequest \/ ApiTooMany \/ CommitInterim
            \/ UNCHANGED vars
  <2>1. UNCHANGED <<tags, parser>>
    BY Zenon, <1>11 DEF OtherClientActs, NotifyPurge, SendBatch, ApiExecutes, ApiRefuses,
         FetchNodesEnds, FetchNodes, ScRequest, ApiTooMany, CommitInterim, vars
  <2> QED
    BY Zenon, <1>1, <2>1
<1> QED
  BY Zenon, <1>2, <1>4, <1>5, <1>6, <1>7, <1>8, <1>9, <1>10, <1>11 DEF Next, ScRead

\* assert(!mCurrentSeqtagSeen) in sc_storeSn() holds: when scsn moves to the end of
\* an answer, every result whose tag the answer contained has been handed out.
THEOREM NoResultIsLeftBehind == Spec => []NoResultLeftBehind
<1>1. Init => SeenWaits
  BY Zenon DEF Init, SeenWaits, NoResultLeftBehind, NoParser
<1>2. SeenWaits => NoResultLeftBehind
  BY DEF SeenWaits
<1> QED
  BY <1>1, <1>2, NextSeenWaits, PTL DEF Spec

-----------------------------------------------------------------------------
(* The types of all variables.  They are those of TypeOK; what makes them  *)
(* inductive is where the parser may stand in an answer, and that no       *)
(* result waits while nodes are fetched.                                   *)

\* A tag or a sequence number: none, or one of the log.
OfLog(x) == x \in Int /\ NoTag <= x /\ x <= Len(ops)

\* The commands in flight.
CsTypes ==
    /\ batch \in Seq(Command)
    /\ cs \in {"idle", "sent", "executed", "refused", "processing"}
    /\ cs = "idle" <=> batch = <<>>
    /\ processindex \in Int /\ 1 <= processindex /\ processindex <= Len(batch) + 1
    /\ \A i \in 1..Len(batch) : OfLog(batch[i].st)
    /\ IsFetchNodes /\ cs \in {"executed", "processing"} => 0 <= batch[1].st
    /\ ~IsFetchNodes => \A i \in 1..Len(batch) : batch[i].kind \in {"u", "m", "p"}
    /\ fetch \in {"none", "cached", "nocache"}

\* The sc request, and where the parser stands in its answer.
ScTypes ==
    /\ pendingsc \in Request /\ parser \in Position /\ streaming \in ParserFlags
    /\ pendingsc.from <= Len(ops)
    /\ pendingsc.status = "answered" =>
          pendingsc.from <= pendingsc.upto /\ pendingsc.upto <= Len(ops)
    /\ pendingsc.status # "answered" => parser.stage = "idle"
    /\ parser.stage = "a" =>
          /\ 1 <= parser.op /\ parser.op <= pendingsc.upto + 1
          /\ parser.part = 2 => /\ parser.op <= pendingsc.upto
                                /\ Parts(ops[parser.op].kind) = 2
    /\ parser.checked => parser.stage = "a" /\ parser.op <= pendingsc.upto
    /\ OfLog(streaming.mInterimSn)

\* Sequence numbers and tags, in memory and in the state cache.
TagTypes ==
    /\ OfLog(scsn) /\ OfLog(mCurrentSeqtag) /\ OfLog(mLastReceivedScSeqTag)
    /\ OfLog(mLargestEverSeenScSeqTag) /\ OfLog(seqTag) /\ OfLog(reported)

DbTypes == OfLog(db.scsn) /\ OfLog(db.seqTag)

Flags ==
    /\ fetchingnodes \in BOOLEAN /\ stopsc \in BOOLEAN /\ running \in BOOLEAN
    /\ mCurrentSeqtagSeen \in BOOLEAN /\ actionpacketsCurrent \in BOOLEAN

\* Only packets of the log get into a tree.
Known(a) == \A x \in a : \E k \in 1..Len(ops) : \E p \in 1..Parts(ops[k].kind) : x = <<k, p>>

\* The trees.
Trees == Known(applied) /\ Known(db.applied) /\ purged \subseteq HalfMoved(applied)

\* While nodes are being fetched there is no sc channel, and no result waits.
Idle ==
    /\ mCurrentSeqtag # NoTag => cs = "processing"
    /\ IsFetchNodes => scsn = NoSn /\ pendingsc.status = "none" /\ mCurrentSeqtag = NoTag

\* TypeOK, and what it needs.
Bounds ==
    /\ ops \in Seq(Operation)
    /\ CsTypes /\ ScTypes /\ TagTypes /\ DbTypes /\ Flags /\ Trees /\ Idle

\* Known(): the packets of the log, as PacketsUpTo() has them.
LEMMA KnownUpTo ==
    ASSUME NEW a
    PROVE  Known(a) <=> a \subseteq PacketsUpTo(Len(ops))
<1>1. ASSUME Known(a), NEW x \in a PROVE x \in PacketsUpTo(Len(ops))
  <2>1. PICK k \in 1..Len(ops) : \E p \in 1..Parts(ops[k].kind) : x = <<k, p>>
    BY <1>1 DEF Known
  <2>2. x \in Packets(k)
    BY <2>1 DEF Packets
  <2> QED
    BY <2>2 DEF PacketsUpTo
<1>2. ASSUME a \subseteq PacketsUpTo(Len(ops)), NEW x \in a
      PROVE  \E k \in 1..Len(ops) : \E p \in 1..Parts(ops[k].kind) : x = <<k, p>>
  <2>1. PICK k \in 1..Len(ops) : x \in Packets(k)
    BY <1>2 DEF PacketsUpTo
  <2>2. PICK p \in 1..Parts(ops[k].kind) : x = <<k, p>>
    BY <2>1 DEF Packets
  <2> QED
    BY <2>2
<1> QED
  BY <1>1, <1>2 DEF Known

\* The conjuncts of Bounds are those of TypeOK, and more.
LEMMA BoundsTypeOK == Bounds => TypeOK
<1> SUFFICES ASSUME Bounds PROVE TypeOK
  OBVIOUS
<1> USE DEF Bounds
<1>1. Len(ops) \in Nat /\ Len(batch) \in Nat
  BY DEF CsTypes
<1>2. \A x : OfLog(x) => x \in {NoTag} \cup 0..Len(ops)
  BY <1>1 DEF OfLog, NoTag
<1>3. {scsn, db.scsn} \subseteq {NoSn} \cup 0..Len(ops)
  BY <1>2 DEF TagTypes, DbTypes, NoTag, NoSn
<1>4. {mCurrentSeqtag, mLastReceivedScSeqTag, mLargestEverSeenScSeqTag, seqTag,
       reported, db.seqTag} \subseteq {NoTag} \cup 0..Len(ops)
  BY <1>2 DEF TagTypes, DbTypes
<1> DEFINE Cmds == [kind : {"u", "m", "p", "cached", "nocache"}, st : Nat \cup {NoTag}]
<1>5. batch \in Seq(Cmds)
  <2>1. ASSUME NEW i \in 1..Len(batch) PROVE batch[i] \in Cmds
    <3>1. batch[i] \in Command /\ batch[i].st \in Nat \cup {NoTag}
      BY <1>1, <1>2 DEF CsTypes
    <3> QED
      BY Zenon, <3>1 DEF Command
  <2>2. batch = [i \in 1..Len(batch) |-> batch[i]]
    BY DEF CsTypes
  <2> HIDE DEF Cmds
  <2> QED
    BY <1>1, <2>1, <2>2
<1>6. {applied, db.applied} \subseteq SUBSET PacketsUpTo(Len(ops))
  BY KnownUpTo DEF Trees
<1>7. {fetchingnodes, stopsc, running, mCurrentSeqtagSeen, actionpacketsCurrent} \subseteq BOOLEAN
  BY Zenon DEF Flags
<1>8. /\ pendingsc.status \in {"none", "sent", "answered"}
      /\ parser.stage \in {"idle", "a", "sn", "eoo"}
      /\ parser.stage # "idle" => pendingsc.status = "answered"
  BY Zenon DEF ScTypes, Request, Position
<1>9. processindex \in 1..(Len(batch) + 1)
  BY <1>1 DEF CsTypes
<1> QED
  BY Zenon, <1>3, <1>4, <1>5, <1>6, <1>7, <1>8, <1>9 DEF TypeOK, CsTypes, Trees, Operation

\* The initial state.
LEMMA InitBounds == Init => Bounds
<1> SUFFICES ASSUME Init PROVE Bounds
  OBVIOUS
<1> USE DEF Init
<1>1. ops \in Seq(Operation) /\ Len(ops) = 0 /\ CsTypes
  BY DEF CsTypes, IsFetchNodes
<1>2. ScTypes
  BY Zenon, <1>1, NothingTypes, NothingBounds DEF ScTypes, OfLog
<1>3. TagTypes /\ DbTypes
  BY <1>1 DEF TagTypes, DbTypes, OfLog, NoTag
<1>4. Flags
  BY ZenonT(30) DEF Flags
<1>5. Trees /\ Idle
  BY <1>1 DEF Trees, Known, Idle, IsFetchNodes
<1> QED
  BY Zenon, <1>1, <1>2, <1>3, <1>4, <1>5 DEF Bounds

\* Request::processSeqTag(): results are handed out in order, up to the first one that
\* has to wait for its tag.
LEMMA StopIndexIs ==
    ASSUME batch \in Seq(Command), processindex \in Int, 1 <= processindex,
           processindex <= Len(batch) + 1
    PROVE  /\ StopIndex \in Int /\ processindex <= StopIndex /\ StopIndex <= Len(batch) + 1
           /\ StopIndex <= Len(batch) =>
                 /\ ScsnReady /\ batch[StopIndex].st # NoTag
                 /\ ~(StopIndex = processindex /\ batch[StopIndex].st = mCurrentSeqtag)
           /\ ScsnReady =>
                 \A j \in processindex..(StopIndex - 1) :
                    batch[j].st = NoTag \/ (j = processindex /\ batch[j].st = mCurrentSeqtag)
\* A set of numbers has a least one.
<1>LeastNatural.
      ASSUME NEW T, T \subseteq Nat, T # {}
      PROVE  \E x \in T : \A y \in T : x <= y
  <2> USE <1>LeastNatural
  <2> DEFINE R == {p \in Nat \X Nat : p[1] < p[2]}
  <2>1. IsWellFoundedOn(R, Nat)
    BY NatLessThanWellFounded DEF OpToRel
  <2>2. \E x \in T : \A y \in T : ~(<<y, x>> \in R)
    <3> HIDE DEF R
    <3> QED
      BY Zenon, <2>1, WFMin
  <2>3. PICK x \in T : \A y \in T : ~(<<y, x>> \in R)
    BY <2>2
  <2>4. \A y \in T : ~(y < x)
    BY Zenon, <2>3
  <2> QED
    BY <2>4
<1> DEFINE waiting == {j \in processindex..Len(batch) :
                         /\ batch[j].st # NoTag
                         /\ ~(j = processindex /\ batch[j].st = mCurrentSeqtag)}
<1>1. Len(batch) \in Nat /\ waiting \subseteq Nat /\ waiting \subseteq processindex..Len(batch)
  OBVIOUS
<1>2. StopIndex = IF ScsnReady /\ waiting # {}
                  THEN CHOOSE i \in waiting : \A j \in waiting : i <= j
                  ELSE Len(batch) + 1
  BY DEF StopIndex
<1>3. CASE ScsnReady /\ waiting # {}
  <2>1. StopIndex \in waiting /\ \A j \in waiting : StopIndex <= j
    <3> HIDE DEF waiting
    <3>1. \E i \in waiting : \A j \in waiting : i <= j
      BY Zenon, <1>1, <1>3, <1>LeastNatural
    <3> QED
      BY <1>2, <1>3, <3>1
  <2>2. /\ StopIndex \in processindex..Len(batch) /\ batch[StopIndex].st # NoTag
        /\ ~(StopIndex = processindex /\ batch[StopIndex].st = mCurrentSeqtag)
    BY <2>1
  <2>3. \A j \in processindex..(StopIndex - 1) : j \notin waiting /\ j \in processindex..Len(batch)
    BY <1>1, <2>1, <2>2
  <2>4. \A j \in processindex..(StopIndex - 1) :
           batch[j].st = NoTag \/ (j = processindex /\ batch[j].st = mCurrentSeqtag)
    BY <2>3
  <2> HIDE DEF waiting
  <2> QED
    BY <1>1, <1>3, <2>2, <2>4
<1>4. CASE ~ScsnReady
  BY <1>1, <1>2, <1>4
<1>5. CASE ScsnReady /\ waiting = {}
  <2>1. StopIndex = Len(batch) + 1
    BY <1>2, <1>5
  <2>2. \A j \in processindex..Len(batch) :
           batch[j].st = NoTag \/ (j = processindex /\ batch[j].st = mCurrentSeqtag)
    BY <1>5
  <2> HIDE DEF waiting
  <2> QED
    BY <1>1, <1>5, <2>1, <2>2
<1> QED
  BY Zenon, <1>3, <1>4, <1>5

\* Where the parser stands after a packet.
LEMMA NextPosition ==
    ASSUME NEW q \in Position, NEW n \in Nat, NEW r \in {1, 2}
    PROVE  /\ [q EXCEPT !.op = n, !.part = r, !.checked = FALSE] \in Position
           /\ [q EXCEPT !.op = n, !.part = r, !.checked = FALSE].op = n
           /\ [q EXCEPT !.op = n, !.part = r, !.checked = FALSE].part = r
           /\ ~[q EXCEPT !.op = n, !.part = r, !.checked = FALSE].checked
           /\ [q EXCEPT !.op = n, !.part = r, !.checked = FALSE].stage = q.stage
           /\ [q EXCEPT !.part = r, !.checked = FALSE] \in Position
           /\ [q EXCEPT !.part = r, !.checked = FALSE].op = q.op
           /\ [q EXCEPT !.part = r, !.checked = FALSE].part = r
           /\ ~[q EXCEPT !.part = r, !.checked = FALSE].checked
           /\ [q EXCEPT !.part = r, !.checked = FALSE].stage = q.stage
BY ZenonT(30) DEF Position

\* Every step keeps Bounds.
LEMMA NextBounds == Bounds /\ [Next]_vars => Bounds'
\* The log grows: what is said of the rest stays true.
<1>GrowBounds.
      ASSUME Bounds, NEW new \in Seq(Operation), ops' = ops \o new,
             UNCHANGED <<scsn, pendingsc, parser, streaming, mCurrentSeqtag, sctags, applied,
                         purged, db>>
      PROVE  /\ ops' \in Seq(Operation) /\ Len(ops) <= Len(ops')
             /\ \A x : OfLog(x) => x \in Int /\ NoTag <= x /\ x <= Len(ops')
             /\ ScTypes' /\ TagTypes' /\ DbTypes' /\ Trees'
  <2> USE <1>GrowBounds
  <2>1. /\ ops' \in Seq(Operation) /\ Len(ops) \in Nat /\ Len(ops') \in Nat
        /\ Len(ops) <= Len(ops') /\ \A i \in 1..Len(ops) : ops'[i] = ops[i]
    BY LogGrows DEF Bounds
  <2>2. \A x : OfLog(x) => x \in Int /\ NoTag <= x /\ x <= Len(ops')
    BY <2>1 DEF OfLog
  <2>3. TagTypes' /\ DbTypes'
    <3>1. TagTypes'
      BY Zenon, <2>2 DEF Bounds, TagTypes, OfLog, sctags
    <3>2. DbTypes'
      BY Zenon, <2>2 DEF Bounds, DbTypes, OfLog
    <3> QED
      BY Zenon, <3>1, <3>2
  <2>4. ScTypes'
    <3>1. ScTypes
      BY Zenon DEF Bounds
    <3>2. /\ pendingsc.from \in Nat /\ pendingsc.upto \in Nat /\ parser.op \in Nat
      BY Zenon, <3>1 DEF ScTypes, Request, Position
    <3>3. parser.stage = "a" /\ parser.part = 2 => ops'[parser.op] = ops[parser.op]
      <4>1. parser.stage = "a" /\ parser.part = 2 =>
                /\ 1 <= parser.op /\ parser.op <= pendingsc.upto
                /\ pendingsc.upto <= Len(ops)
        BY Zenon, <3>1 DEF ScTypes
      <4> QED
        BY Zenon, <2>1, <3>2, <4>1, WithinLog
    <3>4. /\ pendingsc.from <= Len(ops')
          /\ pendingsc.status = "answered" => pendingsc.upto <= Len(ops')
      BY Zenon, <2>1, <3>1, <3>2, WithinLog DEF ScTypes
    <3>5. streaming.mInterimSn \in Int /\ NoTag <= streaming.mInterimSn /\ streaming.mInterimSn <= Len(ops')
      BY Zenon, <2>2, <3>1 DEF ScTypes
    <3> QED
      BY Zenon, <3>1, <3>3, <3>4, <3>5 DEF ScTypes, OfLog
  <2>5. \A a : Known(a) => \A x \in a : \E k \in 1..Len(ops') : \E p \in 1..Parts(ops'[k].kind) : x = <<k, p>>
    BY Zenon, <2>1, WithinLog DEF Known
  <2>6. HalfMoved(applied) \subseteq HalfMoved(applied)'
    BY <2>1 DEF HalfMoved
  <2>7. Trees'
    BY <2>5, <2>6 DEF Bounds, Trees, Known
  <2> QED
    BY Zenon, <2>1, <2>2, <2>3, <2>4, <2>7
\* Steps that leave the variables of a part of Bounds alone.
<1>BoundsFrames.
      /\ CsTypes /\ UNCHANGED <<ops, batch, cs, processindex, fetch>> => CsTypes'
      /\ ScTypes /\ UNCHANGED <<ops, pendingsc, parser, streaming>> => ScTypes'
      /\ TagTypes /\ UNCHANGED <<ops, scsn, mCurrentSeqtag, sctags>> => TagTypes'
      /\ DbTypes /\ UNCHANGED <<ops, db>> => DbTypes'
      /\ Trees /\ UNCHANGED <<ops, applied, purged, db>> => Trees'
  <2>1. CsTypes /\ UNCHANGED <<ops, batch, cs, processindex, fetch>> => CsTypes'
    BY Zenon DEF CsTypes, OfLog, IsFetchNodes
  <2>2. ScTypes /\ UNCHANGED <<ops, pendingsc, parser, streaming>> => ScTypes'
    BY Zenon DEF ScTypes, OfLog
  <2>3. TagTypes /\ UNCHANGED <<ops, scsn, mCurrentSeqtag, sctags>> => TagTypes'
    BY DEF TagTypes, OfLog, sctags
  <2>4. DbTypes /\ UNCHANGED <<ops, db>> => DbTypes'
    BY Zenon DEF DbTypes, OfLog
  <2>5. Trees /\ UNCHANGED <<ops, applied, purged, db>> => Trees'
    BY DEF Trees, Known, HalfMoved
  <2> QED
    BY Zenon, <2>1, <2>2, <2>3, <2>4, <2>5
\* No commands in flight.
<1>NoCommands.
      ASSUME batch' = <<>>, cs' = "idle", processindex' = 1,
             fetch' \in {"none", "cached", "nocache"}
      PROVE  CsTypes'
  <2> USE <1>NoCommands
  <2>1. batch' \in Seq(Command) /\ Len(batch') = 0
    OBVIOUS
  <2>2. ~IsFetchNodes'
    BY <2>1 DEF IsFetchNodes
  <2> QED
    BY <2>1, <2>2 DEF CsTypes
\* No sc request.
<1>NoScRequest.
      ASSUME ops \in Seq(Operation), ops' = ops, pendingsc' = NoRequest, parser' = NoParser,
             streaming' \in ParserFlags, OfLog(streaming'.mInterimSn)
      PROVE  ScTypes'
  BY Zenon, <1>NoScRequest, NothingTypes, NothingBounds DEF ScTypes, OfLog
\* None is of the log.
<1>NoTagOfLog. ops \in Seq(Operation) => OfLog(NoTag) /\ OfLog(NoSn)
  BY DEF OfLog, NoTag, NoSn
\* clearStreamingParser() leaves no more than moves under way behind.
<1>ClearBounds.
      ASSUME Bounds, ClearStreamingParser, UNCHANGED <<ops, applied>>
      PROVE  /\ streaming' \in ParserFlags /\ OfLog(streaming'.mInterimSn)
             /\ DbTypes' /\ Trees'
  <2> USE <1>ClearBounds
  <2>1. streaming' = NoStreaming /\ purged' = HalfMoved(applied)
    BY Zenon DEF ClearStreamingParser, PurgeAndCommit
  <2>2. \/ db' = db
        \/ db' = [scsn |-> scsn, applied |-> applied, seqTag |-> seqTag]
    BY Zenon DEF ClearStreamingParser, PurgeAndCommit
  <2>3. DbTypes'
    BY <2>2 DEF Bounds, DbTypes, TagTypes, OfLog
  <2>4. Known(applied) /\ Known(db'.applied)
    BY <2>2 DEF Bounds, Trees
  <2>5. Trees'
    BY Zenon, <2>1, <2>4 DEF Trees, Known, HalfMoved
  <2>6. streaming' \in ParserFlags /\ OfLog(streaming'.mInterimSn)
    BY <2>1, NothingTypes, <1>NoTagOfLog DEF Bounds
  <2> QED
    BY Zenon, <2>3, <2>5, <2>6
\* Request::process() keeps the commands, or leaves none.
<1>ProcessBounds.
      ASSUME Bounds, Process, UNCHANGED <<ops, fetch>>, ~IsFetchNodes, batch # <<>>
      PROVE  CsTypes' /\ OfLog(mCurrentSeqtag')
  <2> USE <1>ProcessBounds
  <2>1. CsTypes /\ ops \in Seq(Operation)
    BY Zenon DEF Bounds
  <2>2. /\ batch \in Seq(Command) /\ processindex \in Int /\ 1 <= processindex
        /\ processindex <= Len(batch) + 1 /\ Len(batch) \in Nat
    BY <2>1 DEF CsTypes
  <2>3. /\ StopIndex \in Int /\ processindex <= StopIndex /\ StopIndex <= Len(batch) + 1
    BY <2>2, StopIndexIs
  <2>4. CsTypes'
    <3>1. CASE StopIndex <= Len(batch)
      <4>1. cs' = "processing" /\ processindex' = StopIndex /\ batch' = batch
        BY Zenon, <3>1 DEF Process
      <4>2. ~IsFetchNodes'
        BY Zenon, <4>1 DEF IsFetchNodes
      <4> QED
        BY <2>1, <2>2, <2>3, <4>1, <4>2 DEF CsTypes, OfLog
    <3>2. CASE ~(StopIndex <= Len(batch))
      <4>1. cs' = "idle" /\ processindex' = 1 /\ batch' = <<>>
        BY Zenon, <3>2 DEF Process
      <4> QED
        BY Zenon, <2>1, <4>1, <1>NoCommands DEF CsTypes
    <3> QED
      BY Zenon, <3>1, <3>2
  <2>5. OfLog(mCurrentSeqtag')
    <3>1. mCurrentSeqtag' = NextSeqtag
      BY DEF Process
    <3>2. StopIndex <= Len(batch) => StopIndex \in 1..Len(batch)
      BY <2>2, <2>3
    <3> QED
      BY Zenon, <2>1, <3>1, <3>2, <1>NoTagOfLog DEF NextSeqtag, CsTypes
  <2> QED
    BY <2>4, <2>5
\* A result that waits keeps its batch.
<1>ProcessIdle. Process /\ ~IsFetchNodes => Idle'
  <2> SUFFICES ASSUME Process, ~IsFetchNodes PROVE Idle'
    OBVIOUS
  <2>1. CASE StopIndex <= Len(batch)
    <3>1. cs' = "processing" /\ batch' = batch
      BY <2>1 DEF Process
    <3> QED
      BY <3>1 DEF Idle, IsFetchNodes
  <2>2. CASE ~(StopIndex <= Len(batch))
    <3>1. batch' = <<>> /\ mCurrentSeqtag' = NoTag
      BY <2>2 DEF Process, NextSeqtag
    <3>2. Len(batch') = 0
      BY Zenon, <3>1
    <3> QED
      BY <3>1, <3>2 DEF Idle, IsFetchNodes
  <2> QED
    BY <2>1, <2>2
\* A tag is the index of its operation.
<1>StOfLog.
      ASSUME ops \in Seq(Operation), NEW k \in 1..Len(ops), NEW p
      PROVE  OfLog(St(k, p)) /\ St(k, p) \in {NoTag, k}
  BY <1>StOfLog, <1>NoTagOfLog DEF St, OfLog, NoTag
\* sc_checkSequenceTag() with a tag of the log.
<1>CheckSequenceTagBounds.
      ASSUME Bounds, NEW tag, OfLog(tag), CheckSequenceTag(tag), UNCHANGED <<ops, fetch, scsn>>,
             ~IsFetchNodes
      PROVE  CsTypes' /\ TagTypes' /\ Idle' /\ mCurrentSeqtagSeen' \in BOOLEAN
  <2> USE <1>CheckSequenceTagBounds
  <2>1. CsTypes /\ TagTypes /\ ops \in Seq(Operation)
    BY DEF Bounds
  <2>2. CsTypes' /\ OfLog(mCurrentSeqtag')
    <3>1. CASE Exhausted(tag)
      <4>1. Process /\ batch # <<>>
        BY ZenonT(30), <2>1, <3>1 DEF CheckSequenceTag, Exhausted, Bounds, Idle, CsTypes
      <4> QED
        BY Zenon, <4>1, <1>ProcessBounds
    <3>2. CASE ~Exhausted(tag)
      <4>1. UNCHANGED <<reqs, mCurrentSeqtag>>
        BY <3>2 DEF CheckSequenceTag
      <4>2. OfLog(mCurrentSeqtag)
        BY <2>1 DEF TagTypes
      <4> QED
        BY Zenon, <2>1, <4>1, <4>2, <1>BoundsFrames DEF reqs
    <3> QED
      BY <3>1, <3>2
  <2>3. /\ OfLog(mLastReceivedScSeqTag') /\ OfLog(mLargestEverSeenScSeqTag') /\ OfLog(seqTag')
        /\ OfLog(reported')
    <3>1. OfLog(reported')
      BY Zenon, <2>1 DEF CheckSequenceTag, ReportedAfter, TagTypes
    <3>2. OfLog(mLastReceivedScSeqTag') /\ OfLog(seqTag')
      BY Zenon, <2>1 DEF CheckSequenceTag, TagTypes
    <3>3. OfLog(mLargestEverSeenScSeqTag')
      BY Zenon, <2>1 DEF CheckSequenceTag, TagTypes, Later
    <3> QED
      BY Zenon, <3>1, <3>2, <3>3
  <2>4. TagTypes'
    BY Zenon, <2>1, <2>2, <2>3 DEF TagTypes, OfLog
  <2>5. mCurrentSeqtagSeen' \in BOOLEAN
    <3>1. mCurrentSeqtagSeen \in BOOLEAN
      BY DEF Bounds, Flags
    <3> QED
      BY Zenon, <3>1 DEF CheckSequenceTag
  <2>6. Idle'
    <3>1. CASE Exhausted(tag)
      BY <3>1, <1>ProcessIdle DEF CheckSequenceTag
    <3>2. CASE ~Exhausted(tag)
      BY Zenon, <3>2 DEF CheckSequenceTag, reqs, Bounds, Idle, IsFetchNodes
    <3> QED
      BY <3>1, <3>2
  <2> QED
    BY <2>2, <2>4, <2>5, <2>6
\* Another client's operation.
<1>OtherClientActsBounds. Bounds /\ OtherClientActs => Bounds'
  <2> SUFFICES ASSUME Bounds, OtherClientActs PROVE Bounds'
    OBVIOUS
  <2>1. PICK kind \in Kinds, isn \in IsnChoices :
           ops' = Append(ops, [kind |-> kind, isn |-> isn])
    BY Zenon DEF OtherClientActs
  <2> DEFINE o == [kind |-> kind, isn |-> isn]
  <2>2. o \in Operation
    BY ScChannelAssumption DEF ScChannelAssumption, Operation
  <2>3. ops \in Seq(Operation)
    BY DEF Bounds
  <2>4. <<o>> \in Seq(Operation) /\ ops' = ops \o <<o>>
    <3>1. ops' = Append(ops, o)
      BY Zenon, <2>1
    <3> HIDE DEF o
    <3> QED
      BY <3>1, <2>2, <2>3
  <2>5. UNCHANGED <<scsn, pendingsc, parser, streaming, mCurrentSeqtag, sctags, applied, purged,
                    db, batch, cs, processindex, fetch, fetchingnodes, stopsc, running,
                    mCurrentSeqtagSeen, actionpacketsCurrent>>
    BY Zenon DEF OtherClientActs, reqs, tree, fetchnodes, tags
  <2> HIDE DEF o
  <2>6. /\ ops' \in Seq(Operation) /\ Len(ops) <= Len(ops')
        /\ \A x : OfLog(x) => x \in Int /\ NoTag <= x /\ x <= Len(ops')
        /\ ScTypes' /\ TagTypes' /\ DbTypes' /\ Trees'
    BY Zenon, <2>4, <2>5, <1>GrowBounds
  <2>7. CsTypes'
    BY ZenonT(30), <2>5, <2>6 DEF Bounds, CsTypes, IsFetchNodes, OfLog
  <2>8. Flags' /\ Idle'
    BY Zenon, <2>5 DEF Bounds, Flags, Idle, IsFetchNodes
  <2> QED
    BY Zenon, <2>6, <2>7, <2>8 DEF Bounds
\* The API executes a batch.
<1>ApiExecutesBounds. Bounds /\ ApiExecutes => Bounds'
  <2> SUFFICES ASSUME Bounds, ApiExecutes PROVE Bounds'
    OBVIOUS
  <2>1. /\ UNCHANGED <<scsn, pendingsc, parser, streaming, mCurrentSeqtag, sctags, applied,
                       purged, db, processindex, fetch, fetchingnodes, stopsc, running,
                       mCurrentSeqtagSeen, actionpacketsCurrent>>
        /\ cs = "sent" /\ cs' = "executed"
    BY Zenon DEF ApiExecutes, tree, fetchnodes, tags
  <2>2. /\ ops \in Seq(Operation) /\ Len(ops) \in Nat /\ CsTypes /\ batch \in Seq(Command)
        /\ batch # <<>> /\ Idle
    BY <2>1 DEF Bounds, CsTypes
  <2>3. CASE IsFetchNodes
    <3>1. PICK k \in 0..Len(ops) : batch' = [batch EXCEPT ![1].st = k]
      BY <2>2, <2>3 DEF ApiExecutes
    <3>2. ops' = ops
      BY <2>3 DEF ApiExecutes
    <3>3. 1 \in DOMAIN batch /\ batch[1] \in Command
      BY <2>2
    <3>4. /\ batch' \in Seq(Command) /\ Len(batch') = Len(batch) /\ batch' # <<>>
          /\ batch'[1].kind = batch[1].kind /\ batch'[1].st = k /\ Len(batch) = 1
      BY <2>2, <2>3, <3>1, <3>3 DEF Command, IsFetchNodes
    <3>5. IsFetchNodes'
      BY Zenon, <2>3, <3>4 DEF IsFetchNodes
    <3>6. \A i \in 1..Len(batch') : i = 1
      BY <3>4, OneIndex
    <3>7. k \in Int /\ NoTag <= k /\ k <= Len(ops) /\ 0 <= k
      BY <2>2 DEF NoTag
    <3>8. CsTypes'
      BY ZenonT(30), <2>1, <2>2, <3>2, <3>4, <3>5, <3>6, <3>7 DEF CsTypes, OfLog
    <3>9. ScTypes' /\ TagTypes' /\ DbTypes' /\ Trees'
      BY Zenon, <2>1, <3>2, <1>BoundsFrames DEF Bounds
    <3>10. Flags' /\ Idle'
      BY Zenon, <2>1, <2>3 DEF Bounds, Flags, Idle
    <3> QED
      BY <2>2, <3>2, <3>8, <3>9, <3>10 DEF Bounds
  <2>4. CASE ~IsFetchNodes
    <3>1. \A i \in 1..Len(batch) : batch[i].kind \in {"u", "m", "p"}
      BY Zenon, <2>2, <2>4 DEF CsTypes
    <3>2. /\ \E new \in Seq(Operation) : ops' = ops \o new
          /\ batch' \in Seq(Command) /\ Len(batch') = Len(batch)
          /\ \A i \in 1..Len(batch) :
                /\ batch'[i].kind = batch[i].kind
                /\ batch[i].kind = "p" => batch'[i].st = batch[i].st
                /\ batch[i].kind # "p" =>
                      Len(ops) < batch'[i].st /\ batch'[i].st <= Len(ops')
      BY ZenonT(30), <2>2, <2>4, <3>1, ApiExecuted
    <3>3. /\ ops' \in Seq(Operation) /\ Len(ops) <= Len(ops')
          /\ \A x : OfLog(x) => x \in Int /\ NoTag <= x /\ x <= Len(ops')
          /\ ScTypes' /\ TagTypes' /\ DbTypes' /\ Trees'
      BY ZenonT(30), <2>1, <3>2, <1>GrowBounds
    <3>4. \A i \in 1..Len(batch) : batch'[i].st \in Int /\ NoTag <= batch'[i].st /\ batch'[i].st <= Len(ops')
      <4> SUFFICES ASSUME NEW i \in 1..Len(batch)
                   PROVE  batch'[i].st \in Int /\ NoTag <= batch'[i].st /\ batch'[i].st <= Len(ops')
        OBVIOUS
      <4>1. batch'[i] \in Command
        BY <3>2
      <4>2. batch'[i].st \in Int
        BY Zenon, <4>1 DEF Command
      <4>3. OfLog(batch[i].st)
        BY Zenon, <2>2 DEF CsTypes
      <4>4. CASE batch[i].kind = "p"
        <5>1. batch'[i].st = batch[i].st
          BY Zenon, <3>2, <4>4
        <5> QED
          BY Zenon, <3>3, <4>3, <5>1
      <4>5. CASE batch[i].kind # "p"
        <5>1. Len(ops) < batch'[i].st /\ batch'[i].st <= Len(ops')
          BY Zenon, <3>2, <4>5
        <5> HIDE DEF OfLog
        <5> QED
          BY <2>2, <4>2, <5>1 DEF NoTag
      <4> QED
        BY Zenon, <4>4, <4>5
    <3>5. ~IsFetchNodes' /\ batch' # <<>> /\ Len(batch) # 0
      <4>1. Len(batch) # 0 /\ Len(batch) \in Nat
        BY <2>2
      <4>2. batch' # <<>>
        BY Zenon, <3>2, <4>1
      <4>3. Len(batch) = 1 => batch'[1].kind = batch[1].kind
        BY <3>2, <4>1
      <4> QED
        BY Zenon, <2>4, <3>2, <4>1, <4>2, <4>3 DEF IsFetchNodes
    <3>6. CsTypes'
      BY ZenonT(30), <2>1, <2>2, <3>1, <3>2, <3>4, <3>5 DEF CsTypes, OfLog
    <3>7. Flags' /\ Idle'
      BY Zenon, <2>1, <2>2, <3>5 DEF Bounds, Flags, Idle
    <3> QED
      BY Zenon, <3>3, <3>6, <3>7 DEF Bounds
  <2> QED
    BY <2>3, <2>4
\* A new batch, or the fetchnodes that has been queued.
<1>SendBatchBounds. Bounds /\ SendBatch => Bounds'
  <2> SUFFICES ASSUME Bounds, SendBatch PROVE Bounds'
    OBVIOUS
  <2>1. /\ UNCHANGED <<ops, scsn, pendingsc, parser, streaming, mCurrentSeqtag, sctags, applied,
                       purged, db, fetch, fetchingnodes, stopsc, running,
                       mCurrentSeqtagSeen, actionpacketsCurrent>>
        /\ cs = "idle" /\ cs' = "sent" /\ processindex' = 1
    BY Zenon DEF SendBatch, server, tree, fetchnodes, tags
  <2>2. PICK b \in Batches : batch' = [i \in DOMAIN b |-> [kind |-> b[i], st |-> NoTag]]
    BY DEF SendBatch
  <2>3. b \in Seq({"u", "m", "p"}) /\ b # <<>>
    BY ScChannelAssumption DEF ScChannelAssumption
  <2>4. /\ Len(b) \in Nat /\ DOMAIN b = 1..Len(b) /\ 1 \in 1..Len(b)
        /\ \A i \in 1..Len(b) : b[i] \in {"u", "m", "p"}
    BY <2>3
  <2>5. \A i \in 1..Len(b) : [kind |-> b[i], st |-> NoTag] \in Command
    BY <2>4 DEF Command, NoTag
  <2>6. batch' \in Seq(Command) /\ Len(batch') = Len(b)
    BY <2>2, <2>4, <2>5
  <2>7. \A i \in 1..Len(b) : batch'[i].kind = b[i] /\ batch'[i].st = NoTag
    BY Zenon, <2>2, <2>4
  <2>8. batch' # <<>> /\ ~IsFetchNodes'
    BY <2>4, <2>6, <2>7 DEF IsFetchNodes
  <2>9. OfLog(NoTag)
    BY Zenon, <1>NoTagOfLog DEF Bounds
  <2>10. CsTypes'
    BY <2>1, <2>4, <2>6, <2>7, <2>8, <2>9 DEF Bounds, CsTypes, OfLog
  <2>11. ScTypes' /\ TagTypes' /\ DbTypes' /\ Trees'
    BY <2>1, <1>BoundsFrames DEF Bounds
  <2>12. Flags' /\ Idle'
    BY Zenon, <2>1, <2>8 DEF Bounds, Flags, Idle
  <2> QED
    BY Zenon, <2>1, <2>10, <2>11, <2>12 DEF Bounds
\* resetScForFetchnodes().
<1>SendFetchNodesBounds. Bounds /\ SendFetchNodes => Bounds'
  <2> SUFFICES ASSUME Bounds, SendFetchNodes PROVE Bounds'
    OBVIOUS
  <2>1. /\ UNCHANGED <<ops, mCurrentSeqtag, sctags, applied, fetchingnodes, running,
                       mCurrentSeqtagSeen, actionpacketsCurrent>>
        /\ cs = "idle" /\ cs' = "sent" /\ processindex' = 1 /\ fetch # "none" /\ fetch' = "none"
        /\ pendingsc' = NoRequest /\ parser' = NoParser /\ scsn' = NoSn /\ stopsc' = FALSE
        /\ batch' = <<[kind |-> fetch, st |-> NoTag]>> /\ ClearStreamingParser
    BY DEF SendFetchNodes, server, fetchnodes, tags
  <2>2. ops \in Seq(Operation) /\ CsTypes /\ Idle /\ Flags /\ TagTypes
    BY Zenon DEF Bounds
  <2>3. [kind |-> fetch, st |-> NoTag] \in Command
    BY <2>1, <2>2 DEF Command, NoTag, CsTypes
  <2>4. /\ batch' \in Seq(Command) /\ Len(batch') = 1 /\ batch' # <<>>
        /\ batch'[1].kind \in {"cached", "nocache"} /\ batch'[1].st = NoTag
    BY <2>1, <2>2, <2>3 DEF CsTypes
  <2>5. IsFetchNodes'
    BY Zenon, <2>4 DEF IsFetchNodes
  <2>6. \A i \in 1..Len(batch') : i = 1
    BY <2>4, OneIndex
  <2>7. OfLog(NoTag) /\ OfLog(NoSn)
    BY Zenon, <2>2, <1>NoTagOfLog
  <2>8. CsTypes'
    BY <2>1, <2>4, <2>5, <2>6, <2>7 DEF CsTypes, OfLog
  <2>9. DbTypes' /\ Trees' /\ ScTypes'
    BY Zenon, <2>1, <2>2, <1>ClearBounds, <1>NoScRequest
  <2>10. TagTypes'
    BY Zenon, <2>1, <2>2, <2>7 DEF TagTypes, OfLog, sctags
  <2>11. Flags'
    BY ZenonT(30), <2>1, <2>2 DEF Flags
  <2>12. Idle'
    BY Zenon, <2>1, <2>2, NothingTypes DEF Idle
  <2> QED
    BY Zenon, <2>1, <2>2, <2>8, <2>9, <2>10, <2>11, <2>12 DEF Bounds
\* A refused batch is sent again.
<1>ApiRefusesBounds. Bounds /\ ApiRefuses => Bounds'
  <2> SUFFICES ASSUME Bounds, ApiRefuses PROVE Bounds'
    OBVIOUS
  <2>1. /\ UNCHANGED <<ops, scsn, pendingsc, parser, streaming, mCurrentSeqtag, sctags, applied,
                       purged, db, batch, processindex, fetch, fetchingnodes, stopsc, running,
                       mCurrentSeqtagSeen, actionpacketsCurrent>>
        /\ cs \in {"sent", "refused"} /\ cs' \in {"sent", "refused"}
    BY Zenon DEF ApiRefuses, server, tree, fetchnodes, tags
  <2>2. CsTypes'
    BY ZenonT(30), <2>1 DEF Bounds, CsTypes, OfLog, IsFetchNodes
  <2>3. ScTypes' /\ TagTypes' /\ DbTypes' /\ Trees'
    BY Zenon, <2>1, <1>BoundsFrames DEF Bounds
  <2>4. Flags' /\ Idle'
    BY Zenon, <2>1 DEF Bounds, Flags, Idle, IsFetchNodes
  <2> QED
    BY Zenon, <2>1, <2>2, <2>3, <2>4 DEF Bounds
\* The reply to a batch.
<1>CsResponseBounds. Bounds /\ CsResponse => Bounds'
  <2> SUFFICES ASSUME Bounds, CsResponse PROVE Bounds'
    OBVIOUS
  <2>1. /\ UNCHANGED <<ops, scsn, pendingsc, parser, streaming, sctags, applied,
                       purged, db, fetch, fetchingnodes, stopsc, running, actionpacketsCurrent>>
        /\ cs = "executed" /\ ~IsFetchNodes /\ Process /\ mCurrentSeqtagSeen' = FALSE
    BY Zenon DEF CsResponse, server, tree, fetchnodes
  <2>2. batch # <<>>
    BY Zenon, <2>1 DEF Bounds, CsTypes
  <2>3. CsTypes' /\ OfLog(mCurrentSeqtag')
    BY Zenon, <2>1, <2>2, <1>ProcessBounds
  <2>4. Idle'
    BY Zenon, <2>1, <1>ProcessIdle
  <2>5. ScTypes' /\ DbTypes' /\ Trees'
    BY Zenon, <2>1, <1>BoundsFrames DEF Bounds
  <2>6. TagTypes'
    BY Zenon, <2>1, <2>3 DEF Bounds, TagTypes, OfLog, sctags
  <2>7. Flags'
    BY ZenonT(30), <2>1 DEF Bounds, Flags
  <2> QED
    BY Zenon, <2>1, <2>3, <2>4, <2>5, <2>6, <2>7 DEF Bounds
\* The reply to fetchnodes begins.
<1>FetchNodesBeginsBounds. Bounds /\ FetchNodesBegins => Bounds'
  <2> SUFFICES ASSUME Bounds, FetchNodesBegins PROVE Bounds'
    OBVIOUS
  <2>1. /\ UNCHANGED <<ops, batch, processindex, fetch, fetchingnodes, running, streaming,
                       mLargestEverSeenScSeqTag, reported>>
        /\ cs = "executed" /\ cs' = "processing" /\ IsFetchNodes
        /\ applied' = {} /\ purged' = {} /\ scsn' = NoSn /\ stopsc' = FALSE
        /\ pendingsc' = NoRequest /\ parser' = NoParser
        /\ mCurrentSeqtag' = NoTag /\ mCurrentSeqtagSeen' = FALSE
        /\ mLastReceivedScSeqTag' = NoTag /\ seqTag' = NoTag /\ actionpacketsCurrent' = FALSE
        /\ db' = [scsn |-> NoSn, applied |-> {}, seqTag |-> NoTag]
    BY Zenon DEF FetchNodesBegins, server, fetchnodes
  <2>2. ops \in Seq(Operation) /\ OfLog(NoTag) /\ OfLog(NoSn)
    BY Zenon, <1>NoTagOfLog DEF Bounds
  <2>3. CsTypes'
    BY ZenonT(30), <2>1 DEF Bounds, CsTypes, OfLog, IsFetchNodes
  <2>4. ScTypes'
    <3>1. streaming' \in ParserFlags /\ OfLog(streaming'.mInterimSn)
      BY ZenonT(30), <2>1 DEF Bounds, ScTypes
    <3> QED
      BY ZenonT(30), <2>1, <2>2, <3>1, <1>NoScRequest
  <2>5. TagTypes' /\ DbTypes'
    BY ZenonT(30), <2>1, <2>2 DEF Bounds, TagTypes, DbTypes, OfLog
  <2>6. Flags'
    BY ZenonT(30), <2>1 DEF Bounds, Flags
  <2>7. Trees' /\ Idle'
    BY Zenon, <2>1, NothingTypes DEF Trees, Known, Idle
  <2> QED
    BY Zenon, <2>1, <2>2, <2>3, <2>4, <2>5, <2>6, <2>7 DEF Bounds
\* The reply to fetchnodes is complete.
<1>FetchNodesEndsBounds. Bounds /\ FetchNodesEnds => Bounds'
  <2> SUFFICES ASSUME Bounds, FetchNodesEnds PROVE Bounds'
    OBVIOUS
  <2> DEFINE k == batch[1].st
  <2>1. /\ UNCHANGED <<ops, fetch, fetchingnodes, stopsc, pendingsc, parser, running, streaming,
                       mCurrentSeqtag, mCurrentSeqtagSeen, mLastReceivedScSeqTag,
                       mLargestEverSeenScSeqTag, actionpacketsCurrent>>
        /\ cs = "processing" /\ IsFetchNodes
        /\ applied' = PacketsUpTo(k) /\ purged' = {} /\ scsn' = k /\ seqTag' = k /\ reported' = k
        /\ db' = [scsn |-> k, applied |-> PacketsUpTo(k), seqTag |-> k]
        /\ cs' = "idle" /\ processindex' = 1 /\ batch' = <<>>
    BY Zenon DEF FetchNodesEnds, server, fetchnodes, tags
  <2>2. ops \in Seq(Operation) /\ Len(ops) \in Nat /\ CsTypes /\ Idle
    BY DEF Bounds
  <2>3. OfLog(k) /\ 0 <= k
    <3>1. 1 \in 1..Len(batch)
      BY Zenon, <2>1, OneIndex DEF IsFetchNodes
    <3> QED
      BY Zenon, <2>1, <2>2, <3>1 DEF CsTypes
  <2> HIDE DEF k
  <2>4. CsTypes'
    BY Zenon, <2>1, <2>2, <1>NoCommands DEF CsTypes
  <2>5. ScTypes'
    BY ZenonT(30), <2>1, <1>BoundsFrames DEF Bounds
  <2>6. TagTypes' /\ DbTypes'
    BY ZenonT(30), <2>1, <2>3 DEF Bounds, TagTypes, DbTypes, OfLog
  <2>7. Flags'
    BY Zenon, <2>1 DEF Bounds, Flags
  <2>8. Known(PacketsUpTo(k))
    <3>1. \A i \in 1..k : i \in 1..Len(ops)
      BY <2>2, <2>3 DEF OfLog
    <3>2. PacketsUpTo(k) \subseteq PacketsUpTo(Len(ops))
      BY Zenon, <3>1 DEF PacketsUpTo
    <3> QED
      BY <3>2, KnownUpTo
  <2>9. Trees'
    BY Zenon, <2>1, <2>8 DEF Trees, Known
  <2>10. Idle'
    <3>1. Len(batch') = 0 /\ mCurrentSeqtag = NoTag
      BY Zenon, <2>1, <2>2 DEF Idle
    <3>2. ~IsFetchNodes'
      <4>1. Len(batch') # 1
        BY <3>1
      <4> QED
        BY Zenon, <4>1 DEF IsFetchNodes
    <3> QED
      BY Zenon, <2>1, <3>1, <3>2 DEF Idle
  <2> QED
    BY ZenonT(30), <2>1, <2>2, <2>4, <2>5, <2>6, <2>7, <2>9, <2>10 DEF Bounds
\* The steps of a reload, of exec() and of the request itself.
<1>RequestBounds.
      ASSUME Bounds, \/ FetchNodes \/ NotifyPurge \/ ScRequest \/ ApiTooMany
                     \/ \E upto \in pendingsc.from..Len(ops), ir \in BOOLEAN : ApiAnswers(upto, ir)
      PROVE  Bounds'
  <2> USE <1>RequestBounds
  <2>1. ops \in Seq(Operation) /\ Len(ops) \in Nat
    BY DEF Bounds
  <2>2. CASE FetchNodes
    <3>1. /\ UNCHANGED <<ops, batch, cs, processindex, scsn, pendingsc, parser, streaming,
                         mCurrentSeqtag, sctags, applied, purged, db, stopsc, running,
                         mCurrentSeqtagSeen, actionpacketsCurrent>>
          /\ fetch' = "cached" /\ fetchingnodes' = TRUE
      BY Zenon, <2>2 DEF FetchNodes, server, reqs, tags, tree
    <3>2. CsTypes' /\ Flags' /\ Idle'
      BY ZenonT(30), <3>1 DEF Bounds, CsTypes, OfLog, IsFetchNodes, Flags, Idle
    <3>3. ScTypes' /\ TagTypes' /\ DbTypes' /\ Trees'
      BY Zenon, <3>1, <1>BoundsFrames DEF Bounds
    <3> QED
      BY Zenon, <2>1, <3>1, <3>2, <3>3 DEF Bounds
  <2>3. CASE NotifyPurge
    <3>1. /\ UNCHANGED <<ops, batch, cs, processindex, fetch, fetchingnodes, scsn, pendingsc,
                         parser, streaming, mCurrentSeqtag, sctags, applied, db, stopsc, running,
                         mCurrentSeqtagSeen, actionpacketsCurrent>>
          /\ purged' = HalfMoved(applied)
      BY Zenon, <2>3 DEF NotifyPurge, server, reqs, fetchnodes, tags
    <3>2. CsTypes' /\ ScTypes' /\ TagTypes' /\ DbTypes'
      BY Zenon, <3>1, <1>BoundsFrames DEF Bounds
    <3>3. Trees'
      BY ZenonT(30), <3>1 DEF Bounds, Trees, Known, HalfMoved
    <3>4. Flags' /\ Idle'
      BY Zenon, <3>1 DEF Bounds, Flags, Idle, IsFetchNodes
    <3> QED
      BY Zenon, <2>1, <3>1, <3>2, <3>3, <3>4 DEF Bounds
  <2>4. CASE ScRequest
    <3>1. /\ UNCHANGED <<ops, batch, cs, processindex, fetch, fetchingnodes, scsn,
                         parser, streaming, mCurrentSeqtag, sctags, applied, purged, db, stopsc,
                         running, mCurrentSeqtagSeen, actionpacketsCurrent>>
          /\ pendingsc' = [NoRequest EXCEPT !.status = "sent", !.from = scsn]
          /\ pendingsc.status = "none" /\ scsn # NoSn
      BY <2>4 DEF ScRequest, ScsnReady, server, reqs, fetchnodes, tags, tree
    <3>2. scsn \in Nat /\ scsn <= Len(ops) /\ ~IsFetchNodes
      BY <2>1, <3>1 DEF Bounds, TagTypes, OfLog, NoSn, NoTag, Idle
    <3>3. pendingsc' = [status |-> "sent", from |-> scsn, upto |-> 0, ir |-> FALSE]
      BY Zenon, <3>1 DEF NoRequest
    <3>4. pendingsc' \in Request
      BY Zenon, <3>2, <3>3 DEF Request
    <3>5. ScTypes'
      <4>1. ScTypes
        BY DEF Bounds
      <4>2. parser.stage = "idle" /\ ~parser.checked
        BY <4>1, <3>1 DEF ScTypes, Position
      <4> QED
        BY <3>1, <3>2, <3>3, <3>4, <4>1, <4>2 DEF ScTypes, OfLog
    <3>6. CsTypes' /\ TagTypes' /\ DbTypes' /\ Trees'
      BY <3>1, <1>BoundsFrames DEF Bounds
    <3>7. Flags' /\ Idle'
      BY Zenon, <3>1, <3>2 DEF Bounds, Flags, Idle, IsFetchNodes
    <3> QED
      BY <2>1, <3>1, <3>5, <3>6, <3>7 DEF Bounds
  <2>5. CASE ApiTooMany
    <3>1. /\ UNCHANGED <<ops, batch, cs, processindex, mCurrentSeqtag, sctags, applied, purged, db,
                         parser, streaming, running, mCurrentSeqtagSeen, actionpacketsCurrent>>
          /\ fetch' = "nocache" /\ fetchingnodes' = TRUE /\ scsn' = NoSn /\ stopsc' = TRUE
          /\ pendingsc' = NoRequest /\ pendingsc.status = "sent"
      BY Zenon, <2>5 DEF ApiTooMany, server, reqs, tags, tree
    <3>2. CsTypes' /\ Flags' /\ Idle'
      BY ZenonT(30), <3>1, NothingTypes DEF Bounds, CsTypes, OfLog, IsFetchNodes, Flags, Idle
    <3>3. ScTypes'
      <4>1. ScTypes
        BY DEF Bounds
      <4>2. parser.stage = "idle" /\ ~parser.checked
        BY Zenon, <4>1, <3>1 DEF ScTypes, Position
      <4> QED
        BY Zenon, <2>1, <3>1, <4>1, <4>2, NothingTypes, NothingBounds DEF ScTypes, OfLog
    <3>4. TagTypes'
      BY Zenon, <2>1, <3>1, <1>NoTagOfLog DEF Bounds, TagTypes, OfLog, sctags
    <3>5. DbTypes' /\ Trees'
      BY Zenon, <3>1, <1>BoundsFrames DEF Bounds
    <3> QED
      BY Zenon, <2>1, <3>1, <3>2, <3>3, <3>4, <3>5 DEF Bounds
  <2>6. ASSUME NEW upto \in pendingsc.from..Len(ops), NEW ir \in BOOLEAN, ApiAnswers(upto, ir)
        PROVE  Bounds'
    <3>1. /\ UNCHANGED <<ops, batch, cs, processindex, fetch, fetchingnodes, scsn,
                         parser, streaming, mCurrentSeqtag, sctags, applied, purged, db, stopsc,
                         running, mCurrentSeqtagSeen, actionpacketsCurrent>>
          /\ pendingsc' = [pendingsc EXCEPT !.status = "answered", !.upto = upto, !.ir = ir]
          /\ pendingsc.status = "sent"
      BY Zenon, <2>6 DEF ApiAnswers, server, reqs, fetchnodes, tags, tree
    <3>2. pendingsc \in Request /\ ScTypes /\ ~IsFetchNodes
      BY Zenon, <3>1 DEF Bounds, ScTypes, Idle
    <3>3. /\ pendingsc' \in Request /\ pendingsc'.from = pendingsc.from
          /\ pendingsc'.upto = upto /\ pendingsc'.status = "answered"
          /\ upto \in Nat /\ pendingsc.from <= upto /\ upto <= Len(ops)
      <4>1. pendingsc.from \in Nat
        BY <3>2 DEF Request
      <4>2. upto \in Nat /\ pendingsc.from <= upto /\ upto <= Len(ops)
        BY <2>1, <4>1
      <4>3. pendingsc' = [status |-> "answered", from |-> pendingsc.from, upto |-> upto, ir |-> ir]
        BY ZenonT(30), <3>1, <3>2 DEF Request
      <4> QED
        BY Zenon, <4>1, <4>2, <4>3 DEF Request
    <3>4. parser.stage = "idle" /\ ~parser.checked
      BY <3>1, <3>2 DEF ScTypes, Position
    <3>5. ScTypes'
      BY <3>1, <3>2, <3>3, <3>4 DEF ScTypes, OfLog
    <3>6. CsTypes' /\ TagTypes' /\ DbTypes' /\ Trees'
      BY <3>1, <1>BoundsFrames DEF Bounds
    <3>7. Flags' /\ Idle'
      BY <3>1, <3>2 DEF Bounds, Flags, Idle, IsFetchNodes
    <3> QED
      BY Zenon, <2>1, <3>1, <3>5, <3>6, <3>7 DEF Bounds
  <2> QED
    BY <2>2, <2>3, <2>4, <2>5, <2>6
\* The request fails.
<1>ScFailsBounds. Bounds /\ ScFails => Bounds'
  <2> SUFFICES ASSUME Bounds, ScFails PROVE Bounds'
    OBVIOUS
  <2>1. /\ UNCHANGED <<ops, batch, cs, processindex, fetch, fetchingnodes, scsn, mCurrentSeqtag,
                       sctags, applied, stopsc, running, mCurrentSeqtagSeen, actionpacketsCurrent>>
        /\ pendingsc' = NoRequest /\ parser' = NoParser /\ ClearStreamingParser
    BY Zenon DEF ScFails, server, reqs, fetchnodes, tags
  <2>2. ops \in Seq(Operation)
    BY Zenon DEF Bounds
  <2>3. ScTypes' /\ DbTypes' /\ Trees'
    BY Zenon, <2>1, <2>2, <1>ClearBounds, <1>NoScRequest
  <2>4. CsTypes' /\ TagTypes'
    BY Zenon, <2>1, <1>BoundsFrames DEF Bounds
  <2>5. Flags' /\ Idle'
    BY Zenon, <2>1, NothingTypes DEF Bounds, Flags, Idle, IsFetchNodes
  <2> QED
    BY Zenon, <2>1, <2>2, <2>3, <2>4, <2>5 DEF Bounds
\* The process restarts.
<1>RestartBounds. Bounds /\ Restart => Bounds'
  <2> SUFFICES ASSUME Bounds, Restart PROVE Bounds'
    OBVIOUS
  <2>1. /\ UNCHANGED <<ops, db>>
        /\ batch' = <<>> /\ cs' = "idle" /\ processindex' = 1 /\ fetch' \in {"none", "cached"}
        /\ fetchingnodes' = TRUE /\ stopsc' = FALSE /\ running' = FALSE
        /\ mCurrentSeqtagSeen' = FALSE /\ actionpacketsCurrent' = FALSE
        /\ pendingsc' = NoRequest /\ parser' = NoParser /\ streaming' = NoStreaming
        /\ scsn' = db.scsn /\ seqTag' = db.seqTag /\ reported' = db.seqTag
        /\ mCurrentSeqtag' = NoTag /\ mLastReceivedScSeqTag' = NoTag
        /\ mLargestEverSeenScSeqTag' = NoTag
        /\ applied' = db.applied /\ purged' = HalfMoved(db.applied)
    BY Zenon DEF Restart, server, CurrentOnResume
  <2>2. ops \in Seq(Operation) /\ OfLog(NoTag) /\ OfLog(NoSn)
    BY <1>NoTagOfLog DEF Bounds
  <2>3. CsTypes'
    BY Zenon, <2>1, <1>NoCommands
  <2>4. ScTypes'
    BY Zenon, <2>1, <2>2, NothingTypes, <1>NoScRequest
  <2>5. TagTypes' /\ DbTypes'
    BY ZenonT(30), <2>1, <2>2 DEF Bounds, TagTypes, DbTypes, OfLog
  <2>6. Flags'
    BY Zenon, <2>1 DEF Flags
  <2>7. Trees'
    BY ZenonT(30), <2>1 DEF Bounds, Trees, Known, HalfMoved
  <2>8. Idle'
    <3>1. Len(batch') = 0
      BY <2>1
    <3> QED
      BY <2>1, <3>1 DEF Idle, IsFetchNodes
  <2> QED
    BY Zenon, <2>1, <2>2, <2>3, <2>4, <2>5, <2>6, <2>7, <2>8 DEF Bounds
\* The first byte of the answer.
<1>ScStartBounds. Bounds /\ ScStart => Bounds'
  <2> SUFFICES ASSUME Bounds, ScStart PROVE Bounds'
    OBVIOUS
  <2>1. /\ UNCHANGED <<ops, batch, cs, processindex, fetch, fetchingnodes, scsn, pendingsc,
                       streaming, mCurrentSeqtag, sctags, applied, purged, db, stopsc,
                       mCurrentSeqtagSeen>>
        /\ parser' = [NoParser EXCEPT !.stage = "a", !.op = pendingsc.from + 1]
        /\ pendingsc.status = "answered" /\ running' = ~Streaming /\ actionpacketsCurrent' = FALSE
    BY DEF ScStart, server, reqs, fetchnodes, tags, tree
  <2>2. parser' = [stage |-> "a", op |-> pendingsc.from + 1, part |-> 1, checked |-> FALSE]
    BY Zenon, <2>1 DEF NoParser
  <2>3. ScTypes /\ pendingsc \in Request /\ ops \in Seq(Operation)
    BY Zenon DEF Bounds, ScTypes
  <2>4. pendingsc.from \in Nat /\ pendingsc.upto \in Nat /\ pendingsc.from <= pendingsc.upto
    BY Zenon, <2>1, <2>3 DEF ScTypes, Request
  <2>5. parser' \in Position
    BY <2>2, <2>4 DEF Position
  <2>6. ScTypes'
    <3>1. /\ parser'.stage = "a" /\ parser'.op = pendingsc.from + 1 /\ parser'.part = 1
          /\ ~parser'.checked
      BY Zenon, <2>2
    <3>2. 1 <= parser'.op /\ parser'.op <= pendingsc.upto + 1
      BY <2>4, <3>1
    <3> QED
      BY <2>1, <2>3, <2>5, <3>1, <3>2 DEF ScTypes, OfLog
  <2>7. CsTypes' /\ TagTypes' /\ DbTypes' /\ Trees'
    BY <2>1, <1>BoundsFrames DEF Bounds
  <2>8. Flags' /\ Idle'
    BY Zenon, <2>1, ScChannelAssumption DEF Bounds, Flags, Idle, IsFetchNodes, ScChannelAssumption
  <2> QED
    BY <2>1, <2>3, <2>6, <2>7, <2>8 DEF Bounds
\* sc_checkActionPacket().
<1>CheckPacketBounds. Bounds /\ CheckPacket => Bounds'
  <2> SUFFICES ASSUME Bounds, CheckPacket PROVE Bounds'
    OBVIOUS
  <2> DEFINE tag == St(parser.op, parser.part)
  <2>1. /\ UNCHANGED <<ops, fetch, fetchingnodes, scsn, pendingsc, streaming, applied, purged,
                       db, stopsc, actionpacketsCurrent>>
        /\ parser.stage = "a" /\ parser.op <= pendingsc.upto
        /\ parser' = [parser EXCEPT !.checked = MayProceed(tag)]
        /\ running' \in BOOLEAN
        /\ IF ImplicitTag THEN UNCHANGED <<reqs, tags, sctags, delivered>>
                          ELSE CheckSequenceTag(tag)
    BY DEF CheckPacket, AtPacket, server, fetchnodes, tree, MayProceed
  <2>2. ScTypes /\ Idle /\ ops \in Seq(Operation) /\ pendingsc.status = "answered"
    BY <2>1 DEF Bounds, ScTypes
  <2>3. parser.op \in 1..Len(ops) /\ ~IsFetchNodes /\ parser \in Position
    BY <2>1, <2>2 DEF ScTypes, Idle, Position, Request
  <2>4. OfLog(tag)
    BY <2>2, <2>3, <1>StOfLog
  <2>5. MayProceed(tag) \in BOOLEAN
    BY DEF MayProceed
  <2> HIDE DEF tag
  <2>6. CsTypes' /\ TagTypes' /\ Idle' /\ mCurrentSeqtagSeen' \in BOOLEAN
    <3>1. CASE ImplicitTag
      <4>1. UNCHANGED <<batch, cs, processindex, mCurrentSeqtag, mCurrentSeqtagSeen, sctags>>
        BY <2>1, <3>1 DEF reqs, tags
      <4>2. CsTypes' /\ TagTypes'
        BY <2>1, <4>1, <1>BoundsFrames DEF Bounds
      <4>3. Idle' /\ mCurrentSeqtagSeen' \in BOOLEAN
        BY <2>1, <4>1 DEF Bounds, Idle, IsFetchNodes, Flags
      <4> QED
        BY <4>2, <4>3
    <3>2. CASE ~ImplicitTag
      BY <2>1, <2>3, <2>4, <3>2, <1>CheckSequenceTagBounds
    <3> QED
      BY <3>1, <3>2
  <2>7. ScTypes'
    <3>1. /\ parser' \in Position /\ parser'.stage = "a" /\ parser'.op = parser.op
          /\ parser'.part = parser.part
      BY <2>1, <2>3, <2>5 DEF Position
    <3> QED
      BY <2>1, <2>2, <3>1 DEF ScTypes, OfLog
  <2>8. DbTypes' /\ Trees'
    BY <2>1, <1>BoundsFrames DEF Bounds
  <2>9. Flags'
    BY <2>1, <2>6 DEF Bounds, Flags
  <2> QED
    BY <2>1, <2>2, <2>6, <2>7, <2>8, <2>9 DEF Bounds
\* The end of the array of packets.
<1>ArrayEndsBounds. Bounds /\ ArrayEnds => Bounds'
  <2> SUFFICES ASSUME Bounds, ArrayEnds PROVE Bounds'
    OBVIOUS
  <2>1. /\ UNCHANGED <<ops, fetch, fetchingnodes, scsn, pendingsc, streaming, applied, purged,
                       db, stopsc, running, actionpacketsCurrent>>
        /\ parser.stage = "a" /\ parser.op > pendingsc.upto
        /\ parser' = [parser EXCEPT !.stage = "sn"] /\ CheckSequenceTag(NoTag)
    BY DEF ArrayEnds, server, fetchnodes, tree
  <2>2. ScTypes /\ Idle /\ ops \in Seq(Operation) /\ pendingsc.status = "answered"
    BY Zenon, <2>1 DEF Bounds, ScTypes
  <2>3. ~IsFetchNodes /\ parser \in Position /\ ~parser.checked
    <3>1. parser \in Position /\ pendingsc \in Request
      BY <2>2 DEF ScTypes
    <3>2. ~(parser.op <= pendingsc.upto)
      BY <2>1, <3>1 DEF Position, Request
    <3> QED
      BY ZenonT(30), <2>2, <3>1, <3>2 DEF ScTypes, Idle, Position
  <2>4. CsTypes' /\ TagTypes' /\ Idle' /\ mCurrentSeqtagSeen' \in BOOLEAN
    BY <2>1, <2>2, <2>3, <1>NoTagOfLog, <1>CheckSequenceTagBounds
  <2>5. ScTypes'
    <3>1. parser' \in Position /\ parser'.stage = "sn" /\ ~parser'.checked
      BY <2>1, <2>3 DEF Position
    <3> QED
      BY <2>1, <2>2, <3>1 DEF ScTypes, OfLog
  <2>6. DbTypes' /\ Trees'
    BY <2>1, <1>BoundsFrames DEF Bounds
  <2>7. Flags'
    BY <2>1, <2>4 DEF Bounds, Flags
  <2> QED
    BY <2>1, <2>2, <2>4, <2>5, <2>6, <2>7 DEF Bounds
\* A commit, of an interim sn or of the last one.
<1>StoreBounds. Bounds /\ (CommitInterim \/ StoreSn) => Bounds'
  <2> SUFFICES ASSUME Bounds, CommitInterim \/ StoreSn PROVE Bounds'
    OBVIOUS
  <2>1. /\ UNCHANGED <<ops, batch, cs, processindex, fetch, fetchingnodes, pendingsc,
                       mCurrentSeqtag, sctags, applied, stopsc, running,
                       mCurrentSeqtagSeen, actionpacketsCurrent>>
        /\ streaming' = [streaming EXCEPT !.mNeedToPurge = FALSE]
        /\ purged' = HalfMoved(applied)
        /\ db' = [scsn |-> scsn', applied |-> applied, seqTag |-> seqTag]
    BY DEF CommitInterim, StoreSn, PurgeAndCommit, server, reqs, fetchnodes, tags
  <2>2. \/ scsn' = scsn /\ parser' = parser
        \/ /\ scsn' = pendingsc.upto /\ parser.stage = "sn"
           /\ parser' = [parser EXCEPT !.stage = "eoo"]
    BY DEF CommitInterim, StoreSn
  <2>3. ScTypes /\ TagTypes /\ Idle /\ ops \in Seq(Operation) /\ Len(ops) \in Nat
    BY DEF Bounds
  <2>4. OfLog(scsn')
    BY <2>2, <2>3 DEF ScTypes, TagTypes, OfLog, Request, NoTag
  <2>5. CsTypes'
    BY <2>1, <1>BoundsFrames DEF Bounds
  <2>6. TagTypes' /\ DbTypes'
    BY <2>1, <2>3, <2>4 DEF TagTypes, DbTypes, OfLog, sctags
  <2>7. Trees'
    BY <2>1 DEF Bounds, Trees, Known, HalfMoved
  <2>8. /\ parser' \in Position /\ parser'.checked = parser.checked
        /\ parser'.stage # "idle" <=> parser.stage # "idle"
        /\ parser'.stage = "a" => parser' = parser
        /\ parser'.checked => parser' = parser
    BY <2>2, <2>3 DEF ScTypes, Position
  <2>9. streaming' \in ParserFlags /\ streaming'.mInterimSn = streaming.mInterimSn
    BY Zenon, <2>1, <2>3 DEF ScTypes, ParserFlags
  <2>10. ScTypes'
    BY <2>1, <2>3, <2>8, <2>9 DEF ScTypes, OfLog
  <2>11. Flags'
    BY <2>1 DEF Bounds, Flags
  <2>12. Idle'
    <3>1. IsFetchNodes => pendingsc.status = "none" /\ parser.stage = "idle" /\ scsn' = NoSn
      BY <2>2, <2>3 DEF Idle, ScTypes
    <3> QED
      BY <2>1, <2>3, <3>1 DEF Idle, IsFetchNodes
  <2> QED
    BY <2>1, <2>3, <2>5, <2>6, <2>7, <2>10, <2>11, <2>12 DEF Bounds
\* procsc() or a filter applies a packet.
<1>ApplyPacketBounds. Bounds /\ ApplyPacket => Bounds'
  <2> SUFFICES ASSUME Bounds, ApplyPacket PROVE Bounds'
    OBVIOUS
  <2> DEFINE k == parser.op
             p == parser.part
             deleted == ops[k].kind = "m" /\ p = 1 /\ NodeFound(k)
             merged == ~(ops[k].kind = "s" /\ p = 1)
             isn == IF p = 1 /\ ops[k].isn THEN k ELSE streaming.mInterimSn
             store == Streaming /\ isn # NoSn /\ IsnCanBeProcessed(deleted, merged)
  <2>1. /\ UNCHANGED <<ops, batch, cs, processindex, fetch, fetchingnodes, pendingsc,
                       mCurrentSeqtag, sctags, stopsc, mCurrentSeqtagSeen, actionpacketsCurrent,
                       db>>
        /\ parser.stage = "a" /\ parser.op <= pendingsc.upto
        /\ applied' = TreeAfter(k, p)
        /\ purged' = IF p = 2 THEN purged \ {k} ELSE purged
        /\ streaming' = [mInterimSn |-> IF store \/ ~Streaming THEN NoSn ELSE isn,
                         mNeedToPurge |-> streaming.mNeedToPurge \/ store,
                         mLastAPDeletedNode |-> deleted,
                         mIsNewSharesMerged |-> merged]
        /\ scsn' = IF store THEN isn ELSE scsn
        /\ parser' = IF p < Parts(ops[k].kind)
                     THEN [parser EXCEPT !.part = p + 1, !.checked = FALSE]
                     ELSE [parser EXCEPT !.op = k + 1, !.part = 1, !.checked = FALSE]
        /\ running' = ~Streaming
    BY DEF ApplyPacket, AtPacket, server, reqs, fetchnodes, tags
  <2>2. /\ ScTypes /\ TagTypes /\ Idle /\ Trees /\ ops \in Seq(Operation) /\ Len(ops) \in Nat
        /\ pendingsc.status = "answered"
    BY <2>1 DEF Bounds, ScTypes
  <2>3. /\ parser \in Position /\ pendingsc \in Request /\ streaming \in ParserFlags
        /\ k \in 1..Len(ops) /\ p \in {1, 2} /\ k \in Nat /\ k <= pendingsc.upto
        /\ 1 <= k /\ ~IsFetchNodes
    BY <2>1, <2>2 DEF ScTypes, Position, Request, Idle
  <2>4. p \in 1..Parts(ops[k].kind)
    BY <2>1, <2>2, <2>3, PartsType DEF ScTypes
  <2>5. OfLog(isn) /\ OfLog(NoSn) /\ OfLog(k)
    <3>1. OfLog(NoSn)
      BY <2>2, <1>NoTagOfLog
    <3>2. OfLog(k)
      BY <2>2, <2>3 DEF OfLog, NoTag
    <3>3. OfLog(streaming.mInterimSn)
      BY Zenon, <2>2 DEF ScTypes
    <3> QED
      BY <3>1, <3>2, <3>3
  <2>6. deleted \in BOOLEAN /\ merged \in BOOLEAN /\ store \in BOOLEAN
    BY Zenon DEF NodeFound, IsnCanBeProcessed
  <2> HIDE DEF k, p, isn, deleted, merged, store
  <2>7. /\ parser' \in Position /\ parser'.stage = "a" /\ ~parser'.checked
        /\ \/ parser'.op = k /\ parser'.part = 2 /\ Parts(ops[k].kind) = 2
           \/ parser'.op = k + 1 /\ parser'.part = 1
    <3>1. CASE p < Parts(ops[k].kind)
      <4>1. p = 1 /\ Parts(ops[k].kind) = 2 /\ p + 1 = 2
        BY <2>3, <3>1, PartsType
      <4>2. parser' = [parser EXCEPT !.part = 2, !.checked = FALSE]
        BY Zenon, <2>1, <3>1, <4>1
      <4>3. parser' \in Position /\ parser'.stage = "a" /\ ~parser'.checked /\ parser'.part = 2
            /\ parser'.op = parser.op
        BY ZenonT(30), <2>1, <2>3, <4>2, NextPosition
      <4> QED
        BY <4>1, <4>3 DEF k
    <3>2. CASE ~(p < Parts(ops[k].kind))
      <4> DEFINE n == k + 1
      <4>1. parser' = [parser EXCEPT !.op = n, !.part = 1, !.checked = FALSE] /\ n \in Nat
        BY <2>1, <2>3, <3>2
      <4> HIDE DEF n
      <4>2. parser.stage = "a" /\ parser \in Position
        BY <2>1, <2>3
      <4>3. /\ parser' \in Position /\ parser'.op = n /\ parser'.part = 1 /\ ~parser'.checked
            /\ parser'.stage = "a"
        BY ZenonT(30), <4>1, <4>2, NextPosition
      <4> QED
        BY <4>3 DEF n
    <3> QED
      BY Zenon, <3>1, <3>2
  <2>8. streaming' \in ParserFlags /\ OfLog(streaming'.mInterimSn)
    <3>1. streaming.mNeedToPurge \in BOOLEAN
      BY <2>3 DEF ParserFlags
    <3> DEFINE sn == IF store \/ ~Streaming THEN NoSn ELSE isn
               need == streaming.mNeedToPurge \/ store
    <3>2. sn \in Int /\ OfLog(sn)
      BY <2>5 DEF OfLog
    <3>3. need \in BOOLEAN
      BY <2>6, <3>1
    <3>4. streaming' = [mInterimSn |-> sn, mNeedToPurge |-> need, mLastAPDeletedNode |-> deleted,
                        mIsNewSharesMerged |-> merged]
      BY <2>1
    <3> HIDE DEF sn, need
    <3> QED
      BY <2>6, <3>2, <3>3, <3>4 DEF ParserFlags
  <2>9. ScTypes'
    <3>1. 1 <= parser'.op /\ parser'.op <= pendingsc.upto + 1
      BY <2>3, <2>7 DEF Request
    <3>2. parser'.part = 2 => parser'.op <= pendingsc.upto /\ Parts(ops[parser'.op].kind) = 2
      BY <2>3, <2>7
    <3>3. OfLog(streaming.mInterimSn)'
      BY <2>1, <2>8 DEF OfLog
    <3> QED
      BY Zenon, <2>1, <2>2, <2>7, <2>8, <3>1, <3>2, <3>3 DEF ScTypes
  <2>10. TagTypes' /\ DbTypes' /\ CsTypes'
    <3>1. OfLog(scsn')
      BY <2>1, <2>2, <2>5 DEF TagTypes
    <3>2. TagTypes'
      BY <2>1, <2>2, <3>1 DEF TagTypes, OfLog, sctags
    <3> QED
      BY <2>1, <3>2, <1>BoundsFrames DEF Bounds
  <2>11. Flags' /\ Idle'
    <3>1. Flags'
      BY <2>1, ScChannelAssumption DEF Bounds, Flags, ScChannelAssumption
    <3>2. Idle'
      BY <2>1, <2>2, <2>3 DEF Idle, IsFetchNodes
    <3> QED
      BY <3>1, <3>2
  <2>12. Trees'
    <3>1. Known(applied') /\ Known(db.applied)
      BY <2>1, <2>2, <2>3, <2>4 DEF Trees, Known, TreeAfter
    <3>2. purged' \subseteq {i \in 1..Len(ops) : /\ ops[i].kind = "m"
                                                 /\ <<i, 1>> \in applied' /\ <<i, 2>> \notin applied'}
      <4> SUFFICES ASSUME NEW i \in purged'
                   PROVE  /\ i \in 1..Len(ops) /\ ops[i].kind = "m"
                          /\ <<i, 1>> \in applied' /\ <<i, 2>> \notin applied'
        OBVIOUS
      <4>1. /\ i \in purged /\ (p = 2 => i # k) /\ i \in 1..Len(ops) /\ ops[i].kind = "m"
            /\ <<i, 1>> \in applied /\ <<i, 2>> \notin applied
        BY Zenon, <2>1, <2>2 DEF Trees, HalfMoved
      <4>2. <<k, p>> # <<i, 2>> /\ <<k, 2>> # <<i, 1>>
        BY Zenon, <4>1
      <4> QED
        BY Zenon, <2>1, <4>1, <4>2 DEF TreeAfter
    <3> QED
      BY <2>1, <3>1, <3>2 DEF Trees, Known, HalfMoved
  <2> QED
    BY <2>1, <2>2, <2>9, <2>10, <2>11, <2>12 DEF Bounds
\* sc_procEoo().
<1>ProcEooBounds. Bounds /\ ProcEoo => Bounds'
  <2> SUFFICES ASSUME Bounds, ProcEoo PROVE Bounds'
    OBVIOUS
  <2>1. /\ UNCHANGED <<ops, batch, cs, processindex, fetch, scsn, mCurrentSeqtag,
                       sctags, applied, purged, db, stopsc, mCurrentSeqtagSeen>>
        /\ pendingsc' = NoRequest /\ parser' = NoParser /\ streaming' = NoStreaming
        /\ running' = FALSE /\ actionpacketsCurrent' = (~pendingsc.ir /\ ~ScTagNotCaughtUp)
        /\ fetchingnodes' = (fetchingnodes /\ pendingsc.ir)
    BY Zenon DEF ProcEoo, server, reqs, tags, tree
  <2>2. ops \in Seq(Operation)
    BY DEF Bounds
  <2>3. ScTypes'
    BY Zenon, <2>1, <2>2, NothingTypes, <1>NoTagOfLog, <1>NoScRequest
  <2>4. CsTypes' /\ TagTypes' /\ DbTypes' /\ Trees'
    BY Zenon, <2>1, <1>BoundsFrames DEF Bounds
  <2>5. Flags'
    BY ZenonT(30), <2>1 DEF Bounds, Flags
  <2>6. Idle'
    BY Zenon, <2>1, NothingTypes DEF Bounds, Idle, IsFetchNodes
  <2> QED
    BY Zenon, <2>1, <2>2, <2>3, <2>4, <2>5, <2>6 DEF Bounds
<1> SUFFICES ASSUME Bounds, [Next]_vars PROVE Bounds'
  OBVIOUS
<1>1. CASE UNCHANGED vars
  <2>1. UNCHANGED <<ops, batch, cs, processindex, fetch, fetchingnodes, scsn, pendingsc, parser,
                    streaming, mCurrentSeqtag, sctags, applied, purged, db, stopsc, running,
                    mCurrentSeqtagSeen, actionpacketsCurrent>>
    BY Zenon, <1>1 DEF vars, server, reqs, fetchnodes, tags, tree
  <2>2. CsTypes' /\ ScTypes' /\ TagTypes' /\ DbTypes' /\ Trees'
    BY Zenon, <2>1, <1>BoundsFrames DEF Bounds
  <2>3. Flags' /\ Idle'
    BY Zenon, <2>1 DEF Bounds, Flags, Idle, IsFetchNodes
  <2> QED
    BY Zenon, <2>1, <2>2, <2>3 DEF Bounds
<1>2. CASE OtherClientActs
  BY <1>2, <1>OtherClientActsBounds
<1>3. CASE SendBatch \/ SendFetchNodes \/ ApiExecutes \/ ApiRefuses \/ CsResponse
  BY <1>3, <1>SendBatchBounds, <1>SendFetchNodesBounds, <1>ApiExecutesBounds, <1>ApiRefusesBounds,
     <1>CsResponseBounds
<1>4. CASE FetchNodesBegins \/ FetchNodesEnds
  BY <1>4, <1>FetchNodesBeginsBounds, <1>FetchNodesEndsBounds
<1>5. CASE \/ FetchNodes \/ NotifyPurge \/ ScRequest \/ ApiTooMany
           \/ \E upto \in pendingsc.from..Len(ops), ir \in BOOLEAN : ApiAnswers(upto, ir)
  BY Zenon, <1>5, <1>RequestBounds
<1>6. CASE ScFails \/ Restart
  BY <1>6, <1>ScFailsBounds, <1>RestartBounds
<1>7. CASE ScRead \/ CommitInterim
  BY <1>7, <1>ScStartBounds, <1>CheckPacketBounds, <1>ApplyPacketBounds, <1>ArrayEndsBounds, <1>StoreBounds,
     <1>ProcEooBounds DEF ScRead
<1> QED
  BY <1>1, <1>2, <1>3, <1>4, <1>5, <1>6, <1>7 DEF Next

\* Every variable of the channel stays within its type: sequence numbers and tags are
\* those of the log, the trees hold packets of the log, and no answer is read before
\* it has arrived.
THEOREM ScChannelTypes == Spec => []TypeOK
<1>1. Bounds /\ [Next]_vars => Bounds'
  BY NextBounds
<1> QED
  BY <1>1, InitBounds, BoundsTypeOK, PTL DEF Spec
=============================================================================
