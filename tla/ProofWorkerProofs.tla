------------------------- MODULE ProofWorkerProofs -------------------------
(***************************************************************************)
(* The proof worker between the chains: for any gateways, deployments,     *)
(* contributors and roots, whatever fails, gets lost or is settled by      *)
(* others.                                                                 *)
(***************************************************************************)
EXTENDS ProofWorker, SequenceTheorems, TLAPS

---------------------------------------------------------------------------
(* Sequences of roots.                                                     *)

LEMMA RangeHeadTail ==
  ASSUME NEW s \in Seq(Root), s # <<>>
  PROVE  /\ Tail(s) \in Seq(Root) /\ Head(s) \in Root
         /\ Range(s) = {Head(s)} \cup Range(Tail(s))
<1>1. /\ Tail(s) \in Seq(Root) /\ Head(s) \in Root
      /\ Len(Tail(s)) = Len(s) - 1
      /\ \A i \in 1 .. Len(Tail(s)) : Tail(s)[i] = s[i + 1]
  BY HeadTailProperties
<1>2. Len(s) \in Nat \ {0} /\ DOMAIN s = 1 .. Len(s) /\ DOMAIN Tail(s) = 1 .. Len(Tail(s))
  BY <1>1, EmptySeq, LenProperties
<1>3. Head(s) = s[1]
  OBVIOUS
<1>4. ASSUME NEW r \in Range(s) PROVE r \in {Head(s)} \cup Range(Tail(s))
  <2>1. PICK i \in 1 .. Len(s) : r = s[i]
    BY <1>2 DEF Range
  <2>2. CASE i = 1
    BY <1>3, <2>1, <2>2
  <2>3. CASE i # 1
    <3>1. i - 1 \in 1 .. Len(Tail(s)) /\ (i - 1) + 1 = i
      BY <1>1, <1>2, <2>3
    <3>2. Tail(s)[i - 1] = r
      BY <1>1, <2>1, <3>1
    <3> QED
      BY <1>2, <3>1, <3>2 DEF Range
  <2> QED
    BY <2>2, <2>3
<1>5. ASSUME NEW r \in Range(Tail(s)) PROVE r \in Range(s)
  <2>1. PICK i \in 1 .. Len(Tail(s)) : r = Tail(s)[i]
    BY <1>2 DEF Range
  <2>2. i + 1 \in 1 .. Len(s)
    BY <1>1, <1>2
  <2> QED
    BY <1>1, <1>2, <2>1, <2>2 DEF Range
<1>6. Head(s) \in Range(s)
  BY <1>2, <1>3 DEF Range
<1> QED
  BY <1>1, <1>4, <1>5, <1>6

LEMMA RangeAppend ==
  ASSUME NEW s \in Seq(Root), NEW r \in Root
  PROVE  Append(s, r) \in Seq(Root) /\ Range(Append(s, r)) = Range(s) \cup {r}
<1> DEFINE t == Append(s, r)
<1>1. /\ t \in Seq(Root) /\ Len(t) = Len(s) + 1
      /\ \A i \in 1 .. Len(s) : t[i] = s[i]
      /\ t[Len(s) + 1] = r
  BY AppendProperties
<1>2. Len(s) \in Nat /\ DOMAIN s = 1 .. Len(s) /\ DOMAIN t = 1 .. Len(s) + 1
  BY <1>1, LenProperties
<1> HIDE DEF t
<1>3. \A x : x \in Range(t) <=> x \in Range(s) \cup {r}
  BY <1>1, <1>2 DEF Range
<1> QED
  BY <1>1, <1>3 DEF t

LEMMA RangeEmpty == Range(<<>>) = {}
BY EmptySeq, LenProperties DEF Range

\* A list of roots is a sequence of roots, and lists nothing else.
LEMMA OrderedSound ==
  ASSUME NEW roots \in SUBSET Root, NEW list \in Seq(Root), NEW s \in Ordered(roots, list)
  PROVE  s \in Seq(Root) /\ Range(s) = roots
<1>1. Len(list) \in Nat
  BY LenProperties
<1>2. PICK n \in 0 .. Len(list) : s \in [1 .. n -> roots]
  BY DEF Ordered
<1>3. n \in Nat
  BY <1>1, <1>2
<1>4. s \in [1 .. n -> Root]
  BY <1>2
<1> QED
  BY <1>3, <1>4, SeqDef DEF Ordered

LEMMA WorkableSound ==
  ASSUME NEW status, queue \in Seq(Root), BATCH_SIZE \in Nat, NEW s \in Workable(status)
  PROVE  s \in Seq(Root) /\ Range(s) \subseteq Due(status)
<1>1. PICK due \in Ordered(Due(status), queue) :
        s = SubSeq(due, 1, IF Len(due) < BATCH_SIZE THEN Len(due) ELSE BATCH_SIZE)
  BY DEF Workable
<1>2. due \in Seq(Root) /\ Range(due) = Due(status)
  <2>1. Due(status) \in SUBSET Root
    BY DEF Due
  <2> QED
    BY <1>1, <2>1, OrderedSound
<1> DEFINE n == IF Len(due) < BATCH_SIZE THEN Len(due) ELSE BATCH_SIZE
<1>3. Len(due) \in Nat /\ DOMAIN due = 1 .. Len(due) /\ \A i \in 1 .. Len(due) : due[i] \in Root
  BY <1>2, LenProperties, ElementOfSeq
<1>4. n \in Nat /\ n <= Len(due)
  BY <1>3
<1>5. s = SubSeq(due, 1, n)
  BY <1>1
<1> HIDE DEF n
<1>6. \A i \in 1 .. n : i \in 1 .. Len(due)
  BY <1>3, <1>4
<1>7. /\ s \in Seq(Root)
      /\ Len(s) = IF 1 <= n THEN n - 1 + 1 ELSE 0
      /\ \A i \in 1 .. n - 1 + 1 : s[i] = due[1 + i - 1]
  BY <1>3, <1>4, <1>5, <1>6, SubSeqProperties
<1>8. DOMAIN s = 1 .. n /\ \A i \in 1 .. n : s[i] = due[i]
  BY <1>4, <1>7, LenProperties
<1> QED
  BY <1>2, <1>3, <1>6, <1>7, <1>8 DEF Range

---------------------------------------------------------------------------
(* The inductive invariant.                                                *)

\* A row is that of a registered measurement.
Known(r) ==
  \E e \in submitted : e = [root |-> r, contributor |-> rows[r].contributor,
                            timestamp |-> rows[r].timestamp]

\* The chains: what is registered has its event, of a payee that exists.
ChainInv ==
  /\ deployment.gateway \in Gateways
  /\ now \in 0 .. MaxTime
  /\ submitted \in SUBSET [root : Root, contributor : Contributor, timestamp : 0 .. MaxTime]
  /\ registered = {e.root : e \in submitted}

\* The store: a row that can still be worked on has attempts left.
StoreInv ==
  /\ rows \in [Root -> Row]
  /\ queue \in Seq(Root)
  /\ Range(queue) = {r \in Root : rows[r].status # "NONE"}
  /\ \A r \in Root :
       /\ rows[r].status \in {"SUBMITTED", "AWAITING_ATTESTATION"} =>
            rows[r].attempts < MAX_ATTEMPTS
       /\ rows[r].status \in {"AWAITING_ATTESTATION", "SETTLED"} => Known(r)
       /\ rows[r].status = "SETTLED" => r \in sSettled \cup bSettled

\* What the worker may have sent.
SentTx == {tx \in Tx : tx.kind = "relay" => tx.roots # <<>>}

Fields == {"stage", "unpaid", "todo", "kept", "group", "won", "claimed", "awaited"}

WorkerTyped ==
  /\ DOMAIN worker = Fields
  /\ worker.stage \in Stage
  /\ worker.unpaid \in SUBSET registered
  /\ worker.todo \in Seq(Root) /\ worker.kept \in Seq(Root) /\ worker.group \in Seq(Root)
  /\ worker.won \in SUBSET Root
  /\ worker.claimed \in [Root -> 0 .. MAX_ATTEMPTS]
  /\ worker.awaited \in SentTx \cup {NoTx}

\* The rows of a tick that has claimed some.
Held == Range(worker.todo) \cup Range(worker.kept) \cup Range(worker.group)

BeforeClaims == {"idle", "reconcile", "recover"}
BeforeProofs == BeforeClaims \cup {"relay"}

\* What a tick takes for granted of the rows it holds, for as long as it does.
HeldInv ==
  /\ worker.stage \in BeforeClaims => worker.todo = <<>>
  /\ worker.stage \in BeforeProofs => worker.kept = <<>> /\ worker.group = <<>>
  /\ \A r \in Held :
       /\ rows[r].status # "NONE"
       /\ worker.claimed[r] < MAX_ATTEMPTS
       /\ worker.stage # "relay" => Known(r)
  /\ worker.stage = "receipt" => worker.won \subseteq sSettled \cup bSettled

\* The transaction it waits for is that of the row it is at, or of its group.
AwaitedInv ==
  \/ worker.awaited = NoTx
  \/ /\ worker.stage = "relay" /\ worker.todo # <<>>
     /\ worker.awaited = RelayTx(Head(worker.todo))
  \/ worker.stage = "batch" /\ worker.awaited = Settlement("batch", worker.group)
  \/ /\ worker.stage = "single" /\ worker.todo # <<>>
     /\ worker.awaited = Settlement("single", <<Head(worker.todo)>>)

CountInv ==
  /\ stray \in Seq(SentTx)
  /\ ticksSinceReconcile \in 0 .. RECONCILE_EVERY_TICKS
  /\ crashes \in 0 .. MaxCrashes

TickInv == WorkerTyped /\ HeldInv /\ AwaitedInv

WorkerInv == ChainInv /\ StoreInv /\ TickInv /\ CountInv

---------------------------------------------------------------------------
(* The chains only ever record more.                                       *)

ChainMoves ==
  /\ deployment' = deployment
  /\ submitted \subseteq submitted' /\ registered \subseteq registered'
  /\ sSettled \subseteq sSettled' /\ bSettled \subseteq bSettled'

LEMMA GatewayTyped ==
  ASSUME ChainInv
  PROVE  /\ MAX_ATTEMPTS \in Nat \ {0} /\ RECONCILE_EVERY_TICKS \in Nat \ {0} /\ MaxTime \in Nat
         /\ BATCH_SIZE \in Nat \ {0} /\ MaxCrashes \in Nat /\ LastBlock \in 0 .. MaxTime
BY WorkerAssumption DEF ChainInv, Gateway, BATCH_SIZE, MaxCrashes, LastBlock

LEMMA SourceTxRoot ==
  ASSUME ChainInv, NEW r \in registered
  PROVE  SourceTxOf(r).logs[1].root = r /\ DOMAIN SourceTxOf(r).logs = {1}
<1> DEFINE e == CHOOSE e \in submitted : e.root = r
<1>1. e \in submitted /\ e.root = r
  BY DEF ChainInv
<1>2. SourceTxOf(r) = TxOf(e)
  BY DEF SourceTxOf
<1> HIDE DEF e
<1> QED
  BY <1>1, <1>2 DEF TxOf

LEMMA SubmitMoves ==
  ASSUME ChainInv, NEW r \in Root, NEW c \in Contributor \cup {NoAddr}, NEW t \in 0 .. MaxTime,
         NEW sig, Submit(r, c, t, sig)
  PROVE  /\ ChainInv' /\ ChainMoves
         /\ [root |-> r, contributor |-> c, timestamp |-> t] \in submitted'
         /\ sSettled' = sSettled /\ bSettled' = bSettled
<1> DEFINE e == [root |-> r, contributor |-> c, timestamp |-> t]
<1>1. /\ c # NoAddr
      /\ registered' = registered \cup {r} /\ submitted' = submitted \cup {e}
      /\ UNCHANGED <<deployment, now, sSettled, bSettled>>
  BY DEF Submit, R!SubmitMeasurement, R!Submittable, singleVars, batchVars
<1>2. e \in [root : Root, contributor : Contributor, timestamp : 0 .. MaxTime] /\ e.root = r
  BY <1>1
<1> HIDE DEF e
<1>3. registered' = {x.root : x \in submitted'}
  BY <1>1, <1>2 DEF ChainInv
<1>4. ChainInv'
  BY <1>1, <1>2, <1>3 DEF ChainInv
<1> QED
  BY <1>1, <1>4 DEF ChainMoves, e

LEMMA SingleMoves ==
  ASSUME ChainInv, NEW tx, SettleSingle(tx)
  PROVE  /\ ChainInv' /\ ChainMoves /\ submitted' = submitted /\ bSettled' = bSettled
         /\ sSettled' = sSettled \cup {l.root : l \in S!Logs(tx)}
BY DEF SettleSingle, S!Execute, S!SettleLogs, sourceVars, batchVars, ChainInv, ChainMoves

LEMMA BatchMoves ==
  ASSUME ChainInv, NEW txs, SettleBatch(txs)
  PROVE  /\ ChainInv' /\ ChainMoves /\ submitted' = submitted /\ sSettled' = sSettled
         /\ bSettled' = bSettled \cup {l.root : l \in B!Accepted(txs)}
BY DEF SettleBatch, B!ExecuteBatch, B!SettleLogs, sourceVars, singleVars, ChainInv, ChainMoves

\* Whatever the worker has sent, the chains take it or do not.
LEMMA MinedMoves ==
  ASSUME ChainInv, NEW tx \in SentTx, Mined(tx)
  PROVE  /\ ChainInv' /\ ChainMoves
         /\ tx.kind = "relay" => /\ sSettled' = sSettled /\ bSettled' = bSettled
                                 /\ [root |-> tx.roots[1], contributor |-> tx.contributor,
                                     timestamp |-> tx.timestamp] \in submitted'
<1>1. /\ tx.roots \in Seq(Root) /\ tx.contributor \in Contributor \cup {NoAddr}
      /\ tx.timestamp \in 0 .. MaxTime /\ tx.kind \in {"relay", "single", "batch"}
  BY DEF SentTx, Tx
<1>2. CASE tx.kind = "relay"
  <2>1. tx.roots[1] \in Root
    BY <1>1, <1>2, EmptySeq, ElementOfSeq DEF SentTx
  <2>2. Submit(tx.roots[1], tx.contributor, tx.timestamp, SignatureOf(tx))
    BY <1>2 DEF Mined
  <2> QED
    BY <1>1, <2>1, <2>2, SubmitMoves
<1>3. CASE tx.kind = "single"
  BY <1>3, SingleMoves DEF Mined
<1>4. CASE tx.kind = "batch"
  BY <1>4, BatchMoves DEF Mined
<1> QED
  BY <1>1, <1>2, <1>3, <1>4

\* A single settlement of r that goes through pays for r.
LEMMA SingleMinedPays ==
  ASSUME ChainInv, NEW r \in registered, Mined(Settlement("single", <<r>>))
  PROVE  ChainInv' /\ ChainMoves /\ sSettled' = sSettled \cup {r} /\ bSettled' = bSettled
<1>1. SettleSingle(SourceTxOf(r))
  BY DEF Mined, Settlement
<1>2. {l.root : l \in S!Logs(SourceTxOf(r))} = {r}
  BY SourceTxRoot DEF S!Logs
<1> QED
  BY <1>1, <1>2, SingleMoves

\* A batch that goes through pays for roots of the group not paid for there.
LEMMA BatchMinedPays ==
  ASSUME ChainInv, NEW group \in Seq(Root), Range(group) \subseteq registered,
         Mined(Settlement("batch", group))
  PROVE  LET won == {l.root : l \in B!Accepted(SourceTxsOf(group))}
         IN /\ ChainInv' /\ ChainMoves
            /\ sSettled' = sSettled /\ bSettled' = bSettled \cup won
            /\ won \subseteq Range(group)
            /\ \A r \in won : r \notin bSettled /\ ~B!SettledBySibling(r)
<1> DEFINE txs == SourceTxsOf(group)
<1>1. SettleBatch(txs)
  BY DEF Mined, Settlement
<1>2. ASSUME NEW l \in B!Accepted(txs)
      PROVE  l.root \in Range(group) /\ l.root \notin bSettled /\ ~B!SettledBySibling(l.root)
  <2>1. PICK p \in B!Positions(txs) : l = B!LogAt(txs, p) /\ B!Eligible(B!LogAt(txs, p))
    BY DEF B!Accepted
  <2>2. p[1] \in DOMAIN txs /\ p[2] \in DOMAIN txs[p[1]].logs
    BY DEF B!Positions
  <2>3. p[1] \in DOMAIN group /\ txs[p[1]] = SourceTxOf(group[p[1]])
    BY <2>2 DEF SourceTxsOf
  <2>4. group[p[1]] \in Range(group) /\ group[p[1]] \in registered
    BY <2>3 DEF Range
  <2>5. l.root = group[p[1]]
    BY <2>1, <2>2, <2>3, <2>4, SourceTxRoot DEF B!LogAt
  <2> QED
    BY <2>1, <2>4, <2>5 DEF B!Eligible
<1> HIDE DEF txs
<1> QED
  BY <1>1, <1>2, BatchMoves DEF txs

---------------------------------------------------------------------------
(* The store.                                                              *)

\* Rows stay, and what they say of the measurement stays.
RowsKept ==
  \A r \in Root : rows[r].status # "NONE" =>
    /\ rows'[r].status # "NONE"
    /\ rows'[r].contributor = rows[r].contributor
    /\ rows'[r].timestamp = rows[r].timestamp

LEMMA KnownStays ==
  ASSUME NEW r, Known(r), ChainMoves,
         rows'[r].contributor = rows[r].contributor, rows'[r].timestamp = rows[r].timestamp
  PROVE  Known(r)'
BY DEF Known, ChainMoves

LEMMA StoreSame ==
  ASSUME StoreInv, ChainMoves, UNCHANGED storeVars
  PROVE  StoreInv' /\ RowsKept
<1>1. UNCHANGED <<rows, queue>>
  BY DEF storeVars
<1>2. RowsKept
  BY <1>1 DEF RowsKept
<1>3. \A r \in Root : Known(r) => Known(r)'
  BY <1>1, KnownStays
<1> QED
  BY <1>1, <1>2, <1>3 DEF StoreInv, ChainMoves

LEMMA InsertSound ==
  ASSUME ChainInv, StoreInv, ChainMoves, NEW r \in Root, rows[r].status = "NONE",
         NEW status \in {"SUBMITTED", "AWAITING_ATTESTATION"},
         NEW c \in Contributor, NEW t \in 0 .. MaxTime, Inserted(r, status, c, t),
         status = "AWAITING_ATTESTATION" =>
           [root |-> r, contributor |-> c, timestamp |-> t] \in submitted'
  PROVE  StoreInv' /\ RowsKept
<1> DEFINE row == [status |-> status, contributor |-> c, timestamp |-> t,
                   attempts |-> 0, delayed |-> FALSE]
<1>1. MAX_ATTEMPTS \in Nat \ {0}
  BY GatewayTyped
<1>2. row \in Row /\ row.status = status /\ row.status # "NONE" /\ row.attempts = 0
      /\ row.contributor = c /\ row.timestamp = t
  BY <1>1 DEF Row, Status
<1>3. rows' = [rows EXCEPT ![r] = row] /\ queue' = Append(queue, r)
  BY DEF Inserted
<1> HIDE DEF row
<1>4. rows' \in [Root -> Row] /\ rows'[r] = row /\ \A q \in Root \ {r} : rows'[q] = rows[q]
  BY <1>2, <1>3 DEF StoreInv
<1>5. queue' \in Seq(Root) /\ Range(queue') = Range(queue) \cup {r}
  BY <1>3, RangeAppend DEF StoreInv
<1>6. Range(queue') = {q \in Root : rows'[q].status # "NONE"}
  BY <1>2, <1>4, <1>5 DEF StoreInv
<1>7. ASSUME NEW q \in Root
      PROVE  /\ rows'[q].status \in {"SUBMITTED", "AWAITING_ATTESTATION"} =>
                  rows'[q].attempts < MAX_ATTEMPTS
             /\ rows'[q].status \in {"AWAITING_ATTESTATION", "SETTLED"} => Known(q)'
             /\ rows'[q].status = "SETTLED" => q \in sSettled' \cup bSettled'
  <2>1. CASE q = r
    BY <1>1, <1>2, <1>4, <2>1 DEF Known
  <2>2. CASE q # r
    <3>1. rows'[q] = rows[q]
      BY <1>4, <2>2
    <3>2. Known(q) => Known(q)'
      BY <3>1, KnownStays
    <3> QED
      BY <3>1, <3>2 DEF StoreInv, ChainMoves
  <2> QED
    BY <2>1, <2>2
<1>8. RowsKept
  BY <1>4 DEF RowsKept
<1> QED
  BY <1>4, <1>5, <1>6, <1>7, <1>8 DEF StoreInv

\* A row that is there is written over, its measurement unchanged.
LEMMA WriteSound ==
  ASSUME StoreInv, ChainMoves, NEW r \in Root, rows[r].status # "NONE",
         NEW row \in Row, rows' = [rows EXCEPT ![r] = row], queue' = queue,
         row.status # "NONE", row.contributor = rows[r].contributor,
         row.timestamp = rows[r].timestamp,
         row.status \in {"SUBMITTED", "AWAITING_ATTESTATION"} => row.attempts < MAX_ATTEMPTS,
         row.status \in {"AWAITING_ATTESTATION", "SETTLED"} =>
           \/ Known(r)
           \/ [root |-> r, contributor |-> row.contributor, timestamp |-> row.timestamp]
                 \in submitted',
         row.status = "SETTLED" => r \in sSettled' \cup bSettled'
  PROVE  StoreInv' /\ RowsKept
<1>1. rows' \in [Root -> Row] /\ rows'[r] = row /\ \A q \in Root \ {r} : rows'[q] = rows[q]
  BY DEF StoreInv
<1>2. \A q \in Root : rows'[q].status # "NONE" <=> rows[q].status # "NONE"
  BY <1>1
<1>3. ASSUME NEW q \in Root
      PROVE  /\ rows'[q].status \in {"SUBMITTED", "AWAITING_ATTESTATION"} =>
                  rows'[q].attempts < MAX_ATTEMPTS
             /\ rows'[q].status \in {"AWAITING_ATTESTATION", "SETTLED"} => Known(q)'
             /\ rows'[q].status = "SETTLED" => q \in sSettled' \cup bSettled'
  <2>1. CASE q = r
    <3>1. Known(r) => Known(r)'
      BY <1>1, KnownStays
    <3>2. [root |-> r, contributor |-> row.contributor, timestamp |-> row.timestamp]
            \in submitted' => Known(r)'
      BY <1>1 DEF Known
    <3> QED
      BY <1>1, <2>1, <3>1, <3>2
  <2>2. CASE q # r
    <3>1. rows'[q] = rows[q]
      BY <1>1, <2>2
    <3>2. Known(q) => Known(q)'
      BY <3>1, KnownStays
    <3> QED
      BY <3>1, <3>2 DEF StoreInv, ChainMoves
  <2> QED
    BY <2>1, <2>2
<1>4. RowsKept
  BY <1>1 DEF RowsKept
<1>5. {q \in Root : rows'[q].status # "NONE"} = {q \in Root : rows[q].status # "NONE"}
  BY <1>2
<1> QED
  BY <1>1, <1>3, <1>4, <1>5 DEF StoreInv

LEMMA MarkedSound ==
  ASSUME MAX_ATTEMPTS \in Nat, NEW row \in Row, NEW status \in Status,
         NEW attempts \in 0 .. MAX_ATTEMPTS, NEW delayed \in BOOLEAN
  PROVE  LET new == Marked(row, status, attempts, delayed)
         IN /\ new \in Row
            /\ new.status = status /\ new.attempts = attempts
            /\ new.contributor = row.contributor /\ new.timestamp = row.timestamp
<1> DEFINE one == [row EXCEPT !.status = status]
           two == [one EXCEPT !.attempts = attempts]
           three == [two EXCEPT !.delayed = delayed]
<1>1. /\ one \in Row /\ one.status = status
      /\ one.contributor = row.contributor /\ one.timestamp = row.timestamp
  BY DEF Row
<1>5. Marked(row, status, attempts, delayed) = three
  BY DEF Marked
<1> HIDE DEF one
<1>2. /\ two \in Row /\ two.status = status /\ two.attempts = attempts
      /\ two.contributor = row.contributor /\ two.timestamp = row.timestamp
  BY <1>1 DEF Row
<1> HIDE DEF two
<1>3. /\ three \in Row /\ three.status = status /\ three.attempts = attempts
      /\ three.contributor = row.contributor /\ three.timestamp = row.timestamp
  BY <1>2 DEF Row
<1> HIDE DEF three
<1> QED
  BY <1>3, <1>5

LEMMA FailureSound ==
  ASSUME ChainInv, StoreInv, ChainMoves, WorkerTyped,
         NEW r \in Root, rows[r].status # "NONE",
         worker.claimed[r] < MAX_ATTEMPTS, NEW permanent \in BOOLEAN,
         RecordFailure(r, permanent), queue' = queue
  PROVE  StoreInv' /\ RowsKept
<1> DEFINE attempts == worker.claimed[r] + 1
           terminal == permanent \/ attempts >= MAX_ATTEMPTS
           status == IF terminal THEN "REJECTED" ELSE rows[r].status
           delayed == ~terminal
           row == Marked(rows[r], status, attempts, delayed)
<1>1. MAX_ATTEMPTS \in Nat \ {0} /\ worker.claimed[r] \in 0 .. MAX_ATTEMPTS
  BY GatewayTyped DEF WorkerTyped
<1>2. attempts \in 0 .. MAX_ATTEMPTS /\ delayed \in BOOLEAN
      /\ (~terminal => attempts < MAX_ATTEMPTS)
  BY <1>1
<1>3. rows' = [rows EXCEPT ![r] = row]
  BY DEF RecordFailure
<1>4. rows[r] \in Row
  BY DEF StoreInv
<1> HIDE DEF attempts, terminal
<1>5. /\ status \in Status /\ status # "NONE"
      /\ terminal => status \notin {"SUBMITTED", "AWAITING_ATTESTATION"}
      /\ status \in {"SUBMITTED", "AWAITING_ATTESTATION", "SETTLED"} => status = rows[r].status
  BY <1>4 DEF Row, Status
<1> HIDE DEF status, delayed
<1>6. /\ row \in Row /\ row.attempts = attempts /\ row.status = status
      /\ row.contributor = rows[r].contributor /\ row.timestamp = rows[r].timestamp
  BY <1>1, <1>2, <1>4, <1>5, MarkedSound
<1> HIDE DEF row
<1>7. row.status \in {"AWAITING_ATTESTATION", "SETTLED"} => Known(r)
  BY <1>5, <1>6 DEF StoreInv
<1>8. row.status = "SETTLED" => r \in sSettled' \cup bSettled'
  BY <1>5, <1>6 DEF StoreInv, ChainMoves
<1>9. row.status \in {"SUBMITTED", "AWAITING_ATTESTATION"} => row.attempts < MAX_ATTEMPTS
  BY <1>2, <1>5, <1>6
<1> QED
  BY <1>3, <1>5, <1>6, <1>7, <1>8, <1>9, WriteSound

LEMMA AdvanceSound ==
  ASSUME ChainInv, StoreInv, ChainMoves, NEW r \in Root, rows[r].status # "NONE",
         NEW status \in {"AWAITING_ATTESTATION", "SETTLED"},
         Advanced(r, status), queue' = queue,
         \/ Known(r)
         \/ [root |-> r, contributor |-> rows[r].contributor, timestamp |-> rows[r].timestamp]
               \in submitted',
         status = "SETTLED" => r \in sSettled' \cup bSettled'
  PROVE  StoreInv' /\ RowsKept
<1> DEFINE row == Marked(rows[r], status, 0, FALSE)
<1>1. MAX_ATTEMPTS \in Nat \ {0} /\ 0 \in 0 .. MAX_ATTEMPTS /\ 0 < MAX_ATTEMPTS
  BY GatewayTyped
<1>2. rows[r] \in Row /\ status \in Status
  BY DEF StoreInv, Status
<1>3. row \in Row /\ row.attempts = 0 /\ row.status = status
      /\ row.contributor = rows[r].contributor /\ row.timestamp = rows[r].timestamp
  <2>1. \A delayed \in BOOLEAN :
          LET new == Marked(rows[r], status, 0, delayed)
          IN /\ new \in Row /\ new.attempts = 0 /\ new.status = status
             /\ new.contributor = rows[r].contributor /\ new.timestamp = rows[r].timestamp
    BY <1>1, <1>2, MarkedSound
  <2>2. FALSE \in BOOLEAN
    OBVIOUS
  <2> QED
    BY <2>1, <2>2
<1>4. rows' = [rows EXCEPT ![r] = row]
  BY DEF Advanced
<1> HIDE DEF row
<1> QED
  BY <1>1, <1>3, <1>4, WriteSound

LEMMA BackoffSound ==
  ASSUME StoreInv, ChainMoves, NEW r \in Root, rows[r].delayed,
         rows' = [rows EXCEPT ![r].delayed = FALSE], queue' = queue
  PROVE  StoreInv' /\ RowsKept
<1> DEFINE row == [rows[r] EXCEPT !.delayed = FALSE]
<1>1. rows[r] \in Row
  BY DEF StoreInv
<1>2. row \in Row /\ row.attempts = rows[r].attempts /\ row.status = rows[r].status
      /\ row.contributor = rows[r].contributor /\ row.timestamp = rows[r].timestamp
  BY <1>1 DEF Row
<1>3. rows' = [rows EXCEPT ![r] = row]
  OBVIOUS
<1> HIDE DEF row
<1>4. CASE rows[r].status # "NONE"
  BY <1>2, <1>3, <1>4, WriteSound DEF StoreInv, ChainMoves
<1>5. CASE rows[r].status = "NONE"
  <2>1. rows' \in [Root -> Row] /\ rows'[r] = row /\ \A q \in Root \ {r} : rows'[q] = rows[q]
    BY <1>2, <1>3 DEF StoreInv
  <2>2. \A q \in Root : Known(q) => Known(q)'
    BY <1>2, <2>1, KnownStays
  <2>3. \A q \in Root : rows'[q].status = rows[q].status /\ rows'[q].attempts = rows[q].attempts
    BY <1>2, <2>1
  <2>4. RowsKept
    BY <1>2, <2>1 DEF RowsKept
  <2>5. {q \in Root : rows'[q].status # "NONE"} = {q \in Root : rows[q].status # "NONE"}
    BY <2>3
  <2> QED
    BY <2>1, <2>2, <2>3, <2>4, <2>5 DEF StoreInv, ChainMoves
<1> QED
  BY <1>4, <1>5

---------------------------------------------------------------------------
(* The tick.                                                               *)

LEMMA HeldRoots ==
  ASSUME WorkerTyped
  PROVE  Held \subseteq Root
BY RangeOfSeq DEF WorkerTyped, Held

\* What holds of a row goes on holding of it.
LEMMA RowStays ==
  ASSUME RowsKept, ChainMoves, NEW r \in Root, rows[r].status # "NONE"
  PROVE  rows'[r].status # "NONE" /\ (Known(r) => Known(r)') /\ RelayTx(r)' = RelayTx(r)
BY KnownStays DEF RowsKept, RelayTx

\* A tick that takes on no more rows has them in hand as before.
LEMMA HeldShrinks ==
  ASSUME WorkerTyped, HeldInv, RowsKept, ChainMoves, WorkerTyped', AwaitedInv',
         Held' \subseteq Held, worker'.claimed = worker.claimed,
         worker'.stage = "relay" <=> worker.stage = "relay",
         worker'.stage \in BeforeClaims => worker'.todo = <<>>,
         worker'.stage \in BeforeProofs => worker'.kept = <<>> /\ worker'.group = <<>>,
         worker'.stage = "receipt" => worker'.won \subseteq sSettled' \cup bSettled'
  PROVE  TickInv'
<1>1. ASSUME NEW r \in Held'
      PROVE  /\ rows'[r].status # "NONE" /\ worker'.claimed[r] < MAX_ATTEMPTS
             /\ worker'.stage # "relay" => Known(r)'
  <2>1. r \in Root /\ r \in Held
    BY HeldRoots
  <2> QED
    BY <2>1, RowStays DEF HeldInv
<1>2. HeldInv'
  BY <1>1 DEF HeldInv
<1> QED
  BY <1>2 DEF TickInv

\* It waits for nothing while it is not sending.
LEMMA NothingAwaited ==
  ASSUME AwaitedInv, worker.stage \notin {"relay", "batch", "single"}
  PROVE  worker.awaited = NoTx
BY DEF AwaitedInv

LEMMA TickSame ==
  ASSUME TickInv, RowsKept, ChainMoves, worker' = worker
  PROVE  TickInv'
<1>1. WorkerTyped'
  BY DEF TickInv, WorkerTyped, ChainMoves
<1>2. AwaitedInv'
  <2>1. CASE worker.stage = "relay" /\ worker.todo # <<>>
    <3>1. Head(worker.todo) \in Held /\ Head(worker.todo) \in Root
      BY <2>1, RangeHeadTail DEF TickInv, WorkerTyped, Held
    <3>2. RelayTx(Head(worker.todo))' = RelayTx(Head(worker.todo))
      <4> DEFINE r == Head(worker.todo)
      <4>1. r \in Root /\ rows[r].status # "NONE" /\ r' = r
        BY <3>1 DEF TickInv, HeldInv
      <4> HIDE DEF r
      <4>2. RelayTx(r)' = RelayTx(r)
        BY <4>1 DEF RelayTx, RowsKept
      <4> QED
        BY <4>2 DEF r
    <3> QED
      BY <2>1, <3>2 DEF TickInv, AwaitedInv
  <2>2. CASE ~(worker.stage = "relay" /\ worker.todo # <<>>)
    BY <2>2 DEF TickInv, AwaitedInv, Settlement
  <2> QED
    BY <2>1, <2>2
<1>3. Held' = Held
  BY DEF Held
<1> QED
  BY <1>1, <1>2, <1>3, HeldShrinks DEF TickInv, HeldInv, ChainMoves

LEMMA TickRests ==
  ASSUME ChainInv, worker' = Resting
  PROVE  TickInv'
<1>1. /\ DOMAIN worker' = Fields /\ worker'.stage = "idle" /\ worker'.unpaid = {}
      /\ worker'.todo = <<>> /\ worker'.kept = <<>> /\ worker'.group = <<>>
      /\ worker'.won = {} /\ worker'.awaited = NoTx
      /\ worker'.claimed = [r \in Root |-> 0]
  BY DEF Resting, Fields
<1>2. WorkerTyped'
  BY <1>1, GatewayTyped, EmptySeq DEF WorkerTyped, Stage
<1>3. Held' = {}
  BY <1>1, RangeEmpty DEF Held
<1> QED
  BY <1>1, <1>2, <1>3 DEF TickInv, HeldInv, AwaitedInv

LEMMA TickNextRow ==
  ASSUME TickInv, RowsKept, ChainMoves, worker.todo # <<>>, NextRow
  PROVE  TickInv'
<1>1. /\ worker.todo \in Seq(Root) /\ Tail(worker.todo) \in Seq(Root)
      /\ Range(Tail(worker.todo)) \subseteq Range(worker.todo)
  BY RangeHeadTail DEF TickInv, WorkerTyped
<1>2. /\ DOMAIN worker' = Fields /\ worker'.stage = worker.stage
      /\ worker'.unpaid = worker.unpaid /\ worker'.todo = Tail(worker.todo)
      /\ worker'.kept = worker.kept /\ worker'.group = worker.group
      /\ worker'.won = worker.won /\ worker'.awaited = NoTx
      /\ worker'.claimed = worker.claimed
  BY DEF NextRow, TickInv, WorkerTyped, Fields
<1>3. WorkerTyped'
  BY <1>1, <1>2 DEF TickInv, WorkerTyped, ChainMoves
<1>4. AwaitedInv'
  BY <1>2 DEF AwaitedInv
<1>5. Held' \subseteq Held
  BY <1>1, <1>2 DEF Held
<1>6. worker.stage \notin BeforeClaims
  BY DEF TickInv, HeldInv
<1> QED
  BY <1>2, <1>3, <1>4, <1>5, <1>6, HeldShrinks DEF TickInv, HeldInv, ChainMoves

LEMMA TickKeepsRow ==
  ASSUME TickInv, RowsKept, ChainMoves, NEW r,
         At("prepare", r) \/ At("check", r),
         worker' = [worker EXCEPT !.todo = Tail(@), !.kept = Append(@, r)]
  PROVE  TickInv'
<1>1. /\ worker.todo \in Seq(Root) /\ Tail(worker.todo) \in Seq(Root)
      /\ Range(Tail(worker.todo)) \subseteq Range(worker.todo)
      /\ r \in Root /\ r \in Range(worker.todo)
  BY RangeHeadTail DEF TickInv, WorkerTyped, At
<1>2. /\ DOMAIN worker' = Fields /\ worker'.stage = worker.stage
      /\ worker'.unpaid = worker.unpaid /\ worker'.todo = Tail(worker.todo)
      /\ worker'.kept = Append(worker.kept, r) /\ worker'.group = worker.group
      /\ worker'.won = worker.won /\ worker'.awaited = worker.awaited
      /\ worker'.claimed = worker.claimed
  BY DEF TickInv, WorkerTyped, Fields
<1>3. /\ worker'.kept \in Seq(Root)
      /\ Range(worker'.kept) = Range(worker.kept) \cup {r}
  BY <1>1, <1>2, RangeAppend DEF TickInv, WorkerTyped
<1>4. WorkerTyped'
  BY <1>1, <1>2, <1>3 DEF TickInv, WorkerTyped, ChainMoves
<1>5. worker.stage \in {"prepare", "check"}
  BY DEF At
<1>6. AwaitedInv'
  BY <1>2, <1>5, NothingAwaited DEF TickInv, AwaitedInv
<1>7. Held' \subseteq Held
  BY <1>1, <1>2, <1>3 DEF Held
<1> QED
  BY <1>2, <1>4, <1>5, <1>6, <1>7, HeldShrinks DEF TickInv, HeldInv, BeforeProofs, BeforeClaims

LEMMA TickFallsBack ==
  ASSUME TickInv, RowsKept, ChainMoves, worker.stage \in {"batch", "receipt"}, FallBack
  PROVE  TickInv'
<1>1. /\ DOMAIN worker' = Fields /\ worker'.stage = "single"
      /\ worker'.unpaid = worker.unpaid /\ worker'.todo = worker.group
      /\ worker'.kept = worker.kept /\ worker'.group = worker.group
      /\ worker'.won = {} /\ worker'.awaited = NoTx
      /\ worker'.claimed = worker.claimed
  BY DEF FallBack, TickInv, WorkerTyped, Fields
<1>2. WorkerTyped'
  BY <1>1 DEF TickInv, WorkerTyped, ChainMoves, Stage
<1>3. AwaitedInv'
  BY <1>1 DEF AwaitedInv
<1>4. Held' \subseteq Held
  BY <1>1 DEF Held
<1> QED
  BY <1>1, <1>2, <1>3, <1>4, HeldShrinks DEF TickInv, BeforeProofs, BeforeClaims

---------------------------------------------------------------------------
(* The steps of the worker.                                                *)

LEMMA ChainSame ==
  ASSUME ChainInv, UNCHANGED chainVars
  PROVE  ChainInv' /\ ChainMoves
BY DEF ChainInv, ChainMoves, chainVars, sourceVars, singleVars, batchVars

LEMMA NothingWritten ==
  ASSUME WorkerInv, UNCHANGED <<chainVars, storeVars>>
  PROVE  ChainInv' /\ ChainMoves /\ StoreInv' /\ RowsKept
BY ChainSame, StoreSame DEF WorkerInv

LEMMA CountSame ==
  ASSUME CountInv, ChainMoves, Local
  PROVE  CountInv'
BY DEF CountInv, ChainMoves, Local, MaxCrashes

\* The transaction it waited for is given up on.
LEMMA CountGivesUp ==
  ASSUME CountInv, TickInv, ChainMoves, worker.awaited # NoTx,
         stray' = Append(stray, worker.awaited), UNCHANGED <<ticksSinceReconcile, crashes>>
  PROVE  CountInv'
<1>1. worker.awaited \in SentTx
  BY DEF TickInv, WorkerTyped
<1>2. stray' \in Seq(SentTx)
  BY <1>1, AppendProperties DEF CountInv
<1> QED
  BY <1>2 DEF CountInv, ChainMoves, MaxCrashes

\* The row a loop is at.
LEMMA AtRow ==
  ASSUME WorkerInv, NEW stage, NEW r, At(stage, r)
  PROVE  /\ r \in Root /\ r \in Held /\ worker.stage = stage /\ worker.todo # <<>>
         /\ r = Head(worker.todo)
         /\ rows[r].status # "NONE" /\ worker.claimed[r] < MAX_ATTEMPTS
         /\ stage # "relay" => Known(r) /\ r \in registered
<1>1. r \in Root /\ r \in Held
  BY RangeHeadTail DEF At, WorkerInv, TickInv, WorkerTyped, Held
<1>2. Known(r) => r \in registered
  BY DEF Known, WorkerInv, ChainInv
<1> QED
  BY <1>1, <1>2 DEF At, WorkerInv, TickInv, HeldInv

\* A failure of that row is recorded, and the loop moves on.
LEMMA RowFails ==
  ASSUME WorkerInv, NEW stage, NEW r, At(stage, r), ChainInv', ChainMoves, CountInv',
         NEW permanent \in BOOLEAN, RecordFailure(r, permanent), queue' = queue, NextRow
  PROVE  WorkerInv'
<1>1. StoreInv' /\ RowsKept
  BY AtRow, FailureSound DEF WorkerInv, TickInv
<1>2. TickInv'
  BY <1>1, AtRow, TickNextRow DEF WorkerInv
<1> QED
  BY <1>1, <1>2 DEF WorkerInv

\* It is closed or moves on, and so does the loop.
LEMMA RowAdvances ==
  ASSUME WorkerInv, NEW stage, NEW r, At(stage, r), ChainInv', ChainMoves, CountInv',
         NEW status \in {"AWAITING_ATTESTATION", "SETTLED"},
         Advanced(r, status), queue' = queue, NextRow,
         \/ Known(r)
         \/ [root |-> r, contributor |-> rows[r].contributor, timestamp |-> rows[r].timestamp]
               \in submitted',
         status = "SETTLED" => r \in sSettled' \cup bSettled'
  PROVE  WorkerInv'
<1>1. StoreInv' /\ RowsKept
  BY AtRow, AdvanceSound DEF WorkerInv
<1>2. TickInv'
  BY <1>1, AtRow, TickNextRow DEF WorkerInv
<1> QED
  BY <1>1, <1>2 DEF WorkerInv

LEMMA StartTickSound ==
  ASSUME WorkerInv, StartTick
  PROVE  WorkerInv'
<1>1. ChainInv' /\ ChainMoves /\ StoreInv' /\ RowsKept
  BY NothingWritten DEF StartTick
<1>2. PICK stage \in {"reconcile", "recover"} : worker' = [worker EXCEPT !.stage = stage]
  BY DEF StartTick
<1>3. /\ DOMAIN worker' = Fields /\ worker'.stage = stage
      /\ worker'.unpaid = worker.unpaid /\ worker'.todo = worker.todo
      /\ worker'.kept = worker.kept /\ worker'.group = worker.group
      /\ worker'.won = worker.won /\ worker'.awaited = worker.awaited
      /\ worker'.claimed = worker.claimed
  BY <1>2 DEF WorkerInv, TickInv, WorkerTyped, Fields
<1>4. WorkerTyped'
  BY <1>1, <1>3 DEF WorkerInv, TickInv, WorkerTyped, ChainMoves, Stage
<1>5. AwaitedInv'
  BY <1>3, NothingAwaited DEF WorkerInv, TickInv, AwaitedInv, StartTick
<1>6. Held' = Held
  BY <1>3 DEF Held
<1>7. TickInv'
  BY <1>1, <1>3, <1>4, <1>5, <1>6, HeldShrinks
     DEF WorkerInv, TickInv, HeldInv, StartTick, BeforeProofs, BeforeClaims
<1>8. CountInv'
  <2>1. RECONCILE_EVERY_TICKS \in Nat \ {0}
    BY GatewayTyped DEF WorkerInv
  <2>2. ticksSinceReconcile' \in 0 .. RECONCILE_EVERY_TICKS
    BY <2>1 DEF StartTick, WorkerInv, CountInv
  <2> QED
    BY <1>1, <2>2 DEF StartTick, WorkerInv, CountInv, ChainMoves, MaxCrashes
<1> QED
  BY <1>1, <1>7, <1>8 DEF WorkerInv

LEMMA ReconcileReadSound ==
  ASSUME WorkerInv, ReconcileRead
  PROVE  WorkerInv'
<1>1. ChainInv' /\ ChainMoves /\ StoreInv' /\ RowsKept /\ CountInv'
  BY NothingWritten, CountSame DEF ReconcileRead, ReconcileReads, WorkerInv
<1>2. PICK unpaid \in SUBSET registered :
        worker' = [worker EXCEPT !.stage = "recover", !.unpaid = unpaid]
  BY DEF ReconcileRead, ReconcileReads, Unpaid
<1>3. /\ DOMAIN worker' = Fields /\ worker'.stage = "recover"
      /\ worker'.unpaid = unpaid /\ worker'.todo = worker.todo
      /\ worker'.kept = worker.kept /\ worker'.group = worker.group
      /\ worker'.won = worker.won /\ worker'.awaited = worker.awaited
      /\ worker'.claimed = worker.claimed
  BY <1>2 DEF WorkerInv, TickInv, WorkerTyped, Fields
<1>4. WorkerTyped'
  BY <1>1, <1>3 DEF WorkerInv, TickInv, WorkerTyped, ChainMoves, Stage
<1>5. AwaitedInv'
  BY <1>3, NothingAwaited DEF WorkerInv, TickInv, AwaitedInv, ReconcileRead, ReconcileReads
<1>6. Held' = Held
  BY <1>3 DEF Held
<1>7. TickInv'
  BY <1>1, <1>3, <1>4, <1>5, <1>6, HeldShrinks
     DEF WorkerInv, TickInv, HeldInv, ReconcileRead, ReconcileReads, BeforeProofs, BeforeClaims
<1> QED
  BY <1>1, <1>7 DEF WorkerInv

\* A registered root has its event, and a row made from it tells the truth.
LEMMA RecoverRowSound ==
  ASSUME WorkerInv, NEW r \in Root, RecoverRow(r)
  PROVE  WorkerInv'
<1>1. ChainInv' /\ ChainMoves /\ CountInv'
  BY ChainSame, CountSame DEF RecoverRow, WorkerInv
<1>2. StoreInv' /\ RowsKept
  <2>1. CASE rows[r].status = "NONE"
    <3> DEFINE e == CHOOSE e \in submitted : e.root = r
    <3>1. e \in submitted /\ e.root = r
      BY DEF RecoverRow, WorkerInv, ChainInv, TickInv, WorkerTyped
    <3>2. Inserted(r, "AWAITING_ATTESTATION", e.contributor, e.timestamp)
      BY <2>1 DEF RecoverRow
    <3> HIDE DEF e
    <3>3. /\ e.contributor \in Contributor /\ e.timestamp \in 0 .. MaxTime
          /\ [root |-> r, contributor |-> e.contributor, timestamp |-> e.timestamp] \in submitted'
      BY <1>1, <3>1 DEF WorkerInv, ChainInv, ChainMoves
    <3> QED
      BY <1>1, <2>1, <3>2, <3>3, InsertSound DEF WorkerInv
  <2>2. CASE rows[r].status # "NONE"
    BY <1>1, <2>2, StoreSame DEF RecoverRow, WorkerInv
  <2> QED
    BY <2>1, <2>2
<1>3. /\ DOMAIN worker' = Fields /\ worker'.stage = worker.stage
      /\ worker'.unpaid = worker.unpaid \ {r} /\ worker'.todo = worker.todo
      /\ worker'.kept = worker.kept /\ worker'.group = worker.group
      /\ worker'.won = worker.won /\ worker'.awaited = worker.awaited
      /\ worker'.claimed = worker.claimed
  BY DEF RecoverRow, WorkerInv, TickInv, WorkerTyped, Fields
<1>4. WorkerTyped'
  BY <1>1, <1>3 DEF WorkerInv, TickInv, WorkerTyped, ChainMoves
<1>5. AwaitedInv'
  BY <1>3, NothingAwaited DEF WorkerInv, TickInv, AwaitedInv, RecoverRow
<1>6. Held' = Held
  BY <1>3 DEF Held
<1>7. TickInv'
  BY <1>1, <1>2, <1>3, <1>4, <1>5, <1>6, HeldShrinks
     DEF WorkerInv, TickInv, HeldInv, RecoverRow, BeforeProofs, BeforeClaims
<1> QED
  BY <1>1, <1>2, <1>7 DEF WorkerInv

LEMMA AttemptsTyped ==
  ASSUME StoreInv
  PROVE  Attempts \in [Root -> 0 .. MAX_ATTEMPTS] /\ \A r \in Root : Attempts[r] = rows[r].attempts
BY DEF StoreInv, Attempts, Row

LEMMA ClaimSubmittedSound ==
  ASSUME WorkerInv, ClaimSubmitted
  PROVE  WorkerInv'
<1>1. ChainInv' /\ ChainMoves /\ StoreInv' /\ RowsKept /\ CountInv' /\ UNCHANGED rows
  BY NothingWritten, CountSame DEF ClaimSubmitted, WorkerInv, storeVars
<1>2. PICK claimed \in Workable("SUBMITTED") :
        worker' = [worker EXCEPT !.stage = "relay", !.todo = claimed, !.claimed = Attempts]
  BY DEF ClaimSubmitted
<1>3. claimed \in Seq(Root) /\ Range(claimed) \subseteq Due("SUBMITTED")
  BY WorkableSound, GatewayTyped DEF WorkerInv, StoreInv
<1>4. /\ DOMAIN worker' = Fields /\ worker'.stage = "relay"
      /\ worker'.unpaid = worker.unpaid /\ worker'.todo = claimed
      /\ worker'.kept = worker.kept /\ worker'.group = worker.group
      /\ worker'.won = worker.won /\ worker'.awaited = worker.awaited
      /\ worker'.claimed = Attempts
  BY <1>2 DEF WorkerInv, TickInv, WorkerTyped, Fields
<1>5. WorkerTyped'
  BY <1>1, <1>3, <1>4, AttemptsTyped DEF WorkerInv, TickInv, WorkerTyped, ChainMoves, Stage
<1>6. AwaitedInv'
  BY <1>4, NothingAwaited DEF WorkerInv, TickInv, AwaitedInv, ClaimSubmitted
<1>7. worker.kept = <<>> /\ worker.group = <<>>
  BY DEF WorkerInv, TickInv, HeldInv, ClaimSubmitted, BeforeProofs, BeforeClaims
<1>8. Held' = Range(claimed)
  BY <1>4, <1>7, RangeEmpty DEF Held
<1>9. ASSUME NEW r \in Held'
      PROVE  rows'[r].status # "NONE" /\ worker'.claimed[r] < MAX_ATTEMPTS
  <2>1. r \in Root /\ rows[r].status = "SUBMITTED"
    BY <1>3, <1>8 DEF Due
  <2> QED
    BY <1>1, <1>4, <2>1, AttemptsTyped DEF WorkerInv, StoreInv
<1>10. HeldInv'
  BY <1>4, <1>7, <1>9 DEF HeldInv, BeforeClaims
<1> QED
  BY <1>1, <1>5, <1>6, <1>10 DEF WorkerInv, TickInv

LEMMA ClaimAwaitingSound ==
  ASSUME WorkerInv, ClaimAwaiting
  PROVE  WorkerInv'
<1>1. /\ ChainInv' /\ ChainMoves /\ StoreInv' /\ RowsKept /\ CountInv'
      /\ UNCHANGED <<rows, submitted>>
  BY NothingWritten, CountSame
     DEF ClaimAwaiting, WorkerInv, storeVars, chainVars, sourceVars
<1>2. PICK claimed \in Workable("AWAITING_ATTESTATION") :
        \E ready \in Ordered({r \in Range(claimed) : SourceTxOf(r) \in attested}, claimed) :
          worker' = [worker EXCEPT !.stage = "prepare", !.todo = ready, !.claimed = Attempts]
  BY DEF ClaimAwaiting
<1>3. claimed \in Seq(Root) /\ Range(claimed) \subseteq Due("AWAITING_ATTESTATION")
  BY WorkableSound, GatewayTyped DEF WorkerInv, StoreInv
<1>4. PICK ready \in Ordered({r \in Range(claimed) : SourceTxOf(r) \in attested}, claimed) :
        worker' = [worker EXCEPT !.stage = "prepare", !.todo = ready, !.claimed = Attempts]
  BY <1>2
<1>5. ready \in Seq(Root) /\ Range(ready) \subseteq Due("AWAITING_ATTESTATION")
  <2>1. {r \in Range(claimed) : SourceTxOf(r) \in attested} \in SUBSET Root
    BY <1>3 DEF Due
  <2> QED
    BY <1>3, <2>1, OrderedSound
<1>6. /\ DOMAIN worker' = Fields /\ worker'.stage = "prepare"
      /\ worker'.unpaid = worker.unpaid /\ worker'.todo = ready
      /\ worker'.kept = worker.kept /\ worker'.group = worker.group
      /\ worker'.won = worker.won /\ worker'.awaited = worker.awaited
      /\ worker'.claimed = Attempts
  BY <1>4 DEF WorkerInv, TickInv, WorkerTyped, Fields
<1>7. WorkerTyped'
  BY <1>1, <1>5, <1>6, AttemptsTyped DEF WorkerInv, TickInv, WorkerTyped, ChainMoves, Stage
<1>8. worker.awaited = NoTx
  BY DEF WorkerInv, TickInv, AwaitedInv, ClaimAwaiting, Done
<1>9. worker.kept = <<>> /\ worker.group = <<>>
  BY DEF WorkerInv, TickInv, HeldInv, ClaimAwaiting, Done, BeforeProofs
<1>10. Held' = Range(ready)
  BY <1>6, <1>9, RangeEmpty DEF Held
<1>11. ASSUME NEW r \in Held'
       PROVE  rows'[r].status # "NONE" /\ worker'.claimed[r] < MAX_ATTEMPTS /\ Known(r)'
  <2>1. r \in Root /\ rows[r].status = "AWAITING_ATTESTATION"
    BY <1>5, <1>10 DEF Due
  <2>2. Known(r)'
    BY <1>1, <2>1 DEF WorkerInv, StoreInv, Known
  <2> QED
    BY <1>1, <1>6, <2>1, <2>2, AttemptsTyped DEF WorkerInv, StoreInv
<1>12. HeldInv'
  BY <1>6, <1>11 DEF HeldInv, BeforeProofs, BeforeClaims
<1>13. AwaitedInv'
  BY <1>6, <1>8 DEF AwaitedInv
<1> QED
  BY <1>1, <1>7, <1>12, <1>13 DEF WorkerInv, TickInv

\* A transaction is sent, of the row a loop is at or of the group.
LEMMA SendSound ==
  ASSUME WorkerInv, NEW tx \in SentTx, worker' = [worker EXCEPT !.awaited = tx],
         UNCHANGED <<chainVars, storeVars>>, Local,
         \/ /\ worker.stage = "relay" /\ worker.todo # <<>>
            /\ tx = RelayTx(Head(worker.todo))
         \/ worker.stage = "batch" /\ tx = Settlement("batch", worker.group)
         \/ /\ worker.stage = "single" /\ worker.todo # <<>>
            /\ tx = Settlement("single", <<Head(worker.todo)>>)
  PROVE  WorkerInv'
<1>1. /\ ChainInv' /\ ChainMoves /\ StoreInv' /\ RowsKept /\ CountInv' /\ UNCHANGED rows
  BY NothingWritten, CountSame DEF WorkerInv, storeVars
<1>2. /\ DOMAIN worker' = Fields /\ worker'.stage = worker.stage
      /\ worker'.unpaid = worker.unpaid /\ worker'.todo = worker.todo
      /\ worker'.kept = worker.kept /\ worker'.group = worker.group
      /\ worker'.won = worker.won /\ worker'.awaited = tx
      /\ worker'.claimed = worker.claimed
  BY DEF WorkerInv, TickInv, WorkerTyped, Fields
<1>3. WorkerTyped'
  BY <1>1, <1>2 DEF WorkerInv, TickInv, WorkerTyped, ChainMoves
<1>4. AwaitedInv'
  BY <1>1, <1>2 DEF AwaitedInv, RelayTx, Settlement
<1>5. Held' = Held
  BY <1>2 DEF Held
<1>6. TickInv'
  BY <1>1, <1>2, <1>3, <1>4, <1>5, HeldShrinks
     DEF WorkerInv, TickInv, HeldInv, BeforeProofs, BeforeClaims
<1> QED
  BY <1>1, <1>6 DEF WorkerInv

LEMMA OneRoot ==
  ASSUME NEW r \in Root
  PROVE  <<r>> \in Seq(Root) /\ <<r>> # <<>> /\ <<r>>[1] = r
OBVIOUS

LEMMA RelaySendSound ==
  ASSUME WorkerInv, NEW r \in Root, RelaySend(r)
  PROVE  WorkerInv'
<1>1. RelayTx(r) \in SentTx
  BY OneRoot DEF WorkerInv, StoreInv, Row, RelayTx, SentTx, Tx
<1> QED
  BY <1>1, SendSound DEF RelaySend, At

LEMMA SettlementTyped ==
  ASSUME ChainInv, NEW roots \in Seq(Root), NEW kind \in {"single", "batch"}
  PROVE  Settlement(kind, roots) \in SentTx
<1>1. 0 \in 0 .. MaxTime
  BY GatewayTyped
<1> QED
  BY <1>1 DEF Settlement, SentTx, Tx

LEMMA BatchSendSound ==
  ASSUME WorkerInv, BatchSend
  PROVE  WorkerInv'
<1>1. Settlement("batch", worker.group) \in SentTx
  BY SettlementTyped DEF WorkerInv, TickInv, WorkerTyped
<1> QED
  BY <1>1, SendSound DEF BatchSend

LEMMA SingleSendSound ==
  ASSUME WorkerInv, NEW r \in Root, SingleSend(r)
  PROVE  WorkerInv'
<1>1. Settlement("single", <<r>>) \in SentTx
  BY SettlementTyped, OneRoot DEF WorkerInv
<1> QED
  BY <1>1, SendSound DEF SingleSend, At

LEMMA StartChecksSound ==
  ASSUME WorkerInv, StartChecks
  PROVE  WorkerInv'
<1>1. ChainInv' /\ ChainMoves /\ StoreInv' /\ RowsKept /\ CountInv'
  BY NothingWritten, CountSame DEF StartChecks, WorkerInv
<1>2. /\ DOMAIN worker' = Fields /\ worker'.stage = "check"
      /\ worker'.unpaid = worker.unpaid /\ worker'.todo = worker.kept
      /\ worker'.kept = <<>> /\ worker'.group = worker.group
      /\ worker'.won = worker.won /\ worker'.awaited = worker.awaited
      /\ worker'.claimed = worker.claimed
  BY DEF StartChecks, WorkerInv, TickInv, WorkerTyped, Fields
<1>3. WorkerTyped'
  BY <1>1, <1>2, EmptySeq DEF WorkerInv, TickInv, WorkerTyped, ChainMoves, Stage
<1>4. AwaitedInv'
  BY <1>2, NothingAwaited DEF WorkerInv, TickInv, AwaitedInv, StartChecks, Done
<1>5. Held' \subseteq Held
  BY <1>2, RangeEmpty DEF Held
<1>6. TickInv'
  BY <1>1, <1>2, <1>3, <1>4, <1>5, HeldShrinks
     DEF WorkerInv, TickInv, StartChecks, Done, BeforeProofs, BeforeClaims
<1> QED
  BY <1>1, <1>6 DEF WorkerInv

\* The group and the rest share out the rows kept.
LEMMA PickGroupParts ==
  ASSUME WorkerInv, PickGroup
  PROVE  \E group \in Seq(Root), rest \in Seq(Root) :
           /\ Range(group) \cup Range(rest) = Range(worker.kept)
           /\ Range(group) \cap Range(rest) = {}
           /\ \E same \in SUBSET Range(worker.kept) :
                group \in Ordered(same, worker.kept)
                /\ rest \in Ordered(Range(worker.kept) \ same, worker.kept)
           /\ \E stage \in {"batch", "single"} :
                worker' = [worker EXCEPT !.kept = rest, !.group = group, !.todo = group,
                                         !.stage = stage]
<1>1. PICK same \in SUBSET Range(worker.kept) :
        \E group \in Ordered(same, worker.kept),
           rest \in Ordered(Range(worker.kept) \ same, worker.kept) :
          worker' = [worker EXCEPT !.kept = rest, !.group = group, !.todo = group,
                       !.stage = IF BatchConfigured /\ Len(group) > 1
                                 THEN "batch" ELSE "single"]
  BY DEF PickGroup
<1>2. PICK group \in Ordered(same, worker.kept),
           rest \in Ordered(Range(worker.kept) \ same, worker.kept) :
        worker' = [worker EXCEPT !.kept = rest, !.group = group, !.todo = group,
                     !.stage = IF BatchConfigured /\ Len(group) > 1
                               THEN "batch" ELSE "single"]
  BY <1>1
<1>3. worker.kept \in Seq(Root) /\ Range(worker.kept) \subseteq Root
  BY RangeOfSeq DEF WorkerInv, TickInv, WorkerTyped
<1>4. /\ group \in Seq(Root) /\ Range(group) = same
      /\ rest \in Seq(Root) /\ Range(rest) = Range(worker.kept) \ same
  BY <1>3, OrderedSound
<1>5. (IF BatchConfigured /\ Len(group) > 1 THEN "batch" ELSE "single") \in {"batch", "single"}
  OBVIOUS
<1> QED
  BY <1>2, <1>4, <1>5

LEMMA PickGroupSound ==
  ASSUME WorkerInv, PickGroup
  PROVE  WorkerInv'
<1>1. ChainInv' /\ ChainMoves /\ StoreInv' /\ RowsKept /\ CountInv'
  BY NothingWritten, CountSame DEF PickGroup, WorkerInv
<1>2. PICK group \in Seq(Root), rest \in Seq(Root), stage \in {"batch", "single"} :
        /\ Range(group) \cup Range(rest) = Range(worker.kept)
        /\ worker' = [worker EXCEPT !.kept = rest, !.group = group, !.todo = group,
                                    !.stage = stage]
  BY PickGroupParts
<1>3. /\ DOMAIN worker' = Fields /\ worker'.stage = stage
      /\ worker'.unpaid = worker.unpaid /\ worker'.todo = group
      /\ worker'.kept = rest /\ worker'.group = group
      /\ worker'.won = worker.won /\ worker'.awaited = worker.awaited
      /\ worker'.claimed = worker.claimed
  BY <1>2 DEF WorkerInv, TickInv, WorkerTyped, Fields
<1>4. WorkerTyped'
  BY <1>1, <1>3 DEF WorkerInv, TickInv, WorkerTyped, ChainMoves, Stage
<1>5. worker.awaited = NoTx /\ worker.stage \in {"check", "receipt", "single"}
  BY DEF PickGroup, BetweenGroups, Done, WorkerInv, TickInv, AwaitedInv
<1>6. AwaitedInv'
  BY <1>3, <1>5 DEF AwaitedInv
<1>7. Held' \subseteq Held
  BY <1>2, <1>3 DEF Held
<1>8. TickInv'
  BY <1>1, <1>3, <1>4, <1>5, <1>6, <1>7, HeldShrinks
     DEF WorkerInv, TickInv, BeforeProofs, BeforeClaims
<1> QED
  BY <1>1, <1>8 DEF WorkerInv

LEMMA GroupRegistered ==
  ASSUME WorkerInv, worker.stage \in {"batch", "receipt"}
  PROVE  Range(worker.group) \subseteq registered
<1>1. \A r \in Range(worker.group) : Known(r)
  BY DEF WorkerInv, TickInv, HeldInv, Held
<1> QED
  BY <1>1 DEF Known, WorkerInv, ChainInv

LEMMA BatchMinedSound ==
  ASSUME WorkerInv, BatchMined
  PROVE  WorkerInv'
<1>1. worker.stage = "batch" /\ worker.awaited = Settlement("batch", worker.group)
  BY DEF BatchMined, WorkerInv, TickInv, AwaitedInv
<1>2. worker.group \in Seq(Root) /\ Range(worker.group) \subseteq registered
  BY <1>1, GroupRegistered DEF WorkerInv, TickInv, WorkerTyped
<1> DEFINE won == {l.root : l \in B!Accepted(SourceTxsOf(worker.group))}
<1>3. CASE /\ Mined(worker.awaited)
           /\ worker' = [worker EXCEPT !.stage = "receipt", !.awaited = NoTx, !.won = won]
  <2>1. /\ ChainInv' /\ ChainMoves /\ bSettled' = bSettled \cup won
        /\ won \subseteq Range(worker.group)
    BY <1>1, <1>2, <1>3, BatchMinedPays DEF WorkerInv
  <2>2. won \in SUBSET Root
    BY <1>2, <2>1, RangeOfSeq
  <2> HIDE DEF won
  <2>3. StoreInv' /\ RowsKept /\ CountInv'
    BY <2>1, StoreSame, CountSame DEF BatchMined, WorkerInv
  <2>4. /\ DOMAIN worker' = Fields /\ worker'.stage = "receipt"
        /\ worker'.unpaid = worker.unpaid /\ worker'.todo = worker.todo
        /\ worker'.kept = worker.kept /\ worker'.group = worker.group
        /\ worker'.won = won /\ worker'.awaited = NoTx
        /\ worker'.claimed = worker.claimed
    BY <1>3 DEF WorkerInv, TickInv, WorkerTyped, Fields
  <2>5. WorkerTyped'
    BY <2>1, <2>2, <2>4 DEF WorkerInv, TickInv, WorkerTyped, ChainMoves, Stage
  <2>6. AwaitedInv'
    BY <2>4 DEF AwaitedInv
  <2>7. Held' = Held
    BY <2>4 DEF Held
  <2>8. TickInv'
    BY <1>1, <2>1, <2>3, <2>4, <2>5, <2>6, <2>7, HeldShrinks
       DEF WorkerInv, TickInv, BeforeProofs, BeforeClaims
  <2> QED
    BY <2>1, <2>3, <2>8 DEF WorkerInv
<1>4. CASE UNCHANGED chainVars /\ FallBack
  <2>1. ChainInv' /\ ChainMoves
    BY <1>4, ChainSame DEF WorkerInv
  <2>2. StoreInv' /\ RowsKept /\ CountInv'
    BY <2>1, StoreSame, CountSame DEF BatchMined, WorkerInv
  <2>3. TickInv'
    BY <1>1, <1>4, <2>1, <2>2, TickFallsBack DEF WorkerInv
  <2> QED
    BY <2>1, <2>2, <2>3 DEF WorkerInv
<1> QED
  BY <1>3, <1>4 DEF BatchMined

LEMMA BatchFailsSound ==
  ASSUME WorkerInv, BatchFails
  PROVE  WorkerInv'
<1>1. ChainInv' /\ ChainMoves /\ StoreInv' /\ RowsKept
  BY NothingWritten DEF BatchFails
<1>2. CountInv'
  <2>1. CASE UNCHANGED stray
    BY <1>1, <2>1 DEF BatchFails, WorkerInv, CountInv, ChainMoves, MaxCrashes
  <2>2. CASE worker.awaited # NoTx /\ stray' = Append(stray, worker.awaited)
    BY <1>1, <2>2, CountGivesUp DEF BatchFails, WorkerInv
  <2> QED
    BY <2>1, <2>2 DEF BatchFails
<1>3. TickInv'
  BY <1>1, TickFallsBack DEF BatchFails, WorkerInv
<1> QED
  BY <1>1, <1>2, <1>3 DEF WorkerInv

\* What was sent for the row a loop is at goes through.
LEMMA RowMined ==
  ASSUME WorkerInv, NEW stage \in {"relay", "single"}, NEW r, At(stage, r),
         worker.awaited # NoTx, Mined(worker.awaited)
  PROVE  /\ ChainInv' /\ ChainMoves
         /\ stage = "relay" =>
              [root |-> r, contributor |-> rows[r].contributor, timestamp |-> rows[r].timestamp]
                \in submitted'
         /\ stage = "single" => r \in sSettled'
<1>1. r \in Root /\ r = Head(worker.todo) /\ worker.stage = stage
      /\ (stage = "single" => r \in registered)
  BY AtRow
<1>2. CASE stage = "relay"
  <2>1. worker.awaited = RelayTx(r) /\ worker.awaited \in SentTx
    BY <1>1, <1>2 DEF WorkerInv, TickInv, AwaitedInv, WorkerTyped
  <2>2. /\ RelayTx(r).kind = "relay" /\ RelayTx(r).roots[1] = r
        /\ RelayTx(r).contributor = rows[r].contributor
        /\ RelayTx(r).timestamp = rows[r].timestamp
    BY OneRoot, <1>1 DEF RelayTx
  <2> QED
    BY <1>2, <2>1, <2>2, MinedMoves DEF WorkerInv
<1>3. CASE stage = "single"
  <2>1. worker.awaited = Settlement("single", <<r>>)
    BY <1>1, <1>3 DEF WorkerInv, TickInv, AwaitedInv
  <2> QED
    BY <1>1, <1>3, <2>1, SingleMinedPays DEF WorkerInv
<1> QED
  BY <1>2, <1>3

LEMMA RelayMinedSound ==
  ASSUME WorkerInv, NEW r \in Root, RelayMined(r)
  PROVE  WorkerInv'
<1>1. CASE Mined(worker.awaited) /\ Advanced(r, "AWAITING_ATTESTATION")
  <2>1. /\ ChainInv' /\ ChainMoves
        /\ [root |-> r, contributor |-> rows[r].contributor, timestamp |-> rows[r].timestamp]
             \in submitted'
    BY <1>1, RowMined DEF RelayMined
  <2>2. CountInv'
    BY <2>1, CountSame DEF RelayMined, WorkerInv
  <2> QED
    BY <1>1, <2>1, <2>2, RowAdvances DEF RelayMined
<1>2. CASE UNCHANGED chainVars /\ \E permanent \in BOOLEAN : RecordFailure(r, permanent)
  <2>1. ChainInv' /\ ChainMoves /\ CountInv'
    BY <1>2, ChainSame, CountSame DEF RelayMined, WorkerInv
  <2> QED
    BY <1>2, <2>1, RowFails DEF RelayMined
<1> QED
  BY <1>1, <1>2 DEF RelayMined

LEMMA SingleMinedSound ==
  ASSUME WorkerInv, NEW r \in Root, SingleMined(r)
  PROVE  WorkerInv'
<1>1. CASE Mined(worker.awaited) /\ Advanced(r, "SETTLED")
  <2>1. ChainInv' /\ ChainMoves /\ r \in sSettled'
    BY <1>1, RowMined DEF SingleMined
  <2>2. CountInv'
    BY <2>1, CountSame DEF SingleMined, WorkerInv
  <2>3. Known(r)
    BY AtRow DEF SingleMined
  <2> QED
    BY <1>1, <2>1, <2>2, <2>3, RowAdvances DEF SingleMined
<1>2. CASE UNCHANGED chainVars /\ RecordFailure(r, FALSE)
  <2>1. ChainInv' /\ ChainMoves /\ CountInv'
    BY <1>2, ChainSame, CountSame DEF SingleMined, WorkerInv
  <2> QED
    BY <1>2, <2>1, RowFails DEF SingleMined
<1> QED
  BY <1>1, <1>2 DEF SingleMined

\* Steps that record a failure, with the chains as they are.
LEMMA FailingSound ==
  ASSUME WorkerInv, NEW r \in Root,
         RelayRefused(r) \/ FetchFails(r) \/ SendFails(r) \/ WaitFails(r)
  PROVE  WorkerInv'
<1>1. UNCHANGED <<chainVars, queue>> /\ NextRow
  BY DEF RelayRefused, FetchFails, SendFails, WaitFails
<1>2. ChainInv' /\ ChainMoves
  BY <1>1, ChainSame DEF WorkerInv
<1>3. PICK permanent \in BOOLEAN : RecordFailure(r, permanent)
  BY DEF RelayRefused, FetchFails, SendFails, WaitFails
<1>4. CountInv'
  <2>1. CASE Local
    BY <1>2, <2>1, CountSame DEF WorkerInv
  <2>2. CASE WaitFails(r)
    BY <1>2, <2>2, CountGivesUp DEF WaitFails, WorkerInv
  <2> QED
    BY <2>1, <2>2 DEF RelayRefused, FetchFails, SendFails
<1>5. PICK stage : At(stage, r)
  BY DEF RelayRefused, FetchFails, SendFails, WaitFails
<1> QED
  BY <1>1, <1>2, <1>3, <1>4, <1>5, RowFails

LEMMA KeepingSound ==
  ASSUME WorkerInv, NEW r \in Root, FetchProof(r) \/ CheckKeepsRow(r)
  PROVE  WorkerInv'
<1>1. ChainInv' /\ ChainMoves /\ StoreInv' /\ RowsKept /\ CountInv'
  BY NothingWritten, CountSame DEF FetchProof, CheckKeepsRow, WorkerInv
<1>2. TickInv'
  BY <1>1, TickKeepsRow DEF FetchProof, CheckKeepsRow, WorkerInv
<1> QED
  BY <1>1, <1>2 DEF WorkerInv

LEMMA CheckClosesRowSound ==
  ASSUME WorkerInv, NEW r \in Root, CheckClosesRow(r)
  PROVE  WorkerInv'
<1>1. ChainInv' /\ ChainMoves /\ CountInv'
  BY ChainSame, CountSame DEF CheckClosesRow, WorkerInv
<1>2. r \in sSettled \cup bSettled
  BY DEF CheckClosesRow, SettledOnRoutes
<1>3. r \in sSettled' \cup bSettled'
  BY <1>1, <1>2 DEF ChainMoves
<1>4. Known(r)
  BY AtRow DEF CheckClosesRow
<1> QED
  BY <1>1, <1>3, <1>4, RowAdvances DEF CheckClosesRow

LEMMA ReadReceiptSound ==
  ASSUME WorkerInv, NEW r \in Root, ReadReceipt(r)
  PROVE  WorkerInv'
<1>1. ChainInv' /\ ChainMoves /\ CountInv'
  BY ChainSame, CountSame DEF ReadReceipt, WorkerInv
<1>2. CASE r \in worker.won
  <2>1. Known(r) /\ worker.stage = "receipt"
    BY AtRow DEF ReadReceipt
  <2>2. r \in sSettled' \cup bSettled'
    BY <1>1, <1>2, <2>1 DEF WorkerInv, TickInv, HeldInv, ChainMoves
  <2> QED
    BY <1>1, <1>2, <2>1, <2>2, RowAdvances DEF ReadReceipt
<1>3. CASE r \notin worker.won
  BY <1>1, <1>3, RowFails DEF ReadReceipt
<1> QED
  BY <1>2, <1>3

LEMMA ReceiptFailsSound ==
  ASSUME WorkerInv, worker.stage = "receipt", FallBack, UNCHANGED <<chainVars, storeVars>>, Local
  PROVE  WorkerInv'
<1>1. ChainInv' /\ ChainMoves /\ StoreInv' /\ RowsKept /\ CountInv'
  BY NothingWritten, CountSame DEF WorkerInv
<1>2. TickInv'
  BY <1>1, TickFallsBack DEF WorkerInv
<1> QED
  BY <1>1, <1>2 DEF WorkerInv

LEMMA WriteFailsSound ==
  ASSUME WorkerInv, NEW r \in Root, WriteFails(r)
  PROVE  WorkerInv'
<1>1. ASSUME NEW stage \in {"relay", "single"}, At(stage, r), worker.awaited # NoTx,
             Mined(worker.awaited), RecordFailure(r, FALSE), NextRow, UNCHANGED queue
      PROVE  WorkerInv'
  <2>1. ChainInv' /\ ChainMoves
    BY <1>1, RowMined
  <2>2. CountInv'
    BY <2>1, CountSame DEF WriteFails, WorkerInv
  <2> QED
    BY <1>1, <2>1, <2>2, RowFails
<1>2. CASE At("receipt", r) /\ FallBack /\ UNCHANGED <<chainVars, storeVars>>
  BY <1>2, ReceiptFailsSound DEF At, WriteFails
<1> QED
  BY <1>1, <1>2 DEF WriteFails

LEMMA EndTickSound ==
  ASSUME WorkerInv, EndTick
  PROVE  WorkerInv'
<1>1. ChainInv' /\ ChainMoves /\ StoreInv' /\ CountInv'
  BY NothingWritten, CountSame DEF EndTick, WorkerInv
<1>2. TickInv'
  BY <1>1, TickRests DEF EndTick, WorkerInv
<1> QED
  BY <1>1, <1>2 DEF WorkerInv

LEMMA StepSound ==
  ASSUME WorkerInv, Step
  PROVE  WorkerInv'
<1>1. ASSUME NEW r \in Root, ReceiptReadFails(r) PROVE WorkerInv'
  BY <1>1, ReceiptFailsSound DEF ReceiptReadFails, At
<1> QED
  BY <1>1, StartTickSound, ReconcileReadSound, ClaimSubmittedSound, ClaimAwaitingSound,
     StartChecksSound, PickGroupSound, EndTickSound, BatchSendSound, BatchMinedSound,
     BatchFailsSound, RecoverRowSound, RelaySendSound, RelayMinedSound, FailingSound,
     KeepingSound, CheckClosesRowSound, ReadReceiptSound, SingleSendSound, SingleMinedSound,
     WriteFailsSound
     DEF Step

---------------------------------------------------------------------------
(* The gateway and the rest of the world.                                  *)

\* The chains move, and the gateway does not.
LEMMA OnlyChainsMove ==
  ASSUME WorkerInv, ChainInv', ChainMoves, UNCHANGED workerVars
  PROVE  WorkerInv'
<1>1. StoreInv' /\ RowsKept
  BY StoreSame DEF workerVars, WorkerInv
<1>2. TickInv' /\ CountInv'
  BY <1>1, TickSame DEF workerVars, WorkerInv, CountInv, ChainMoves, MaxCrashes
<1> QED
  BY <1>1, <1>2 DEF WorkerInv

LEMMA AcceptSound ==
  ASSUME WorkerInv, NEW r \in Root, NEW c \in Contributor, Accept(r, c)
  PROVE  WorkerInv'
<1>1. ChainInv' /\ ChainMoves
  BY DEF Accept, Sign, R!Sign, singleVars, batchVars, WorkerInv, ChainInv, ChainMoves
<1>2. StoreInv' /\ RowsKept
  BY <1>1, InsertSound DEF Accept, WorkerInv, ChainInv
<1>3. TickInv' /\ CountInv'
  BY <1>1, <1>2, TickSame DEF Accept, WorkerInv, CountInv, ChainMoves, MaxCrashes
<1> QED
  BY <1>1, <1>2, <1>3 DEF WorkerInv

LEMMA BackoffElapsesSound ==
  ASSUME WorkerInv, NEW r \in Root, BackoffElapses(r)
  PROVE  WorkerInv'
<1>1. ChainInv' /\ ChainMoves
  BY ChainSame DEF BackoffElapses, WorkerInv
<1>2. StoreInv' /\ RowsKept
  BY <1>1, BackoffSound DEF BackoffElapses, WorkerInv
<1>3. TickInv' /\ CountInv'
  BY <1>1, <1>2, TickSame DEF BackoffElapses, WorkerInv, CountInv, ChainMoves, MaxCrashes
<1> QED
  BY <1>1, <1>2, <1>3 DEF WorkerInv

LEMMA BlocksSound ==
  ASSUME WorkerInv,
         (\E e \in submitted : Attest(e) /\ UNCHANGED workerVars)
           \/ (NextBlock /\ UNCHANGED workerVars)
  PROVE  WorkerInv'
<1>1. ChainInv' /\ ChainMoves
  BY GatewayTyped DEF Attest, NextBlock, sourceVars, singleVars, batchVars, WorkerInv,
                      ChainInv, ChainMoves
<1> QED
  BY <1>1, OnlyChainsMove

LEMMA OthersSettleSound ==
  ASSUME WorkerInv, OthersSettle
  PROVE  WorkerInv'
<1>1. ChainInv' /\ ChainMoves
  BY SingleMoves, BatchMoves DEF OthersSettle, WorkerInv
<1> QED
  BY <1>1, OnlyChainsMove DEF OthersSettle

LEMMA StrayLandsSound ==
  ASSUME WorkerInv, StrayLands
  PROVE  WorkerInv'
<1>1. PICK i \in DOMAIN stray :
        /\ stray' = [j \in 1 .. Len(stray) - 1 |-> IF j < i THEN stray[j] ELSE stray[j + 1]]
        /\ Mined(stray[i]) \/ UNCHANGED chainVars
        /\ UNCHANGED <<storeVars, worker, ticksSinceReconcile, crashes>>
  BY DEF StrayLands
<1>2. /\ Len(stray) \in Nat /\ DOMAIN stray = 1 .. Len(stray)
      /\ \A j \in 1 .. Len(stray) : stray[j] \in SentTx
  BY LenProperties, ElementOfSeq DEF WorkerInv, CountInv
<1>3. ChainInv' /\ ChainMoves
  BY <1>1, <1>2, MinedMoves, ChainSame DEF WorkerInv
<1>4. stray' \in Seq(SentTx)
  <2> DEFINE n == Len(stray) - 1
  <2>1. n \in Nat /\ i \in 1 .. Len(stray)
    BY <1>2
  <2>2. \A j \in 1 .. n : j \in 1 .. Len(stray) /\ j + 1 \in 1 .. Len(stray)
    BY <1>2
  <2>3. stray' \in [1 .. n -> SentTx]
    BY <1>1, <1>2, <2>2
  <2> HIDE DEF n
  <2> QED
    BY <2>1, <2>3, SeqDef
<1>5. StoreInv' /\ RowsKept
  BY <1>1, <1>3, StoreSame DEF WorkerInv
<1>6. TickInv' /\ CountInv'
  BY <1>1, <1>3, <1>4, <1>5, TickSame DEF WorkerInv, CountInv, ChainMoves, MaxCrashes
<1> QED
  BY <1>3, <1>5, <1>6 DEF WorkerInv

\* No rows, as at first or after a restart without a database.
LEMMA NoRowsSound ==
  ASSUME MaxTime \in Nat, MAX_ATTEMPTS \in Nat \ {0}
  PROVE  LET none == [r \in Root |-> NoRow]
         IN /\ none \in [Root -> Row]
            /\ \A r \in Root : none[r].status = "NONE"
BY DEF NoRow, Row, Status

LEMMA CrashSound ==
  ASSUME WorkerInv, Crash
  PROVE  WorkerInv'
<1>1. ChainInv' /\ ChainMoves
  BY ChainSame DEF Crash, WorkerInv
<1>2. TickInv'
  BY <1>1, TickRests DEF Crash, WorkerInv
<1>3. StoreInv'
  <2>1. CASE UNCHANGED storeVars
    BY <1>1, <2>1, StoreSame DEF WorkerInv
  <2>2. CASE rows' = [r \in Root |-> NoRow] /\ queue' = <<>>
    <3>1. rows' \in [Root -> Row] /\ \A r \in Root : rows'[r].status = "NONE"
      BY <2>2, NoRowsSound, GatewayTyped DEF WorkerInv
    <3>2. queue' \in Seq(Root) /\ Range(queue') = {}
      BY <2>2, EmptySeq, RangeEmpty
    <3> QED
      BY <3>1, <3>2 DEF StoreInv
  <2> QED
    BY <2>1, <2>2 DEF Crash
<1>4. CountInv'
  <2>1. stray' \in Seq(SentTx)
    <3>1. CASE worker.awaited = NoTx
      BY <3>1 DEF Crash, WorkerInv, CountInv
    <3>2. CASE worker.awaited # NoTx
      <4>1. worker.awaited \in SentTx
        BY <3>2 DEF WorkerInv, TickInv, WorkerTyped
      <4> QED
        BY <3>2, <4>1, AppendProperties DEF Crash, WorkerInv, CountInv
    <3> QED
      BY <3>1, <3>2
  <2>2. crashes' \in 0 .. MaxCrashes' /\ ticksSinceReconcile' \in 0 .. RECONCILE_EVERY_TICKS
    BY <1>1, GatewayTyped DEF Crash, WorkerInv, CountInv, ChainMoves, MaxCrashes
  <2> QED
    BY <2>1, <2>2 DEF CountInv
<1> QED
  BY <1>1, <1>2, <1>3, <1>4 DEF WorkerInv

LEMMA WorldSound ==
  ASSUME WorkerInv, World
  PROVE  WorkerInv'
BY AcceptSound, BackoffElapsesSound, BlocksSound, OthersSettleSound, StrayLandsSound,
   CrashSound
   DEF World

---------------------------------------------------------------------------
(* Theorems.                                                               *)

LEMMA NextWorkerInv == WorkerInv /\ [Next]_vars => WorkerInv'
<1> SUFFICES ASSUME WorkerInv, [Next]_vars
             PROVE  WorkerInv'
  OBVIOUS
<1>1. CASE UNCHANGED vars
  <2>1. ChainInv' /\ ChainMoves
    BY <1>1, ChainSame DEF vars, WorkerInv
  <2> QED
    BY <1>1, <2>1, OnlyChainsMove DEF vars
<1> QED
  BY <1>1, StepSound, WorldSound DEF Next

LEMMA InitWorkerInv == Init => WorkerInv
<1> SUFFICES ASSUME Init
             PROVE  WorkerInv
  OBVIOUS
<1>1. deployment.gateway \in Gateways
  <2>1. PICK d \in Deployments, g \in Gateways : deployment = Fronted(d, g)
    BY DEF Init, ChainsInit
  <2> QED
    BY <2>1 DEF Fronted
<1>2. ChainInv
  <2>1. MaxTime \in Nat
    BY WorkerAssumption
  <2> QED
    BY <1>1, <2>1 DEF Init, ChainsInit, ChainInv
<1>3. StoreInv
  <2>1. rows \in [Root -> Row] /\ \A r \in Root : rows[r].status = "NONE"
    BY <1>2, NoRowsSound, GatewayTyped DEF Init
  <2>2. queue \in Seq(Root) /\ Range(queue) = {}
    BY EmptySeq, RangeEmpty DEF Init
  <2> QED
    BY <2>1, <2>2 DEF StoreInv
<1>4. TickInv
  <2>1. /\ DOMAIN worker = Fields /\ worker.stage = "idle" /\ worker.unpaid = {}
        /\ worker.todo = <<>> /\ worker.kept = <<>> /\ worker.group = <<>>
        /\ worker.won = {} /\ worker.awaited = NoTx
        /\ worker.claimed = [r \in Root |-> 0]
    BY DEF Init, Resting, Fields
  <2>2. WorkerTyped
    BY <1>2, <2>1, GatewayTyped, EmptySeq DEF WorkerTyped, Stage
  <2>3. Held = {}
    BY <2>1, RangeEmpty DEF Held
  <2> QED
    BY <2>1, <2>2, <2>3 DEF TickInv, HeldInv, AwaitedInv
<1>5. CountInv
  BY <1>2, GatewayTyped, EmptySeq DEF Init, CountInv
<1> QED
  BY <1>2, <1>3, <1>4, <1>5 DEF WorkerInv

LEMMA WorkerInvAlways == Spec => []WorkerInv
<1> QED
  BY InitWorkerInv, NextWorkerInv, PTL DEF Spec

\* Type correctness: attempts stay within the schedule, and a row has its
\* place in the queue.
THEOREM TypeCorrect == Spec => []WorkerTypeOK
<1>1. WorkerInv => WorkerTypeOK
  <2> SUFFICES ASSUME WorkerInv
               PROVE  WorkerTypeOK
    OBVIOUS
  <2>1. worker.awaited \in Tx \cup {NoTx} /\ worker.stage \in Stage
    BY DEF WorkerInv, TickInv, WorkerTyped, SentTx
  <2>2. \A i \in DOMAIN stray : stray[i] \in Tx
    BY LenProperties, ElementOfSeq DEF WorkerInv, CountInv, SentTx
  <2> QED
    BY <2>1, <2>2 DEF WorkerInv, StoreInv, CountInv, WorkerTypeOK
<1> QED
  BY <1>1, WorkerInvAlways, PTL

\* Whatever fails, gets lost, restarts or is settled by others, no row says
\* more than the chains do.
THEOREM RowsNeverAhead == Spec => []RowsBehindChains
<1>1. WorkerInv => RowsBehindChains
  BY DEF WorkerInv, StoreInv, Known, RowsBehindChains
<1> QED
  BY <1>1, WorkerInvAlways, PTL

---------------------------------------------------------------------------
(* No row is in a list twice.                                              *)

LEMMA TailInjective ==
  ASSUME NEW s \in Seq(Root), s # <<>>, IsInjective(s)
  PROVE  IsInjective(Tail(s)) /\ Head(s) \notin Range(Tail(s))
<1>1. /\ Tail(s) \in Seq(Root) /\ Len(Tail(s)) = Len(s) - 1
      /\ \A i \in 1 .. Len(Tail(s)) : Tail(s)[i] = s[i + 1]
  BY HeadTailProperties
<1>2. Len(s) \in Nat \ {0} /\ DOMAIN s = 1 .. Len(s) /\ DOMAIN Tail(s) = 1 .. Len(s) - 1
  BY <1>1, EmptySeq, LenProperties
<1>3. Head(s) = s[1]
  OBVIOUS
<1>4. \A i \in DOMAIN Tail(s) : i + 1 \in DOMAIN s /\ i + 1 # 1 /\ Tail(s)[i] = s[i + 1]
  BY <1>1, <1>2
<1>5. 1 \in DOMAIN s
  BY <1>2
<1>6. \A i \in DOMAIN Tail(s) : Tail(s)[i] # s[1]
  BY <1>4, <1>5 DEF IsInjective
<1>7. ASSUME NEW i \in DOMAIN Tail(s), NEW j \in DOMAIN Tail(s), Tail(s)[i] = Tail(s)[j]
      PROVE  i = j
  <2>1. i + 1 = j + 1
    BY <1>4, <1>7 DEF IsInjective
  <2> QED
    BY <1>2, <2>1
<1> QED
  BY <1>3, <1>6, <1>7 DEF IsInjective, Range

LEMMA AppendInjectiveSeq ==
  ASSUME NEW s \in Seq(Root), NEW r \in Root, IsInjective(s), r \notin Range(s)
  PROVE  IsInjective(Append(s, r))
<1> DEFINE t == Append(s, r)
<1>1. /\ t \in Seq(Root) /\ Len(t) = Len(s) + 1
      /\ \A i \in 1 .. Len(s) : t[i] = s[i]
      /\ t[Len(s) + 1] = r
  BY AppendProperties
<1>2. Len(s) \in Nat /\ DOMAIN s = 1 .. Len(s) /\ DOMAIN t = 1 .. Len(s) + 1
  BY <1>1, LenProperties
<1> HIDE DEF t
<1>3. \A i \in 1 .. Len(s) : t[i] # r
  BY <1>1, <1>2 DEF Range
<1>4. \A i \in DOMAIN t : i \in 1 .. Len(s) \/ i = Len(s) + 1
  BY <1>2
<1>5. IsInjective(t)
  BY <1>1, <1>2, <1>3, <1>4 DEF IsInjective
<1> QED
  BY <1>5 DEF t

LEMMA EmptyInjective == IsInjective(<<>>)
BY EmptySeq, LenProperties DEF IsInjective

LEMMA OrderedInjective ==
  ASSUME NEW roots \in SUBSET Root, NEW list \in Seq(Root), IsInjective(list),
         NEW s \in Ordered(roots, list)
  PROVE  IsInjective(s)
<1>1. DOMAIN list = 1 .. Len(list) /\ Len(list) \in Nat
  BY LenProperties
<1>2. DOMAIN s = 1 .. Len(s) /\ Len(s) \in Nat
  BY OrderedSound, LenProperties
<1>3. ASSUME NEW i \in DOMAIN s, NEW j \in DOMAIN s, i < j PROVE s[i] # s[j]
  <2>1. PICK k \in DOMAIN list, l \in DOMAIN list : k < l /\ s[i] = list[k] /\ s[j] = list[l]
    BY <1>3 DEF Ordered
  <2>2. k # l
    BY <1>1, <2>1
  <2> QED
    BY <2>1, <2>2 DEF IsInjective
<1>4. \A i, j \in DOMAIN s : i = j \/ i < j \/ j < i
  BY <1>2
<1> QED
  BY <1>3, <1>4 DEF IsInjective

LEMMA WorkableInjective ==
  ASSUME NEW status, queue \in Seq(Root), IsInjective(queue), BATCH_SIZE \in Nat,
         NEW s \in Workable(status)
  PROVE  IsInjective(s)
<1>1. PICK due \in Ordered(Due(status), queue) :
        s = SubSeq(due, 1, IF Len(due) < BATCH_SIZE THEN Len(due) ELSE BATCH_SIZE)
  BY DEF Workable
<1>2. due \in Seq(Root) /\ IsInjective(due)
  <2>1. Due(status) \in SUBSET Root
    BY DEF Due
  <2> QED
    BY <1>1, <2>1, OrderedSound, OrderedInjective
<1> DEFINE n == IF Len(due) < BATCH_SIZE THEN Len(due) ELSE BATCH_SIZE
<1>3. Len(due) \in Nat /\ DOMAIN due = 1 .. Len(due) /\ \A i \in 1 .. Len(due) : due[i] \in Root
  BY <1>2, LenProperties, ElementOfSeq
<1>4. n \in Nat /\ n <= Len(due)
  BY <1>3
<1>5. s = SubSeq(due, 1, n)
  BY <1>1
<1> HIDE DEF n
<1>6. \A i \in 1 .. n : i \in 1 .. Len(due)
  BY <1>3, <1>4
<1>7. /\ s \in Seq(Root)
      /\ Len(s) = IF 1 <= n THEN n - 1 + 1 ELSE 0
      /\ \A i \in 1 .. n - 1 + 1 : s[i] = due[1 + i - 1]
  BY <1>3, <1>4, <1>5, <1>6, SubSeqProperties
<1>8. DOMAIN s = 1 .. n /\ \A i \in 1 .. n : s[i] = due[i]
  BY <1>4, <1>7, LenProperties
<1> QED
  BY <1>2, <1>3, <1>6, <1>8 DEF IsInjective

---------------------------------------------------------------------------
(* The rows in hand: in which lists, and with which status.                *)

Quiet == {"read", "store"} \cap Faults = {}

\* No row is in a list twice, or in the next one already.
ListsInv ==
  /\ IsInjective(queue)
  /\ IsInjective(worker.todo) /\ IsInjective(worker.kept) /\ IsInjective(worker.group)
  /\ Range(worker.todo) \cap Range(worker.kept) = {}
  /\ Range(worker.group) \cap Range(worker.kept) = {}
  /\ worker.stage \in {"prepare", "check"} => worker.group = <<>>
  /\ worker.stage = "batch" => worker.todo = worker.group

\* While routes can be read and rows be written, what is in hand is unfinished.
FinalInv ==
  Quiet =>
    /\ \A r \in Range(worker.todo) :
         rows[r].status = IF worker.stage = "relay" THEN "SUBMITTED" ELSE "AWAITING_ATTESTATION"
    /\ \A r \in Range(worker.kept) : rows[r].status = "AWAITING_ATTESTATION"

\* A gateway that hears of all it sends has nothing pending, and has closed
\* the row of what the batch route paid for, unless it is reading the receipt.
HeardInv ==
  HeardOfAll =>
    /\ stray = <<>>
    /\ \A r \in bSettled : r \in Root =>
         \/ rows[r].status \in Terminal
         \/ worker.stage = "receipt" /\ r \in worker.won \cap Range(worker.todo)

SiblingsInv == deployment.siblings \in Seq({SingleAddr})

HandInv == ListsInv /\ FinalInv /\ HeardInv /\ SiblingsInv

\* What TerminalIsFinal asks of a step.
FinalStep ==
  Quiet => \A r \in Root : rows[r].status \in Terminal => rows'[r].status \in {rows[r].status, "NONE"}

OnlyRow(r) == \A q \in Root \ {r} : rows'[q] = rows[q]

LEMMA SettingsStay ==
  ASSUME deployment' = deployment
  PROVE  /\ (Quiet <=> Quiet') /\ (HeardOfAll <=> HeardOfAll')
         /\ (SiblingsInv => SiblingsInv')
BY DEF Quiet, HeardOfAll, SiblingsInv, Faults, MaxCrashes, OpenRoutes

LEMMA HeardIsQuiet == HeardOfAll => Quiet
BY DEF HeardOfAll, Quiet

\* The row a loop is at is dealt with, and the loop moves on.
LEMMA HandNextRow ==
  ASSUME WorkerInv, HandInv, deployment' = deployment,
         NEW stage \in {"relay", "prepare", "check", "receipt", "single"}, NEW r, At(stage, r),
         NextRow, OnlyRow(r), queue' = queue,
         HeardOfAll => bSettled' = bSettled /\ stray' = stray,
         stage = "receipt" => rows'[r].status \in Terminal
  PROVE  HandInv' /\ FinalStep
<1>1. /\ r \in Root /\ r \in Range(worker.todo) /\ r = Head(worker.todo)
      /\ worker.stage = stage /\ worker.stage # "batch"
      /\ worker.todo \in Seq(Root) /\ worker.todo # <<>>
      /\ Range(worker.todo) = {r} \cup Range(Tail(worker.todo))
      /\ Range(Tail(worker.todo)) \subseteq Root
  BY RangeHeadTail, RangeOfSeq DEF At, WorkerInv, TickInv, WorkerTyped
<1>2. IsInjective(Tail(worker.todo)) /\ r \notin Range(Tail(worker.todo))
  BY <1>1, TailInjective DEF HandInv, ListsInv
<1>3. /\ worker'.stage = worker.stage /\ worker'.todo = Tail(worker.todo)
      /\ worker'.kept = worker.kept /\ worker'.group = worker.group
      /\ worker'.won = worker.won
  BY DEF NextRow, WorkerInv, TickInv, WorkerTyped, Fields
<1>4. ListsInv'
  BY <1>1, <1>2, <1>3 DEF HandInv, ListsInv
<1>5. Range(worker.kept) \subseteq Root \ {r}
  BY <1>1, RangeOfSeq DEF WorkerInv, TickInv, WorkerTyped, HandInv, ListsInv
<1>6. FinalInv'
  BY <1>1, <1>2, <1>3, <1>5, SettingsStay DEF HandInv, FinalInv, OnlyRow
<1>7. Quiet => rows[r].status \notin Terminal
  BY <1>1 DEF HandInv, FinalInv, Terminal
<1>8. FinalStep
  BY <1>7 DEF FinalStep, OnlyRow
<1>9. HeardInv'
  <2> SUFFICES ASSUME HeardOfAll
               PROVE  /\ stray' = <<>>
                      /\ \A q \in bSettled' : q \in Root =>
                           \/ rows'[q].status \in Terminal
                           \/ worker'.stage = "receipt"
                              /\ q \in worker'.won \cap Range(worker'.todo)
    BY SettingsStay DEF HeardInv
  <2>1. stray' = <<>> /\ bSettled' = bSettled
    BY DEF HandInv, HeardInv
  <2>2. ASSUME NEW q \in bSettled, q \in Root
        PROVE  \/ rows'[q].status \in Terminal
               \/ worker'.stage = "receipt" /\ q \in worker'.won \cap Range(worker'.todo)
    <3>1. \/ rows[q].status \in Terminal
          \/ worker.stage = "receipt" /\ q \in worker.won \cap Range(worker.todo)
      BY <2>2 DEF HandInv, HeardInv
    <3>2. CASE q = r
      BY <1>1, <1>7, <3>1, <3>2, HeardIsQuiet
    <3>3. CASE q # r
      BY <1>1, <1>3, <2>2, <3>1, <3>3 DEF OnlyRow
    <3> QED
      BY <3>2, <3>3
  <2> QED
    BY <2>1, <2>2
<1> QED
  BY <1>4, <1>6, <1>8, <1>9, SettingsStay DEF HandInv

\* It is kept for the next loop.
LEMMA HandKeepsRow ==
  ASSUME WorkerInv, HandInv, NEW r, At("prepare", r) \/ At("check", r),
         worker' = [worker EXCEPT !.todo = Tail(@), !.kept = Append(@, r)],
         UNCHANGED <<chainVars, storeVars>>, stray' = stray
  PROVE  HandInv' /\ FinalStep
<1>1. /\ r \in Root /\ r \in Range(worker.todo) /\ r = Head(worker.todo)
      /\ worker.stage \in {"prepare", "check"}
      /\ worker.todo \in Seq(Root) /\ worker.todo # <<>> /\ worker.kept \in Seq(Root)
      /\ Range(worker.todo) = {r} \cup Range(Tail(worker.todo))
  BY RangeHeadTail DEF At, WorkerInv, TickInv, WorkerTyped
<1>2. /\ IsInjective(Tail(worker.todo)) /\ r \notin Range(Tail(worker.todo))
      /\ IsInjective(Append(worker.kept, r))
      /\ Range(Append(worker.kept, r)) = Range(worker.kept) \cup {r}
  BY <1>1, TailInjective, AppendInjectiveSeq, RangeAppend DEF HandInv, ListsInv
<1>3. /\ worker'.stage = worker.stage /\ worker'.todo = Tail(worker.todo)
      /\ worker'.kept = Append(worker.kept, r) /\ worker'.group = worker.group
  BY DEF WorkerInv, TickInv, WorkerTyped, Fields
<1>4. rows' = rows /\ queue' = queue /\ deployment' = deployment /\ bSettled' = bSettled
  BY DEF storeVars, chainVars, batchVars
<1>5. ListsInv'
  BY <1>1, <1>2, <1>3, <1>4, RangeEmpty DEF HandInv, ListsInv
<1>6. FinalInv'
  BY <1>1, <1>2, <1>3, <1>4, SettingsStay DEF HandInv, FinalInv
<1>7. HeardInv'
  BY <1>1, <1>3, <1>4, SettingsStay DEF HandInv, HeardInv
<1> QED
  BY <1>4, <1>5, <1>6, <1>7, SettingsStay DEF HandInv, FinalStep

\* The rows there are keep their status, and the worker has the same in hand.
LEMMA HandSame ==
  ASSUME WorkerInv, HandInv, deployment' = deployment,
         worker'.todo = worker.todo, worker'.kept = worker.kept,
         worker'.group = worker.group, worker'.won = worker.won,
         \/ worker'.stage = worker.stage
         \/ worker.stage \in BeforeClaims /\ worker'.stage \in BeforeClaims,
         \A q \in Root : rows[q].status # "NONE" => rows'[q].status = rows[q].status,
         IsInjective(queue'),
         HeardOfAll => bSettled' = bSettled /\ stray' = stray
  PROVE  HandInv' /\ FinalStep
<1>1. ListsInv'
  BY DEF HandInv, ListsInv, BeforeClaims
<1>2. /\ Range(worker.todo) \subseteq Root /\ Range(worker.kept) \subseteq Root
      /\ \A r \in Range(worker.todo) \cup Range(worker.kept) : rows'[r].status = rows[r].status
  BY HeldRoots DEF WorkerInv, TickInv, HeldInv, Held
<1>3. worker.stage \in BeforeClaims => worker.todo = <<>> /\ Range(worker.todo) = {}
  BY RangeEmpty DEF WorkerInv, TickInv, HeldInv
<1>4. FinalInv'
  BY <1>2, <1>3, SettingsStay DEF HandInv, FinalInv
<1>5. HeardInv'
  BY SettingsStay DEF HandInv, HeardInv, BeforeClaims, Terminal
<1>6. FinalStep
  BY DEF FinalStep, Terminal
<1> QED
  BY <1>1, <1>4, <1>5, <1>6, SettingsStay DEF HandInv

\* A batch is given up, or was mined and its receipt cannot be dealt with.
LEMMA HandFallsBack ==
  ASSUME WorkerInv, HandInv, worker.stage = "batch" \/ (worker.stage = "receipt" /\ ~Quiet),
         FallBack, UNCHANGED <<chainVars, storeVars>>, HeardOfAll => stray' = stray
  PROVE  HandInv' /\ FinalStep
<1>1. /\ worker'.stage = "single" /\ worker'.todo = worker.group
      /\ worker'.kept = worker.kept /\ worker'.group = worker.group
  BY DEF FallBack, WorkerInv, TickInv, WorkerTyped, Fields
<1>2. rows' = rows /\ queue' = queue /\ deployment' = deployment /\ bSettled' = bSettled
  BY DEF storeVars, chainVars, batchVars
<1>3. ListsInv'
  BY <1>1, <1>2 DEF HandInv, ListsInv
<1>4. FinalInv'
  BY <1>1, <1>2, SettingsStay DEF HandInv, ListsInv, FinalInv
<1>5. HeardInv'
  BY <1>1, <1>2, SettingsStay, HeardIsQuiet DEF HandInv, HeardInv
<1> QED
  BY <1>2, <1>3, <1>4, <1>5, SettingsStay DEF HandInv, FinalStep

\* A tick ends, with all of its rows dealt with.
LEMMA HandRests ==
  ASSUME WorkerInv, HandInv, worker' = Resting,
         worker.stage # "receipt" \/ worker.todo = <<>>,
         UNCHANGED <<chainVars, storeVars>>, stray' = stray
  PROVE  HandInv' /\ FinalStep
<1>1. /\ worker'.stage = "idle" /\ worker'.todo = <<>> /\ worker'.kept = <<>>
      /\ worker'.group = <<>>
  BY DEF Resting
<1>2. rows' = rows /\ queue' = queue /\ deployment' = deployment /\ bSettled' = bSettled
  BY DEF storeVars, chainVars, batchVars
<1>3. ListsInv'
  BY <1>1, <1>2, EmptyInjective, RangeEmpty DEF HandInv, ListsInv
<1>4. FinalInv'
  BY <1>1, RangeEmpty DEF FinalInv
<1>5. HeardInv'
  BY <1>2, SettingsStay, RangeEmpty DEF HandInv, HeardInv
<1> QED
  BY <1>2, <1>3, <1>4, <1>5, SettingsStay DEF HandInv, FinalStep

LEMMA StatusMarked ==
  ASSUME NEW row \in Row, NEW status, NEW attempts, NEW delayed
  PROVE  Marked(row, status, attempts, delayed).status = status
BY DEF Marked, Row

\* Of all rows, only that of r is written.
LEMMA FailureOnly ==
  ASSUME StoreInv, NEW r \in Root, NEW permanent \in BOOLEAN, RecordFailure(r, permanent)
  PROVE  OnlyRow(r) /\ (permanent => rows'[r].status \in Terminal)
<1> DEFINE attempts == worker.claimed[r] + 1
           terminal == permanent \/ attempts >= MAX_ATTEMPTS
           status == IF terminal THEN "REJECTED" ELSE rows[r].status
           delayed == ~terminal
           row == Marked(rows[r], status, attempts, delayed)
<1>1. rows' = [rows EXCEPT ![r] = row]
  BY DEF RecordFailure
<1>2. permanent => status = "REJECTED"
  OBVIOUS
<1>3. rows[r] \in Row
  BY DEF StoreInv
<1> HIDE DEF status, delayed, attempts
<1>4. row.status = status
  BY <1>3, StatusMarked
<1> HIDE DEF row
<1>5. rows'[r] = row /\ OnlyRow(r)
  BY <1>1 DEF StoreInv, OnlyRow
<1> QED
  BY <1>2, <1>4, <1>5 DEF Terminal

LEMMA AdvanceOnly ==
  ASSUME StoreInv, NEW r \in Root, NEW status, Advanced(r, status)
  PROVE  OnlyRow(r) /\ rows'[r].status = status
<1> DEFINE row == Marked(rows[r], status, 0, FALSE)
<1>1. rows' = [rows EXCEPT ![r] = row]
  BY DEF Advanced
<1>2. row.status = status
  BY DEF Marked, StoreInv, Row
<1> HIDE DEF row
<1> QED
  BY <1>1, <1>2 DEF StoreInv, OnlyRow

LEMMA InsertOnly ==
  ASSUME StoreInv, ListsInv, NEW r \in Root, rows[r].status = "NONE",
         NEW status, NEW c, NEW t, Inserted(r, status, c, t)
  PROVE  /\ \A q \in Root : rows[q].status # "NONE" => rows'[q].status = rows[q].status
         /\ IsInjective(queue')
<1>1. r \notin Range(queue)
  BY DEF StoreInv
<1> QED
  BY <1>1, AppendInjectiveSeq DEF Inserted, StoreInv, ListsInv

---------------------------------------------------------------------------
(* The steps again, with what is in hand.                                  *)

\* What WorkerPaysOnce asks of a step holds of one that settles nothing.
LEMMA NothingPaid ==
  ASSUME UNCHANGED <<sSettled, bSettled>>
  PROVE  PaysOnce
BY DEF PaysOnce

HandStep == HandInv' /\ FinalStep /\ (HeardOfAll => PaysOnce)

LEMMA ChainsStill ==
  ASSUME UNCHANGED chainVars
  PROVE  deployment' = deployment /\ bSettled' = bSettled /\ PaysOnce
BY NothingPaid DEF chainVars, singleVars, batchVars

LEMMA PreparingHand ==
  ASSUME WorkerInv, HandInv,
         StartTick \/ ReconcileRead \/ BatchSend
           \/ \E r \in Root : RelaySend(r) \/ SingleSend(r)
  PROVE  HandStep
<1>1. UNCHANGED <<chainVars, storeVars, stray>>
  BY DEF StartTick, ReconcileRead, ReconcileReads, BatchSend, RelaySend, SingleSend, Local
<1>2. rows' = rows /\ queue' = queue
  BY <1>1 DEF storeVars
<1>3. /\ worker'.todo = worker.todo /\ worker'.kept = worker.kept
      /\ worker'.group = worker.group /\ worker'.won = worker.won
      /\ \/ worker'.stage = worker.stage
         \/ worker.stage \in BeforeClaims /\ worker'.stage \in BeforeClaims
  BY DEF StartTick, ReconcileRead, ReconcileReads, BatchSend, RelaySend, SingleSend, BeforeClaims,
         WorkerInv, TickInv, WorkerTyped, Fields
<1> QED
  BY <1>1, <1>2, <1>3, ChainsStill, HandSame DEF HandStep, HandInv, ListsInv

LEMMA RecoverRowHand ==
  ASSUME WorkerInv, HandInv, NEW r \in Root, RecoverRow(r)
  PROVE  HandStep
<1>1. UNCHANGED <<chainVars, stray>>
  BY DEF RecoverRow, Local
<1>2. /\ worker'.todo = worker.todo /\ worker'.kept = worker.kept
      /\ worker'.group = worker.group /\ worker'.won = worker.won
      /\ worker'.stage = worker.stage
  BY DEF RecoverRow, WorkerInv, TickInv, WorkerTyped, Fields
<1>3. /\ \A q \in Root : rows[q].status # "NONE" => rows'[q].status = rows[q].status
      /\ IsInjective(queue')
  <2>1. CASE rows[r].status = "NONE"
    BY <2>1, InsertOnly DEF RecoverRow, WorkerInv, HandInv
  <2>2. CASE rows[r].status # "NONE"
    BY <2>2 DEF RecoverRow, storeVars, HandInv, ListsInv
  <2> QED
    BY <2>1, <2>2
<1> QED
  BY <1>1, <1>2, <1>3, ChainsStill, HandSame DEF HandStep

LEMMA ClaimSubmittedHand ==
  ASSUME WorkerInv, HandInv, ClaimSubmitted
  PROVE  HandStep
<1>1. PICK claimed \in Workable("SUBMITTED") :
        worker' = [worker EXCEPT !.stage = "relay", !.todo = claimed, !.claimed = Attempts]
  BY DEF ClaimSubmitted
<1>2. /\ claimed \in Seq(Root) /\ Range(claimed) \subseteq Due("SUBMITTED")
      /\ IsInjective(claimed)
  BY WorkableSound, WorkableInjective, GatewayTyped
     DEF WorkerInv, StoreInv, HandInv, ListsInv
<1>3. /\ worker'.stage = "relay" /\ worker'.todo = claimed
      /\ worker'.kept = worker.kept /\ worker'.group = worker.group
  BY <1>1 DEF WorkerInv, TickInv, WorkerTyped, Fields
<1>4. worker.kept = <<>> /\ worker.group = <<>> /\ worker.stage = "recover"
  BY DEF WorkerInv, TickInv, HeldInv, ClaimSubmitted, BeforeProofs, BeforeClaims
<1>5. rows' = rows /\ queue' = queue /\ deployment' = deployment
      /\ bSettled' = bSettled /\ stray' = stray /\ PaysOnce
  BY ChainsStill DEF ClaimSubmitted, storeVars, Local
<1>6. ListsInv'
  BY <1>2, <1>3, <1>4, <1>5, RangeEmpty DEF HandInv, ListsInv
<1>7. FinalInv'
  BY <1>2, <1>3, <1>4, <1>5, RangeEmpty DEF FinalInv, Due
<1>8. HeardInv'
  BY <1>4, <1>5, SettingsStay DEF HandInv, HeardInv
<1> QED
  BY <1>5, <1>6, <1>7, <1>8, SettingsStay DEF HandInv, HandStep, FinalStep

LEMMA ClaimAwaitingHand ==
  ASSUME WorkerInv, HandInv, ClaimAwaiting
  PROVE  HandStep
<1>1. PICK claimed \in Workable("AWAITING_ATTESTATION") :
        \E ready \in Ordered({r \in Range(claimed) : SourceTxOf(r) \in attested}, claimed) :
          worker' = [worker EXCEPT !.stage = "prepare", !.todo = ready, !.claimed = Attempts]
  BY DEF ClaimAwaiting
<1>2. /\ claimed \in Seq(Root) /\ Range(claimed) \subseteq Due("AWAITING_ATTESTATION")
      /\ IsInjective(claimed)
  BY WorkableSound, WorkableInjective, GatewayTyped
     DEF WorkerInv, StoreInv, HandInv, ListsInv
<1>3. PICK ready \in Ordered({r \in Range(claimed) : SourceTxOf(r) \in attested}, claimed) :
        worker' = [worker EXCEPT !.stage = "prepare", !.todo = ready, !.claimed = Attempts]
  BY <1>1
<1>4. /\ ready \in Seq(Root) /\ Range(ready) \subseteq Due("AWAITING_ATTESTATION")
      /\ IsInjective(ready)
  <2>1. {r \in Range(claimed) : SourceTxOf(r) \in attested} \in SUBSET Root
    BY <1>2 DEF Due
  <2> QED
    BY <1>2, <2>1, OrderedSound, OrderedInjective
<1>5. /\ worker'.stage = "prepare" /\ worker'.todo = ready
      /\ worker'.kept = worker.kept /\ worker'.group = worker.group
  BY <1>3 DEF WorkerInv, TickInv, WorkerTyped, Fields
<1>6. worker.kept = <<>> /\ worker.group = <<>> /\ worker.stage = "relay"
  BY DEF WorkerInv, TickInv, HeldInv, ClaimAwaiting, Done, BeforeProofs
<1>7. rows' = rows /\ queue' = queue /\ deployment' = deployment
      /\ bSettled' = bSettled /\ stray' = stray /\ PaysOnce
  BY ChainsStill DEF ClaimAwaiting, storeVars, Local
<1>8. ListsInv'
  BY <1>4, <1>5, <1>6, <1>7, RangeEmpty DEF HandInv, ListsInv
<1>9. FinalInv'
  BY <1>4, <1>5, <1>6, <1>7, RangeEmpty DEF FinalInv, Due
<1>10. HeardInv'
  BY <1>6, <1>7, SettingsStay DEF HandInv, HeardInv
<1> QED
  BY <1>7, <1>8, <1>9, <1>10, SettingsStay DEF HandInv, HandStep, FinalStep

LEMMA StartChecksHand ==
  ASSUME WorkerInv, HandInv, StartChecks
  PROVE  HandStep
<1>1. /\ worker'.stage = "check" /\ worker'.todo = worker.kept
      /\ worker'.kept = <<>> /\ worker'.group = worker.group
  BY DEF StartChecks, WorkerInv, TickInv, WorkerTyped, Fields
<1>2. worker.stage = "prepare" /\ worker.group = <<>>
  BY DEF StartChecks, Done, HandInv, ListsInv
<1>3. rows' = rows /\ queue' = queue /\ deployment' = deployment
      /\ bSettled' = bSettled /\ stray' = stray /\ PaysOnce
  BY ChainsStill DEF StartChecks, storeVars, Local
<1>4. ListsInv'
  BY <1>1, <1>2, <1>3, RangeEmpty, EmptyInjective DEF HandInv, ListsInv
<1>5. FinalInv'
  BY <1>1, <1>3, RangeEmpty, SettingsStay DEF HandInv, FinalInv
<1>6. HeardInv'
  BY <1>2, <1>3, SettingsStay DEF HandInv, HeardInv
<1> QED
  BY <1>3, <1>4, <1>5, <1>6, SettingsStay DEF HandInv, HandStep, FinalStep

LEMMA PickGroupHand ==
  ASSUME WorkerInv, HandInv, PickGroup
  PROVE  HandStep
<1>1. PICK group \in Seq(Root), rest \in Seq(Root) :
        /\ Range(group) \cup Range(rest) = Range(worker.kept)
        /\ Range(group) \cap Range(rest) = {}
        /\ \E same \in SUBSET Range(worker.kept) :
             group \in Ordered(same, worker.kept)
             /\ rest \in Ordered(Range(worker.kept) \ same, worker.kept)
        /\ \E stage \in {"batch", "single"} :
             worker' = [worker EXCEPT !.kept = rest, !.group = group, !.todo = group,
                                      !.stage = stage]
  BY PickGroupParts
<1>2. worker.kept \in Seq(Root) /\ Range(worker.kept) \subseteq Root
  BY RangeOfSeq DEF WorkerInv, TickInv, WorkerTyped
<1>3. IsInjective(group) /\ IsInjective(rest)
  BY <1>1, <1>2, OrderedInjective DEF HandInv, ListsInv
<1>4. /\ worker'.stage \in {"batch", "single"} /\ worker'.todo = group
      /\ worker'.kept = rest /\ worker'.group = group
  BY <1>1 DEF WorkerInv, TickInv, WorkerTyped, Fields
<1>5. worker.todo = <<>>
  BY DEF PickGroup, BetweenGroups, Done
<1>6. rows' = rows /\ queue' = queue /\ deployment' = deployment
      /\ bSettled' = bSettled /\ stray' = stray /\ PaysOnce
  BY ChainsStill DEF PickGroup, storeVars, Local
<1>7. ListsInv'
  BY <1>1, <1>3, <1>4, <1>6 DEF HandInv, ListsInv
<1>8. FinalInv'
  BY <1>1, <1>4, <1>6, SettingsStay DEF HandInv, FinalInv
<1>9. HeardInv'
  BY <1>5, <1>6, RangeEmpty, SettingsStay DEF HandInv, HeardInv
<1> QED
  BY <1>6, <1>7, <1>8, <1>9, SettingsStay DEF HandInv, HandStep, FinalStep

LEMMA EndTickHand ==
  ASSUME WorkerInv, HandInv, EndTick
  PROVE  HandStep
<1>1. worker.todo = <<>>
  BY DEF EndTick, BetweenGroups, Done
<1> QED
  BY <1>1, HandRests, ChainsStill DEF EndTick, Local, HandStep

LEMMA KeepingHand ==
  ASSUME WorkerInv, HandInv, NEW r \in Root, FetchProof(r) \/ CheckKeepsRow(r)
  PROVE  HandStep
BY HandKeepsRow, ChainsStill DEF FetchProof, CheckKeepsRow, Local, HandStep

\* A failure of the row a loop is at, the chains as they are.
LEMMA FailingHand ==
  ASSUME WorkerInv, HandInv, NEW r \in Root,
         RelayRefused(r) \/ FetchFails(r) \/ SendFails(r) \/ WaitFails(r)
  PROVE  HandStep
<1>1. UNCHANGED <<chainVars, queue>> /\ NextRow
  BY DEF RelayRefused, FetchFails, SendFails, WaitFails
<1>2. OnlyRow(r)
  BY FailureOnly DEF RelayRefused, FetchFails, SendFails, WaitFails, WorkerInv
<1>3. HeardOfAll => stray' = stray
  BY DEF RelayRefused, FetchFails, SendFails, WaitFails, Local, HeardOfAll
<1>4. PICK stage \in {"relay", "prepare", "single"} : At(stage, r)
  BY DEF RelayRefused, FetchFails, SendFails, WaitFails
<1> QED
  BY <1>1, <1>2, <1>3, <1>4, ChainsStill, HandNextRow DEF HandStep

LEMMA CheckClosesRowHand ==
  ASSUME WorkerInv, HandInv, NEW r \in Root, CheckClosesRow(r)
  PROVE  HandStep
<1>1. OnlyRow(r)
  BY AdvanceOnly DEF CheckClosesRow, WorkerInv
<1> QED
  BY <1>1, ChainsStill, HandNextRow DEF CheckClosesRow, Local, HandStep

LEMMA ReadReceiptHand ==
  ASSUME WorkerInv, HandInv, NEW r \in Root, ReadReceipt(r)
  PROVE  HandStep
<1>1. OnlyRow(r) /\ rows'[r].status \in Terminal
  <2>1. CASE r \in worker.won
    BY <2>1, AdvanceOnly DEF ReadReceipt, WorkerInv, Terminal
  <2>2. CASE r \notin worker.won
    BY <2>2, FailureOnly DEF ReadReceipt, WorkerInv
  <2> QED
    BY <2>1, <2>2
<1> QED
  BY <1>1, ChainsStill, HandNextRow DEF ReadReceipt, Local, HandStep

\* The registry takes a measurement, and nobody is paid yet.
LEMMA RelayMinedHand ==
  ASSUME WorkerInv, HandInv, NEW r \in Root, RelayMined(r)
  PROVE  HandStep
<1>1. At("relay", r) /\ worker.stage = "relay" /\ worker.awaited \in SentTx
      /\ worker.awaited.kind = "relay"
  BY DEF RelayMined, At, WorkerInv, TickInv, WorkerTyped, AwaitedInv, RelayTx
<1>2. deployment' = deployment /\ bSettled' = bSettled /\ sSettled' = sSettled
  <2>1. CASE Mined(worker.awaited)
    BY <1>1, <2>1, MinedMoves DEF WorkerInv, ChainMoves
  <2>2. CASE UNCHANGED chainVars
    BY <2>2 DEF chainVars, singleVars, batchVars
  <2> QED
    BY <2>1, <2>2 DEF RelayMined
<1>3. OnlyRow(r)
  BY FailureOnly, AdvanceOnly DEF RelayMined, WorkerInv
<1> QED
  BY <1>1, <1>2, <1>3, NothingPaid, HandNextRow DEF RelayMined, Local, HandStep

\* A measurement settled singly is one the batch route has not paid for.
LEMMA SingleMinedHand ==
  ASSUME WorkerInv, HandInv, NEW r \in Root, SingleMined(r)
  PROVE  HandStep
<1>1. /\ At("single", r) /\ worker.stage = "single" /\ r \in Range(worker.todo)
      /\ r \in registered
      /\ worker.awaited = Settlement("single", <<r>>)
  <2>1. At("single", r) /\ worker.awaited # NoTx
    BY DEF SingleMined
  <2>2. worker.stage = "single" /\ r = Head(worker.todo) /\ r \in registered
    BY <2>1, AtRow
  <2>3. r \in Range(worker.todo)
    BY <2>1, RangeHeadTail DEF At, WorkerInv, TickInv, WorkerTyped
  <2>4. worker.awaited = Settlement("single", <<r>>)
    BY <2>1, <2>2 DEF WorkerInv, TickInv, AwaitedInv
  <2> QED
    BY <2>1, <2>2, <2>3, <2>4
<1>2. /\ deployment' = deployment /\ bSettled' = bSettled
      /\ sSettled' \subseteq sSettled \cup {r}
  <2>1. CASE Mined(worker.awaited)
    BY <1>1, <2>1, SingleMinedPays DEF WorkerInv, ChainMoves
  <2>2. CASE UNCHANGED chainVars
    BY <2>2 DEF chainVars, singleVars, batchVars
  <2> QED
    BY <2>1, <2>2 DEF SingleMined
<1>3. OnlyRow(r)
  BY FailureOnly, AdvanceOnly DEF SingleMined, WorkerInv
<1>4. HeardOfAll => r \notin bSettled
  <2>1. Quiet => rows[r].status \notin Terminal
    BY <1>1 DEF HandInv, FinalInv, Terminal
  <2> QED
    BY <1>1, <2>1, HeardIsQuiet DEF HandInv, HeardInv
<1>5. HeardOfAll => PaysOnce
  BY <1>2, <1>4 DEF PaysOnce
<1> QED
  BY <1>1, <1>2, <1>3, <1>5, HandNextRow DEF SingleMined, Local, HandStep

\* What a batch settles is new to both routes, and in the hands of the worker.
LEMMA BatchMinedHand ==
  ASSUME WorkerInv, HandInv, BatchMined
  PROVE  HandStep
<1>1. worker.stage = "batch" /\ worker.awaited = Settlement("batch", worker.group)
  BY DEF BatchMined, WorkerInv, TickInv, AwaitedInv
<1>2. worker.group \in Seq(Root) /\ Range(worker.group) \subseteq registered
  BY <1>1, GroupRegistered DEF WorkerInv, TickInv, WorkerTyped
<1>3. rows' = rows /\ queue' = queue /\ stray' = stray
  BY DEF BatchMined, storeVars, Local
<1> DEFINE won == {l.root : l \in B!Accepted(SourceTxsOf(worker.group))}
<1>4. CASE /\ Mined(worker.awaited)
           /\ worker' = [worker EXCEPT !.stage = "receipt", !.awaited = NoTx, !.won = won]
  <2>1. /\ ChainMoves /\ sSettled' = sSettled /\ bSettled' = bSettled \cup won
        /\ won \subseteq Range(worker.group)
        /\ \A r \in won : r \notin bSettled /\ ~B!SettledBySibling(r)
    BY <1>1, <1>2, <1>4, BatchMinedPays DEF WorkerInv
  <2> HIDE DEF won
  <2>2. /\ worker'.stage = "receipt" /\ worker'.todo = worker.todo
        /\ worker'.kept = worker.kept /\ worker'.group = worker.group
        /\ worker'.won = won
    BY <1>4 DEF WorkerInv, TickInv, WorkerTyped, Fields
  <2>3. deployment' = deployment
    BY <2>1 DEF ChainMoves
  <2>4. worker.todo = worker.group
    BY <1>1 DEF HandInv, ListsInv
  <2>5. ListsInv'
    BY <1>3, <2>2 DEF HandInv, ListsInv
  <2>6. FinalInv'
    BY <1>1, <1>3, <2>2, <2>3, SettingsStay DEF HandInv, FinalInv
  <2>7. HeardInv'
    BY <1>1, <1>3, <2>1, <2>2, <2>3, <2>4, SettingsStay DEF HandInv, HeardInv
  <2>8. HeardOfAll => PaysOnce
    <3> SUFFICES ASSUME HeardOfAll, NEW r \in won
                 PROVE  r \notin sSettled
      BY <2>1 DEF PaysOnce
    <3>1. /\ deployment.siblings \in Seq({SingleAddr}) /\ deployment.siblings # <<>>
      BY DEF HeardOfAll, HandInv, SiblingsInv
    <3>2. 1 \in DOMAIN deployment.siblings /\ deployment.siblings[1] = SingleAddr
      BY <3>1, EmptySeq, LenProperties, ElementOfSeq
    <3> QED
      BY <2>1, <3>2 DEF B!SettledBySibling, B!SaysYes
  <2> QED
    BY <1>3, <2>3, <2>5, <2>6, <2>7, <2>8, SettingsStay DEF HandInv, HandStep, FinalStep
<1>5. CASE UNCHANGED chainVars /\ FallBack
  BY <1>1, <1>5, ChainsStill, HandFallsBack DEF BatchMined, Local, HandStep
<1> QED
  BY <1>4, <1>5 DEF BatchMined

LEMMA BatchFailsHand ==
  ASSUME WorkerInv, HandInv, BatchFails
  PROVE  HandStep
<1>1. HeardOfAll => stray' = stray
  BY DEF BatchFails, HeardOfAll
<1> QED
  BY <1>1, ChainsStill, HandFallsBack DEF BatchFails, HandStep

LEMMA ReceiptFailsHand ==
  ASSUME WorkerInv, HandInv, worker.stage = "receipt", ~Quiet, FallBack,
         UNCHANGED <<chainVars, storeVars>>, Local
  PROVE  HandStep
BY ChainsStill, HandFallsBack DEF Local, HandStep

LEMMA WriteFailsHand ==
  ASSUME WorkerInv, HandInv, NEW r \in Root, WriteFails(r)
  PROVE  HandStep
<1>1. ~Quiet /\ ~HeardOfAll
  BY DEF WriteFails, Quiet, HeardOfAll
<1>2. ASSUME NEW stage \in {"relay", "single"}, At(stage, r), worker.awaited # NoTx,
             Mined(worker.awaited), RecordFailure(r, FALSE), NextRow, UNCHANGED queue
      PROVE  HandStep
  <2>1. deployment' = deployment
    BY <1>2, RowMined DEF ChainMoves
  <2>2. OnlyRow(r)
    BY <1>2, FailureOnly DEF WorkerInv
  <2> QED
    BY <1>1, <1>2, <2>1, <2>2, HandNextRow DEF HandStep
<1>3. CASE At("receipt", r) /\ FallBack /\ UNCHANGED <<chainVars, storeVars>>
  BY <1>1, <1>3, ReceiptFailsHand DEF At, WriteFails
<1> QED
  BY <1>2, <1>3 DEF WriteFails

LEMMA StepHand ==
  ASSUME WorkerInv, HandInv, Step
  PROVE  HandStep
<1>1. ASSUME NEW r \in Root, ReceiptReadFails(r) PROVE HandStep
  BY <1>1, ReceiptFailsHand DEF ReceiptReadFails, At, Quiet
<1> QED
  BY <1>1, PreparingHand, RecoverRowHand, ClaimSubmittedHand, ClaimAwaitingHand,
     StartChecksHand, PickGroupHand, EndTickHand, BatchMinedHand, BatchFailsHand,
     RelayMinedHand, FailingHand, KeepingHand, CheckClosesRowHand, ReadReceiptHand,
     SingleMinedHand, WriteFailsHand
     DEF Step

LEMMA WorldHand ==
  ASSUME WorkerInv, HandInv, World
  PROVE  HandStep
<1>1. ASSUME NEW r \in Root, NEW c \in Contributor, Accept(r, c) PROVE HandStep
  <2>1. UNCHANGED <<deployment, sSettled, bSettled>>
    BY <1>1 DEF Accept, Sign, singleVars, batchVars
  <2>2. /\ \A q \in Root : rows[q].status # "NONE" => rows'[q].status = rows[q].status
        /\ IsInjective(queue')
    BY <1>1, InsertOnly DEF Accept, WorkerInv, HandInv
  <2> QED
    BY <1>1, <2>1, <2>2, NothingPaid, HandSame DEF Accept, HandStep
<1>2. ASSUME NEW r \in Root, BackoffElapses(r) PROVE HandStep
  <2>1. \A q \in Root : rows'[q].status = rows[q].status
    BY <1>2 DEF BackoffElapses, WorkerInv, StoreInv, Row
  <2> QED
    BY <1>2, <2>1, ChainsStill, HandSame DEF BackoffElapses, HandStep, HandInv, ListsInv
<1>3. ASSUME UNCHANGED workerVars, deployment' = deployment, HeardOfAll => bSettled' = bSettled
      PROVE  HandStep
  <2>1. rows' = rows /\ queue' = queue /\ worker' = worker /\ stray' = stray
    BY <1>3 DEF workerVars, storeVars
  <2>2. PaysOnce
    BY <1>3 DEF PaysOnce
  <2> QED
    BY <1>3, <2>1, <2>2, HandSame DEF HandStep, HandInv, ListsInv
<1>4. ASSUME (\E e \in submitted : Attest(e) /\ UNCHANGED workerVars)
               \/ (NextBlock /\ UNCHANGED workerVars)
      PROVE  HandStep
  BY <1>3, <1>4 DEF Attest, NextBlock, batchVars
<1>5. ASSUME OthersSettle PROVE HandStep
  <2>1. UNCHANGED workerVars
    BY <1>5 DEF OthersSettle
  <2>2. deployment' = deployment
    BY <1>5 DEF OthersSettle, SettleSingle, SettleBatch
  <2>3. HeardOfAll => bSettled' = bSettled
    BY <1>5 DEF OthersSettle, SettleSingle, HeardOfAll, batchVars
  <2> QED
    BY <1>3, <2>1, <2>2, <2>3
<1>6. ASSUME StrayLands PROVE HandStep
  <2>1. PICK i \in DOMAIN stray :
          /\ Mined(stray[i]) \/ UNCHANGED chainVars
          /\ UNCHANGED <<storeVars, worker>>
    BY <1>6 DEF StrayLands
  <2>2. stray[i] \in SentTx
    BY LenProperties, ElementOfSeq DEF WorkerInv, CountInv
  <2>3. deployment' = deployment
    BY <2>1, <2>2, MinedMoves, ChainsStill DEF WorkerInv, ChainMoves
  <2>4. ~HeardOfAll
    <3>1. stray # <<>>
      BY <2>1, EmptySeq, LenProperties
    <3> QED
      BY <3>1 DEF HandInv, HeardInv
  <2> QED
    BY <2>1, <2>3, <2>4, HandSame DEF HandStep, HandInv, ListsInv, storeVars
<1>7. ASSUME Crash PROVE HandStep
  <2>1. deployment' = deployment
    BY <1>7, ChainsStill DEF Crash
  <2>2. ~HeardOfAll
    BY <1>7, GatewayTyped DEF Crash, HeardOfAll, WorkerInv, CountInv
  <2>3. worker'.todo = <<>> /\ worker'.kept = <<>> /\ worker'.group = <<>>
        /\ worker'.stage = "idle"
    BY <1>7 DEF Crash, Resting
  <2>4. IsInjective(queue')
    BY <1>7, EmptyInjective DEF Crash, storeVars, HandInv, ListsInv
  <2>5. ListsInv'
    BY <2>3, <2>4, EmptyInjective, RangeEmpty DEF ListsInv
  <2>6. FinalInv'
    BY <2>3, RangeEmpty DEF FinalInv
  <2>7. HeardInv'
    BY <2>1, <2>2, SettingsStay DEF HeardInv
  <2>8. FinalStep
    BY <1>7 DEF Crash, storeVars, FinalStep, NoRow
  <2> QED
    BY <2>1, <2>2, <2>5, <2>6, <2>7, <2>8, SettingsStay DEF HandStep, HandInv
<1> QED
  BY <1>1, <1>2, <1>4, <1>5, <1>6, <1>7 DEF World

LEMMA NextHand ==
  ASSUME WorkerInv, HandInv, [Next]_vars
  PROVE  HandStep
<1>1. CASE UNCHANGED vars
  <2>1. UNCHANGED <<chainVars, rows, queue, worker, stray>>
    BY <1>1 DEF vars, workerVars, storeVars
  <2> QED
    BY <2>1, ChainsStill, HandSame DEF HandStep, HandInv, ListsInv
<1> QED
  BY <1>1, StepHand, WorldHand DEF Next

LEMMA InitHand ==
  ASSUME Init
  PROVE  HandInv
<1>1. PICK d \in Deployments, g \in Gateways : deployment = Fronted(d, g)
  BY DEF Init, ChainsInit
<1>2. SiblingsInv
  BY <1>1, RoutesAssumption DEF Fronted, Deployments, SiblingsInv
<1>3. /\ worker.todo = <<>> /\ worker.kept = <<>> /\ worker.group = <<>>
      /\ worker.stage = "idle" /\ queue = <<>> /\ stray = <<>> /\ bSettled = {}
  BY DEF Init, Resting, ChainsInit
<1> QED
  BY <1>2, <1>3, EmptyInjective, RangeEmpty DEF HandInv, ListsInv, FinalInv, HeardInv

LEMMA HandInvAlways == Spec => [](WorkerInv /\ HandInv)
<1>1. Init => WorkerInv /\ HandInv
  BY InitWorkerInv, InitHand
<1>2. WorkerInv /\ HandInv /\ [Next]_vars => (WorkerInv /\ HandInv)'
  BY NextWorkerInv, NextHand DEF HandStep
<1> QED
  BY <1>1, <1>2, PTL DEF Spec

\* A row that is in several hands, a batch, the fallback to single settlement
\* and reconciliation, is closed once: as long as routes can be read and rows
\* be written, no step takes it out of a terminal state but a loss of the store.
THEOREM ClosedRowsStayClosed == Spec => TerminalIsFinal
<1>1. WorkerInv /\ HandInv /\ [Next]_vars =>
        [\A r \in Root : {"read", "store"} \cap Faults = {} /\ rows[r].status \in Terminal =>
           rows'[r].status \in {rows[r].status, "NONE"}]_vars
  BY NextHand DEF HandStep, FinalStep, Quiet
<1> QED
  BY <1>1, HandInvAlways, PTL DEF Spec, TerminalIsFinal

\* A gateway that hears of what it sends, and can read the routes and write its
\* rows, never has a measurement paid for that was paid for already, whatever
\* else fails, for as many rows, batches and fallbacks as there are.
THEOREM HeardIsPaidOnce == Spec => PaysOnceWhenHeard
<1>1. WorkerInv /\ HandInv /\ [Next]_vars => [HeardOfAll => PaysOnce]_vars
  BY NextHand DEF HandStep
<1> QED
  BY <1>1, HandInvAlways, PTL DEF Spec, PaysOnceWhenHeard
============================================================================
