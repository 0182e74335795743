--------------------------- MODULE GatewayProofs ---------------------------
(***************************************************************************)
(* The gateway over its store, and the tab in front of it: for any number  *)
(* of requests served at a time, contributors, cells, readings and clocks. *)
(***************************************************************************)
EXTENDS MeasurementRun, FiniteSetTheorems, SequenceTheorems, TLAPS

---------------------------------------------------------------------------
(* Lists.                                                                  *)

LEMMA AppendFacts ==
  ASSUME NEW S, NEW s \in Seq(S), NEW x \in S
  PROVE  LET t == Append(s, x)
         IN /\ t \in Seq(S) /\ Len(s) \in Nat /\ DOMAIN s = 1 .. Len(s)
            /\ Len(t) = Len(s) + 1 /\ DOMAIN t = DOMAIN s \cup {Len(s) + 1}
            /\ Len(s) + 1 \notin DOMAIN s
            /\ \A i \in DOMAIN s : t[i] = s[i]
            /\ t[Len(s) + 1] = x
<1> DEFINE t == Append(s, x)
<1>1. /\ t \in Seq(S) /\ Len(t) = Len(s) + 1
      /\ \A i \in 1 .. Len(s) : t[i] = s[i]
      /\ t[Len(s) + 1] = x
  BY AppendProperties
<1>2. Len(s) \in Nat /\ DOMAIN s = 1 .. Len(s) /\ DOMAIN t = 1 .. Len(s) + 1
  BY <1>1, LenProperties
<1>3. 1 .. Len(s) + 1 = 1 .. Len(s) \cup {Len(s) + 1} /\ Len(s) + 1 \notin 1 .. Len(s)
  BY <1>2
<1> QED
  BY <1>1, <1>2, <1>3

\* What is left of a list are the entries that stay, once each.
LEMMA WithoutFacts ==
  ASSUME NEW S, NEW s \in Seq(S), NEW gone, NEW t \in Without(s, gone)
  PROVE  /\ t \in Seq(S)
         /\ \E at \in [DOMAIN t -> DOMAIN s \ gone] :
              /\ \A k \in DOMAIN t : t[k] = s[at[k]]
              /\ \A i \in DOMAIN s \ gone : \E k \in DOMAIN t : at[k] = i
              /\ \A k, l \in DOMAIN t : at[k] = at[l] => k = l
<1> DEFINE stay == DOMAIN s \ gone
           n == Cardinality(stay)
<1>1. Len(s) \in Nat /\ DOMAIN s = 1 .. Len(s) /\ \A i \in DOMAIN s : s[i] \in S
  BY LenProperties, ElementOfSeq
<1>2. IsFiniteSet(stay) /\ n \in Nat
  <2>1. IsFiniteSet(1 .. Len(s))
    BY <1>1, FS_Interval
  <2> QED
    BY <1>1, <2>1, FS_Subset, FS_CardinalityType
<1>3. PICK at \in [1 .. n -> stay] :
        /\ Range(at) = stay
        /\ \A i, j \in DOMAIN at : i < j => at[i] < at[j]
        /\ t = [k \in DOMAIN at |-> s[at[k]]]
  BY DEF Without
<1> HIDE DEF n
<1>4. DOMAIN at = 1 .. n /\ DOMAIN t = 1 .. n /\ \A k \in 1 .. n : at[k] \in stay /\ t[k] = s[at[k]]
  BY <1>3
<1>5. t \in [1 .. n -> S]
  BY <1>1, <1>3, <1>4
<1>6. t \in Seq(S)
  BY <1>2, <1>5, SeqDef
<1>7. \A i \in stay : \E k \in 1 .. n : at[k] = i
  BY <1>3, <1>4 DEF Range
<1>8. \A k, l \in 1 .. n : k = l \/ k < l \/ l < k
  BY <1>2
<1>9. \A k, l \in 1 .. n : k < l => at[k] # at[l]
  <2> SUFFICES ASSUME NEW k \in 1 .. n, NEW l \in 1 .. n, k < l
               PROVE  at[k] # at[l]
    OBVIOUS
  <2>1. at[k] < at[l]
    BY <1>3, <1>4
  <2>2. at[k] \in Nat /\ at[l] \in Nat
    BY <1>1, <1>4
  <2> QED
    BY <2>1, <2>2
<1>10. /\ at \in [DOMAIN t -> stay]
       /\ \A k \in DOMAIN t : t[k] = s[at[k]]
       /\ \A i \in stay : \E k \in DOMAIN t : at[k] = i
       /\ \A k, l \in DOMAIN t : at[k] = at[l] => k = l
  BY <1>4, <1>7, <1>8, <1>9
<1> QED
  BY <1>6, <1>10

---------------------------------------------------------------------------
(* The inductive invariant.                                                *)

SigOf(s) == [signer |-> s.who, root |-> s]
Signed(s) == SigOf(s) \in signed

\* Memory: the nonces of the gateway's rows are reserved, each is that of one
\* row, and so is each text of a root; a recovered row has the canonical text.
\* MySQL: a root has one row.  Nothing is shown as settled too early.
SameText(p, q) == p.root = q.root /\ p.recased = q.recased

StoreInv ==
  /\ handle \in Handle /\ prober \in Caller \cup {NoCaller}
  /\ rows \in Seq(Row) /\ sql \in SUBSET Row
  /\ \A n \in nonces : n[1] \in {"gateway", "chain"}
  /\ \A i \in DOMAIN rows : rows[i].origin = "gateway" => NonceOf(rows[i]) \in nonces
  /\ \A i, j \in DOMAIN rows :
       /\ rows[i].origin = "gateway" /\ rows[j].origin = "gateway"
       /\ NonceOf(rows[i]) = NonceOf(rows[j])
       => i = j
  /\ \A i, j \in DOMAIN rows : SameText(rows[i], rows[j]) => i = j
  /\ \A i \in DOMAIN rows : rows[i].origin = "chain" => ~rows[i].recased
  /\ \A p, q \in sql : p.root = q.root => p = q
  /\ \A r \in Range(rows) \cup sql : r.status = "SETTLED" => r.root \in paid

\* A request holds what somebody signed, and past admission the reading itself.
RequestOK(q, made) ==
  /\ q \in Request
  /\ q.pc = "arriving" => q.sub.sig \in made
  /\ q.pc \in {"lookup", "insert", "readback"} =>
       q.sub.root = q.sub.payload /\ SigOf(q.sub.root) \in made

RequestsOK == DOMAIN requests = Slot /\ \A r \in Slot : RequestOK(requests[r], signed)

SignedInv ==
  /\ RequestsOK
  /\ signed \in SUBSET Signature /\ onChain \in SUBSET Reading
  /\ \A s \in onChain : Signed(s)
  /\ \A r \in Range(rows) \cup sql : Signed(r.root)
  /\ \A i \in DOMAIN admitted : Signed(admitted[i].reading)

\* The limiter counts every admission that still matters to its key.
RateInv ==
  /\ admitted \in Seq([reading : Reading, at : 0 .. MaxTime])
  /\ accepted \in [Key -> SUBSET DOMAIN admitted]
  /\ \A i \in DOMAIN admitted :
       /\ admitted[i].at <= now
       /\ now - admitted[i].at < RATE_WINDOW => i \in accepted[KeyOf(admitted[i].reading)]
  /\ CellRate

TabInv ==
  /\ tab \in Tab /\ runs \in SUBSET Run
  /\ started \in 0 .. config.runs /\ resends \in 0 .. config.resends
  /\ \A r \in runs : r.at \in 0 .. MaxTime + MAX_SKEW + 1
  /\ \A r, q \in Mounted : r = q
  /\ Mounted # {} => tab.testState \in {"sampling", "submitted"} /\ tab.submittedRoot = NoReading
  /\ tab.testState = "settled" => tab.submittedRoot \in paid
  /\ tab.polledStatus = "SETTLED" => tab.polled \in paid

ClockInv == config \in Configs /\ now \in 0 .. MaxTime /\ restarts \in Nat

GatewayInv == ClockInv /\ StoreInv /\ SignedInv /\ RateInv

RunInv == GatewayInv /\ TabInv

\* What LiveRowsStay asks of a step.
LiveStep ==
  \A r \in Range(rows) :
    r.status \notin Terminal =>
      \E q \in Range(rows') : q.root = r.root /\ q.recased = r.recased

---------------------------------------------------------------------------
(* The store.                                                              *)

\* Every row after the step is of a root that had one, or of this one.
RootsFrom(root) ==
  \A r \in Range(rows') \cup sql' :
    r.root = root \/ \E q \in Range(rows) \cup sql : q.root = r.root

LEMMA NonceOrigin ==
  ASSUME NEW row \in Row
  PROVE  NonceOf(row)[1] = row.origin /\ row.origin \in {"gateway", "chain"}
BY DEF Row, NonceOf

LEMMA MemInsertSound ==
  ASSUME StoreInv, NEW row \in Row, row.status # "SETTLED", paid' = paid,
         row.origin = "gateway" => NonceOf(row) \notin nonces,
         MemGet(row.root, row.recased) = {}, row.origin = "chain" => ~row.recased,
         MemInsert(row)
  PROVE  StoreInv' /\ LiveStep /\ RootsFrom(row.root)
<1> DEFINE s == Append(rows, row)
           last == Len(rows) + 1
           gone == Evicted(s)
<1>1. /\ s \in Seq(Row) /\ DOMAIN s = DOMAIN rows \cup {last} /\ last \notin DOMAIN rows
      /\ \A i \in DOMAIN rows : s[i] = rows[i]
      /\ s[last] = row
  BY AppendFacts DEF StoreInv
<1>2. /\ rows' \in Without(s, gone)
      /\ nonces' = (nonces \cup {NonceOf(row)}) \ {NonceOf(s[i]) : i \in gone}
      /\ UNCHANGED <<handle, prober, sql>>
  BY DEF MemInsert
<1>3. gone \subseteq {i \in DOMAIN s : s[i].status \in Terminal}
  BY DEF Evicted
<1> HIDE DEF s, last, gone
<1>4. s \in Seq(Row) /\ rows' \in Without(s, gone)
  BY <1>1, <1>2
<1>5. /\ rows' \in Seq(Row)
      /\ \E at \in [DOMAIN rows' -> DOMAIN s \ gone] :
           /\ \A k \in DOMAIN rows' : rows'[k] = s[at[k]]
           /\ \A i \in DOMAIN s \ gone : \E k \in DOMAIN rows' : at[k] = i
           /\ \A k, l \in DOMAIN rows' : at[k] = at[l] => k = l
  BY <1>4, WithoutFacts
<1>at. PICK at \in [DOMAIN rows' -> DOMAIN s \ gone] :
        /\ \A k \in DOMAIN rows' : rows'[k] = s[at[k]]
        /\ \A i \in DOMAIN s \ gone : \E k \in DOMAIN rows' : at[k] = i
        /\ \A k, l \in DOMAIN rows' : at[k] = at[l] => k = l
  BY <1>5
<1>6. \A i \in DOMAIN s : s[i] \in Row
  BY <1>4, LenProperties, ElementOfSeq
<1>7. \A i, j \in DOMAIN s :
        /\ s[i].origin = "gateway" /\ s[j].origin = "gateway"
        /\ NonceOf(s[i]) = NonceOf(s[j])
        => i = j
  BY <1>1 DEF StoreInv
<1>8. \A k, l \in DOMAIN rows' :
        /\ rows'[k].origin = "gateway" /\ rows'[l].origin = "gateway"
        /\ NonceOf(rows'[k]) = NonceOf(rows'[l])
        => k = l
  BY <1>at, <1>7
<1>14. \A i, j \in DOMAIN s : SameText(s[i], s[j]) => i = j
  <2>1. \A i \in DOMAIN rows : ~SameText(rows[i], row) /\ ~SameText(row, rows[i])
    BY DEF MemGet, SameText, Range
  <2>2. \A i, j \in DOMAIN rows : SameText(rows[i], rows[j]) => i = j
    BY DEF StoreInv
  <2> QED
    BY <1>1, <2>1, <2>2
<1>15. \A k, l \in DOMAIN rows' : SameText(rows'[k], rows'[l]) => k = l
  BY <1>at, <1>14
<1>16. \A k \in DOMAIN rows' : rows'[k].origin = "chain" => ~rows'[k].recased
  BY <1>1, <1>at DEF StoreInv
<1>9. ASSUME NEW k \in DOMAIN rows', rows'[k].origin = "gateway"
      PROVE  NonceOf(rows'[k]) \in nonces'
  <2>1. at[k] \in DOMAIN s \ gone /\ rows'[k] = s[at[k]] /\ s[at[k]].origin = "gateway"
    BY <1>at, <1>9
  <2>2. NonceOf(s[at[k]]) \in nonces \cup {NonceOf(row)}
    BY <1>1, <2>1 DEF StoreInv
  <2>3. ASSUME NEW i \in gone, NonceOf(s[i]) = NonceOf(s[at[k]])
        PROVE  FALSE
    <3>1. i \in DOMAIN s
      BY <1>3
    <3>2. s[i].origin = "gateway"
      BY <1>6, <2>1, <2>3, <3>1, NonceOrigin
    <3> QED
      BY <1>7, <2>1, <2>3, <3>1, <3>2
  <2> QED
    BY <1>2, <2>1, <2>2, <2>3
<1>10. \A n \in nonces' : n[1] \in {"gateway", "chain"}
  BY <1>2, NonceOrigin DEF StoreInv
<1>11. \A r \in Range(rows') : r \in Range(rows) \cup {row}
  BY <1>1, <1>at DEF Range
<1>12. LiveStep
  <2> SUFFICES ASSUME NEW i \in DOMAIN rows, rows[i].status \notin Terminal
               PROVE  rows[i] \in Range(rows')
    BY DEF LiveStep, Range
  <2>1. i \in DOMAIN s \ gone
    BY <1>1, <1>3
  <2> QED
    BY <1>1, <1>at, <2>1 DEF Range
<1>13. StoreInv'
  BY <1>2, <1>5, <1>8, <1>9, <1>10, <1>11, <1>15, <1>16 DEF StoreInv
<1> QED
  BY <1>2, <1>11, <1>12, <1>13 DEF RootsFrom

LEMMA StatusWritten ==
  ASSUME NEW row \in Row, NEW status \in Status
  PROVE  LET new == [row EXCEPT !.status = status]
         IN /\ new \in Row /\ new.status = status
            /\ new.root = row.root /\ new.recased = row.recased /\ new.origin = row.origin
            /\ NonceOf(new) = NonceOf(row)
<1> DEFINE new == [row EXCEPT !.status = status]
<1>1. /\ new \in Row /\ new.status = status
      /\ new.root = row.root /\ new.recased = row.recased /\ new.origin = row.origin
  BY DEF Row
<1> HIDE DEF new
<1>2. NonceOf(new) = NonceOf(row)
  BY <1>1 DEF NonceOf
<1> QED
  BY <1>1, <1>2 DEF new

LEMMA MemUpdateSound ==
  ASSUME StoreInv, NEW row \in Range(rows), NEW status \in Status, paid \subseteq paid',
         status = "SETTLED" => row.root \in paid', MemUpdate(row, status)
  PROVE  StoreInv' /\ LiveStep /\ RootsFrom(row.root)
<1> DEFINE new == [row EXCEPT !.status = status]
<1>1. Len(rows) \in Nat /\ DOMAIN rows = 1 .. Len(rows) /\ \A i \in DOMAIN rows : rows[i] \in Row
  BY LenProperties, ElementOfSeq DEF StoreInv
<1>2. row \in Row
  BY <1>1 DEF Range
<1>3. /\ new \in Row /\ new.status = status
      /\ new.root = row.root /\ new.recased = row.recased /\ new.origin = row.origin
      /\ NonceOf(new) = NonceOf(row)
  BY <1>2, StatusWritten
<1>4. /\ rows' = [i \in DOMAIN rows |-> IF rows[i] = row THEN new ELSE rows[i]]
      /\ UNCHANGED <<handle, prober, nonces, sql>>
  BY DEF MemUpdate
<1> HIDE DEF new
<1>5. /\ DOMAIN rows' = DOMAIN rows
      /\ \A i \in DOMAIN rows :
           /\ rows'[i] \in Row /\ rows'[i] \in {rows[i], new}
           /\ rows'[i].root = rows[i].root /\ rows'[i].recased = rows[i].recased
           /\ rows'[i].origin = rows[i].origin /\ NonceOf(rows'[i]) = NonceOf(rows[i])
  BY <1>1, <1>3, <1>4
<1>6. rows' \in Seq(Row)
  <2>1. rows' \in [1 .. Len(rows) -> Row]
    BY <1>1, <1>4, <1>5
  <2> QED
    BY <1>1, <2>1, SeqDef
<1>7. \A r \in Range(rows') \cup sql' : r.status = "SETTLED" => r.root \in paid'
  BY <1>3, <1>4, <1>5 DEF StoreInv, Range
<1>8. LiveStep /\ RootsFrom(row.root)
  BY <1>4, <1>5 DEF LiveStep, RootsFrom, Range
<1>9. StoreInv'
  BY <1>4, <1>5, <1>6, <1>7 DEF StoreInv, SameText
<1> QED
  BY <1>8, <1>9

LEMMA SqlInsertSound ==
  ASSUME StoreInv, NEW row \in Row, row.status # "SETTLED", paid' = paid,
         \A q \in sql : q.root # row.root, SqlInsert(row)
  PROVE  StoreInv' /\ LiveStep /\ RootsFrom(row.root)
BY DEF SqlInsert, StoreInv, LiveStep, RootsFrom

LEMMA SqlUpdateSound ==
  ASSUME StoreInv, NEW row \in sql, NEW status \in Status, paid \subseteq paid',
         status = "SETTLED" => row.root \in paid', SqlUpdate(row, status)
  PROVE  StoreInv' /\ LiveStep /\ RootsFrom(row.root)
<1> DEFINE new == [row EXCEPT !.status = status]
<1>1. row \in Row
  BY DEF StoreInv
<1>2. /\ new \in Row /\ new.status = status /\ new.root = row.root
  BY <1>1, StatusWritten
<1>3. sql' = (sql \ {row}) \cup {new} /\ UNCHANGED <<handle, prober, rows, nonces>>
  BY DEF SqlUpdate
<1> HIDE DEF new
<1>4. \A p, q \in sql' : p.root = q.root => p = q
  BY <1>2, <1>3 DEF StoreInv
<1>5. StoreInv'
  BY <1>2, <1>3, <1>4 DEF StoreInv
<1> QED
  BY <1>2, <1>3, <1>5 DEF LiveStep, RootsFrom

\* An insert that the unique keys do not refuse, or of a root without a row.
LEMMA InsertSound ==
  ASSUME StoreInv, NEW c, NEW row \in Row, row.status # "SETTLED", paid' = paid,
         row.origin = "chain" => ~row.recased,
         \/ ~Taken(c, row)
         \/ row.origin = "chain" /\ GetByRoot(c, row.root, row.recased) = {},
         Insert(c, row)
  PROVE  StoreInv' /\ LiveStep /\ RootsFrom(row.root)
<1>1. CASE OnMySQL(c)
  <2>1. \A q \in sql : q.root # row.root
    BY <1>1 DEF Taken, SqlTaken, GetByRoot, SqlGet
  <2> QED
    BY <1>1, <2>1, SqlInsertSound DEF Insert
<1>2. CASE ~OnMySQL(c)
  <2>1. row.origin = "gateway" => NonceOf(row) \notin nonces
    BY <1>2 DEF Taken, MemTaken
  <2>2. MemGet(row.root, row.recased) = {}
    BY <1>2 DEF Taken, MemTaken, GetByRoot
  <2> QED
    BY <1>2, <2>1, <2>2, MemInsertSound DEF Insert
<1> QED
  BY <1>1, <1>2

LEMMA UpdateSound ==
  ASSUME StoreInv, NEW c, NEW row \in Rows(c), NEW status \in Status, paid \subseteq paid',
         status = "SETTLED" => row.root \in paid', Update(c, row, status)
  PROVE  StoreInv' /\ LiveStep /\ RootsFrom(row.root)
BY MemUpdateSound, SqlUpdateSound DEF Rows, Update

---------------------------------------------------------------------------
(* Requests.                                                               *)

LEMMA RequestsSame ==
  ASSUME RequestsOK, signed \subseteq signed', requests' = requests
  PROVE  RequestsOK'
BY DEF RequestsOK, RequestOK, Signed

\* One slot is given another request.
LEMMA RequestsChange ==
  ASSUME RequestsOK, signed \subseteq signed', NEW r \in Slot, NEW q,
         requests' = [requests EXCEPT ![r] = q], RequestOK(q, signed')
  PROVE  RequestsOK'
<1>1. DOMAIN requests' = Slot /\ requests'[r] = q /\ \A o \in Slot \ {r} : requests'[o] = requests[o]
  BY DEF RequestsOK
<1>2. \A o \in Slot \ {r} : RequestOK(requests'[o], signed')
  BY <1>1 DEF RequestsOK, RequestOK, Signed
<1> QED
  BY <1>1, <1>2 DEF RequestsOK

LEMMA RequestsFreed ==
  ASSUME RequestsOK, signed' = signed, NEW r \in Slot,
         requests' = [requests EXCEPT ![r] = Idle]
  PROVE  RequestsOK'
<1>1. RequestOK(Idle, signed')
  BY DEF RequestOK, Request, Idle
<1> QED
  BY <1>1, RequestsChange

LEMMA RequestsAnswered ==
  ASSUME RequestsOK, signed' = signed, NEW r \in Slot, NEW text \in Text, Answer(r, text)
  PROVE  RequestsOK'
<1> DEFINE q == [pc |-> "answered", answer |-> text]
<1>1. RequestOK(q, signed')
  BY DEF RequestOK, Request
<1>2. requests' = [requests EXCEPT ![r] = q] \/ requests' = [requests EXCEPT ![r] = Idle]
  BY DEF Answer
<1> HIDE DEF q
<1> QED
  BY <1>1, <1>2, RequestsChange, RequestsFreed

LEMMA RequestsAdvance ==
  ASSUME RequestsOK, signed' = signed, NEW r \in Slot,
         NEW pc \in {"lookup", "insert", "readback"},
         requests[r].pc \in {"arriving", "lookup", "insert"},
         requests[r].sub.root = requests[r].sub.payload, Signed(requests[r].sub.root),
         Goto(r, pc)
  PROVE  RequestsOK'
<1> DEFINE q == [requests[r] EXCEPT !.pc = pc]
<1>1. requests[r] \in [pc : {"arriving", "lookup", "insert", "readback"}, sub : Submission]
  BY DEF RequestsOK, RequestOK, Request, Idle
<1>2. /\ q \in [pc : {"arriving", "lookup", "insert", "readback"}, sub : Submission]
      /\ q.pc = pc /\ q.sub = requests[r].sub
  BY <1>1
<1>3. requests' = [requests EXCEPT ![r] = q]
  BY DEF Goto
<1> HIDE DEF q
<1>4. RequestOK(q, signed')
  BY <1>2 DEF RequestOK, Request, Signed
<1> QED
  BY <1>3, <1>4, RequestsChange

LEMMA RequestsSent ==
  ASSUME RequestsOK, signed \subseteq signed', NEW r \in Slot, NEW s \in Submission,
         s.sig \in signed', Send(r, s)
  PROVE  RequestsOK'
<1> DEFINE q == [pc |-> "arriving", sub |-> s]
<1>1. RequestOK(q, signed')
  BY DEF RequestOK, Request
<1>2. requests' = [requests EXCEPT ![r] = q]
  BY DEF Send
<1> HIDE DEF q
<1> QED
  BY <1>1, <1>2, RequestsChange

\* What a request past admission holds.
LEMMA Holds ==
  ASSUME RequestsOK, NEW r \in Slot, requests[r].pc \in {"arriving", "lookup", "insert", "readback"}
  PROVE  /\ requests[r].sub \in Submission
         /\ requests[r].pc = "arriving" => requests[r].sub.sig \in signed
         /\ requests[r].pc # "arriving" =>
              /\ requests[r].sub.root = requests[r].sub.payload
              /\ Signed(requests[r].sub.root)
<1> DEFINE q == requests[r]
<1>1. RequestOK(q, signed)
  BY DEF RequestsOK
<1> HIDE DEF q
<1>2. CASE q.pc \in {"arriving", "lookup", "insert", "readback"}
  <2>1. q \in [pc : {"arriving", "lookup", "insert", "readback"}, sub : Submission]
    BY <1>1, <1>2 DEF RequestOK, Request, Idle
  <2> QED
    BY <1>1, <1>2, <2>1 DEF RequestOK, Signed, q
<1> QED
  BY <1>2 DEF q

---------------------------------------------------------------------------
(* What a step leaves alone.                                               *)

LEMMA StoreSame ==
  ASSUME StoreInv, UNCHANGED <<rows, nonces, sql>>, handle' \in Handle,
         prober' \in Caller \cup {NoCaller}, paid \subseteq paid'
  PROVE  StoreInv' /\ LiveStep
BY DEF StoreInv, LiveStep

\* The signatures are those there were, or more, and so are the roots of rows.
LEMMA SignedSame ==
  ASSUME SignedInv, RequestsOK', signed \subseteq signed', signed' \in SUBSET Signature,
         onChain' = onChain, UNCHANGED <<rows, sql>>, admitted' = admitted
  PROVE  SignedInv'
BY DEF SignedInv, Signed

LEMMA RateSame ==
  ASSUME RateInv, UNCHANGED <<now, accepted, admitted>>
  PROVE  RateInv'
BY DEF RateInv, CellRate

LEMMA ClockSame ==
  ASSUME ClockInv, UNCHANGED <<config, now, restarts>>
  PROVE  ClockInv'
BY DEF ClockInv

LEMMA TabSame ==
  ASSUME TabInv, UNCHANGED tabVars, config' = config, paid \subseteq paid'
  PROVE  TabInv'
BY DEF TabInv, Mounted, tabVars

---------------------------------------------------------------------------
(* Admission.                                                              *)

\* What passes the checks is the reading its contributor signed.
LEMMA AdmittedIsSigned ==
  ASSUME NEW s \in Submission, s.sig \in signed, IntegrityRefusal(s) = "none"
  PROVE  s.root = s.payload /\ Signed(s.payload)
BY DEF IntegrityRefusal, Signed, SigOf

LEMMA RefusalIsText ==
  ASSUME NEW s
  PROVE  /\ PolicyRefusal(s) \in Text \cup {"none"}
         /\ IntegrityRefusal(s) \in Text \cup {"none"}
BY DEF PolicyRefusal, IntegrityRefusal, Text

LEMMA KeyTyped ==
  ASSUME NEW s \in Reading
  PROVE  KeyOf(s) \in Key
BY GatewayAssumption DEF KeyOf, Key

\* The admissions of a key in a window that is not over all count for it.
LEMMA WindowCounts ==
  ASSUME RateInv, ClockInv, NEW k \in Key, NEW t \in 0 .. MaxTime, now \in t .. t + RATE_WINDOW - 1,
         NEW i \in DOMAIN admitted, KeyOf(admitted[i].reading) = k,
         admitted[i].at \in t .. t + RATE_WINDOW - 1
  PROVE  i \in Recent(k)
<1>1. admitted[i].at \in Nat /\ now \in Nat /\ RATE_WINDOW \in Nat /\ t \in Nat
  <2>1. admitted[i] \in [reading : Reading, at : 0 .. MaxTime]
    BY ElementOfSeq, LenProperties DEF RateInv
  <2> QED
    BY <2>1, GatewayAssumption DEF ClockInv
<1>2. now - admitted[i].at < RATE_WINDOW
  BY <1>1
<1> QED
  BY <1>2 DEF RateInv, Recent

LEMMA RecentFinite ==
  ASSUME RateInv, NEW k \in Key
  PROVE  /\ Recent(k) \subseteq DOMAIN admitted
         /\ IsFiniteSet(Recent(k)) /\ Cardinality(Recent(k)) \in Nat
<1>1. Recent(k) \subseteq DOMAIN admitted
  BY DEF Recent, RateInv
<1>2. Len(admitted) \in Nat /\ DOMAIN admitted = 1 .. Len(admitted)
  BY LenProperties DEF RateInv
<1>3. IsFiniteSet(1 .. Len(admitted))
  BY <1>2, FS_Interval
<1> QED
  BY <1>1, <1>2, <1>3, FS_Subset, FS_CardinalityType

\* An admission below the limit keeps every window below it.
LEMMA AdmissionSound ==
  ASSUME RateInv, ClockInv, NEW s \in Reading, ~RateLimited(KeyOf(s)), now' = now,
         accepted' = [accepted EXCEPT ![KeyOf(s)] = Recent(KeyOf(s)) \cup {Len(admitted) + 1}],
         admitted' = Append(admitted, [reading |-> s, at |-> now])
  PROVE  RateInv'
<1> DEFINE key == KeyOf(s)
           one == [reading |-> s, at |-> now]
           new == Len(admitted) + 1
           Admission == [reading : Reading, at : 0 .. MaxTime]
<1>1. key \in Key /\ now \in 0 .. MaxTime /\ MaxTime \in Nat /\ RATE_WINDOW \in Nat
      /\ RATE_MAX \in Nat
  BY KeyTyped, GatewayAssumption DEF ClockInv
<1>2. one \in Admission /\ one.at = now /\ KeyOf(one.reading) = key
  BY <1>1
<1>3. admitted \in Seq(Admission)
  BY DEF RateInv
<1>4. admitted' = Append(admitted, one)
  OBVIOUS
<1> HIDE DEF one, Admission
<1>5. /\ admitted' \in Seq(Admission)
      /\ DOMAIN admitted' = DOMAIN admitted \cup {new} /\ new \notin DOMAIN admitted
      /\ \A i \in DOMAIN admitted : admitted'[i] = admitted[i]
      /\ admitted'[new] = one
  BY <1>2, <1>3, <1>4, AppendFacts
<1>6. accepted' = [accepted EXCEPT ![key] = Recent(key) \cup {new}]
  OBVIOUS
<1>7. /\ Recent(key) \subseteq DOMAIN admitted /\ IsFiniteSet(Recent(key))
      /\ Cardinality(Recent(key)) \in Nat /\ Cardinality(Recent(key)) < RATE_MAX
  BY <1>1, RecentFinite DEF RateLimited
<1> HIDE DEF key, new
<1>8. accepted' \in [Key -> SUBSET DOMAIN admitted']
  BY <1>5, <1>6, <1>7 DEF RateInv
<1>9. \A i \in DOMAIN admitted :
        /\ admitted[i].at <= now
        /\ now - admitted[i].at < RATE_WINDOW => i \in accepted[KeyOf(admitted[i].reading)]
  BY DEF RateInv
<1>10. ASSUME NEW i \in DOMAIN admitted'
       PROVE  /\ admitted'[i].at <= now'
              /\ now' - admitted'[i].at < RATE_WINDOW =>
                   i \in accepted'[KeyOf(admitted'[i].reading)]
  <2>1. CASE i = new
    <3>1. new \in accepted'[key]
      BY <1>1, <1>6 DEF RateInv
    <3> QED
      BY <1>1, <1>2, <1>5, <2>1, <3>1
  <2>2. CASE i # new
    <3>1. i \in DOMAIN admitted /\ admitted'[i] = admitted[i]
      BY <1>5, <2>2
    <3>2. KeyOf(admitted[i].reading) = key /\ now - admitted[i].at < RATE_WINDOW =>
            i \in Recent(key)
      BY <1>9, <3>1 DEF Recent
    <3> QED
      BY <1>6, <1>9, <3>1, <3>2 DEF RateInv
  <2> QED
    BY <2>1, <2>2
<1>11. ASSUME NEW k \in Key, NEW t \in 0 .. MaxTime
       PROVE  Cardinality({i \in DOMAIN admitted' :
                /\ KeyOf(admitted'[i].reading) = k
                /\ admitted'[i].at \in t .. t + RATE_WINDOW - 1}) <= RATE_MAX
  <2> DEFINE W == {i \in DOMAIN admitted :
                     /\ KeyOf(admitted[i].reading) = k
                     /\ admitted[i].at \in t .. t + RATE_WINDOW - 1}
             V == {i \in DOMAIN admitted' :
                     /\ KeyOf(admitted'[i].reading) = k
                     /\ admitted'[i].at \in t .. t + RATE_WINDOW - 1}
  <2>1. Cardinality(W) <= RATE_MAX
    BY DEF RateInv, CellRate
  <2>2. CASE k = key /\ now \in t .. t + RATE_WINDOW - 1
    <3>1. W \subseteq Recent(key)
      BY <2>2, WindowCounts
    <3>2. V \subseteq Recent(key) \cup {new}
      BY <1>5, <3>1
    <3>3. new \notin Recent(key)
      BY <1>5, <1>7
    <3> HIDE DEF V, W
    <3>4. /\ IsFiniteSet(Recent(key) \cup {new})
          /\ Cardinality(Recent(key) \cup {new}) = Cardinality(Recent(key)) + 1
      BY <1>7, <3>3, FS_AddElement
    <3>5. IsFiniteSet(V) /\ Cardinality(V) <= Cardinality(Recent(key) \cup {new})
      BY <3>2, <3>4, FS_Subset
    <3>6. Cardinality(V) \in Nat
      BY <3>5, FS_CardinalityType
    <3>7. Cardinality(V) <= RATE_MAX
      BY <1>1, <1>7, <3>4, <3>5, <3>6
    <3> QED
      BY <3>7 DEF V
  <2>3. CASE ~(k = key /\ now \in t .. t + RATE_WINDOW - 1)
    <3>1. V = W
      BY <1>2, <1>5, <2>3
    <3> QED
      BY <2>1, <3>1
  <2> QED
    BY <2>2, <2>3
<1>12. CellRate'
  BY <1>11 DEF CellRate
<1> QED
  BY <1>5, <1>8, <1>10, <1>12 DEF RateInv, Admission

LEMMA RefusalSound ==
  ASSUME RateInv, NEW k \in Key, now' = now, admitted' = admitted,
         accepted' = [accepted EXCEPT ![k] = Recent(k)]
  PROVE  RateInv'
<1>1. Recent(k) \subseteq DOMAIN admitted
  BY RecentFinite
<1>2. accepted' \in [Key -> SUBSET DOMAIN admitted']
  BY <1>1 DEF RateInv
<1>3. ASSUME NEW i \in DOMAIN admitted, now - admitted[i].at < RATE_WINDOW
      PROVE  i \in accepted'[KeyOf(admitted[i].reading)]
  BY <1>3 DEF RateInv, Recent
<1> QED
  BY <1>2, <1>3 DEF RateInv, CellRate

LEMMA ArriveSound ==
  ASSUME GatewayInv, NEW r \in Slot, Arrive(r)
  PROVE  GatewayInv' /\ LiveStep
<1> DEFINE s == requests[r].sub
           k == KeyOf(s.payload)
<1>1. /\ UNCHANGED <<config, now, restarts, onChain, paid, signed>> /\ UNCHANGED storeVars
      /\ requests[r].pc = "arriving"
  BY DEF Arrive
<1>2. UNCHANGED <<handle, prober, rows, nonces, sql>>
  BY <1>1 DEF storeVars
<1>3. /\ ClockInv' /\ StoreInv' /\ LiveStep
      /\ signed \subseteq signed' /\ signed' \in SUBSET Signature
  BY <1>1, <1>2, ClockSame, StoreSame DEF GatewayInv, SignedInv, StoreInv
<1>4. s \in Submission /\ s.sig \in signed
  BY <1>1, Holds DEF GatewayInv, SignedInv
<1>5. s.payload \in Reading /\ k \in Key
  BY <1>4, KeyTyped DEF Submission
<1>6. CASE accepted' = accepted /\ admitted' = admitted /\ \E text \in Text : Answer(r, text)
  <2>1. RequestsOK'
    BY <1>1, <1>6, RequestsAnswered DEF GatewayInv, SignedInv
  <2>2. SignedInv'
    BY <1>1, <1>2, <1>3, <1>6, <2>1, SignedSame DEF GatewayInv
  <2>3. RateInv'
    BY <1>1, <1>6, RateSame DEF GatewayInv
  <2> QED
    BY <1>3, <2>2, <2>3 DEF GatewayInv
<1>7. CASE /\ accepted' = [accepted EXCEPT ![k] = Recent(k)]
           /\ admitted' = admitted /\ Answer(r, "RATE_LIMITED")
  <2>1. RequestsOK'
    BY <1>1, <1>7, RequestsAnswered DEF GatewayInv, SignedInv, Text
  <2>2. SignedInv'
    BY <1>1, <1>2, <1>3, <1>7, <2>1, SignedSame DEF GatewayInv
  <2>3. RateInv'
    BY <1>1, <1>5, <1>7, RefusalSound DEF GatewayInv
  <2> QED
    BY <1>3, <2>2, <2>3 DEF GatewayInv
<1>8. CASE /\ IntegrityRefusal(s) = "none" /\ ~RateLimited(k) /\ Goto(r, "lookup")
           /\ accepted' = [accepted EXCEPT ![k] = Recent(k) \cup {Len(admitted) + 1}]
           /\ admitted' = Append(admitted, [reading |-> s.payload, at |-> now])
  <2>1. s.root = s.payload /\ Signed(s.payload)
    BY <1>4, <1>8, AdmittedIsSigned
  <2>2. RequestsOK'
    BY <1>1, <1>8, <2>1, RequestsAdvance DEF GatewayInv, SignedInv
  <2>3. RateInv'
    BY <1>1, <1>5, <1>8, AdmissionSound DEF GatewayInv
  <2>4. \A i \in DOMAIN admitted' : SigOf(admitted'[i].reading) \in signed
    <3> DEFINE one == [reading |-> s.payload, at |-> now]
    <3>1. one \in [reading : Reading, at : 0 .. MaxTime] /\ one.reading = s.payload
      BY <1>5 DEF GatewayInv, ClockInv
    <3>2. admitted' = Append(admitted, one) /\ admitted \in Seq([reading : Reading, at : 0 .. MaxTime])
      BY <1>8 DEF GatewayInv, RateInv
    <3> HIDE DEF one
    <3>3. /\ DOMAIN admitted' = DOMAIN admitted \cup {Len(admitted) + 1}
          /\ \A i \in DOMAIN admitted : admitted'[i] = admitted[i]
          /\ admitted'[Len(admitted) + 1] = one
      BY <3>1, <3>2, AppendFacts
    <3> QED
      BY <2>1, <3>1, <3>3 DEF GatewayInv, SignedInv, Signed
  <2>5. SignedInv'
    BY <1>1, <1>2, <2>2, <2>4 DEF GatewayInv, SignedInv, Signed
  <2> QED
    BY <1>3, <2>3, <2>5 DEF GatewayInv
<1>9. \/ accepted' = accepted /\ admitted' = admitted /\ \E text \in Text : Answer(r, text)
      \/ /\ accepted' = [accepted EXCEPT ![k] = Recent(k)]
         /\ admitted' = admitted /\ Answer(r, "RATE_LIMITED")
      \/ /\ IntegrityRefusal(s) = "none" /\ ~RateLimited(k) /\ Goto(r, "lookup")
         /\ accepted' = [accepted EXCEPT ![k] = Recent(k) \cup {Len(admitted) + 1}]
         /\ admitted' = Append(admitted, [reading |-> s.payload, at |-> now])
  <2> DEFINE refusal == IF PolicyRefusal(s) # "none" THEN PolicyRefusal(s) ELSE IntegrityRefusal(s)
  <2>1. refusal \in Text \cup {"none"} /\ (refusal = "none" => IntegrityRefusal(s) = "none")
    BY RefusalIsText
  <2>2. \/ /\ refusal # "none"
           /\ Answer(r, refusal)
           /\ UNCHANGED <<accepted, admitted>>
        \/ /\ refusal = "none" /\ RateLimited(k)
           /\ Answer(r, "RATE_LIMITED")
           /\ accepted' = [accepted EXCEPT ![k] = Recent(k)]
           /\ UNCHANGED admitted
        \/ /\ refusal = "none" /\ ~RateLimited(k)
           /\ Goto(r, "lookup")
           /\ accepted' = [accepted EXCEPT ![k] = Recent(k) \cup {Len(admitted) + 1}]
           /\ admitted' = Append(admitted, [reading |-> s.payload, at |-> now])
    BY DEF Arrive
  <2> HIDE DEF refusal, s, k
  <2> QED
    BY <2>1, <2>2
<1> QED
  BY <1>6, <1>7, <1>8, <1>9

---------------------------------------------------------------------------
(* Calls of the store.                                                     *)

\* The parts of the gateway that a call of the store leaves alone.
LEMMA CallSound ==
  ASSUME GatewayInv, UNCHANGED <<config, now, restarts, accepted, onChain, signed, admitted>>,
         paid \subseteq paid', RequestsOK', StoreInv', LiveStep,
         NEW root, Signed(root), RootsFrom(root)
  PROVE  GatewayInv' /\ LiveStep
<1>1. ClockInv' /\ RateInv'
  BY ClockSame, RateSame DEF GatewayInv
<1>2. \A q \in Range(rows') \cup sql' : SigOf(q.root) \in signed
  BY DEF RootsFrom, GatewayInv, SignedInv, Signed
<1>3. SignedInv'
  BY <1>2 DEF GatewayInv, SignedInv, Signed
<1> QED
  BY <1>1, <1>3 DEF GatewayInv

\* A request moves on or is answered, and the store is only read.
LEMMA ReadSound ==
  ASSUME GatewayInv, UNCHANGED <<config, now, restarts, accepted, onChain, paid, signed, admitted>>,
         UNCHANGED <<rows, nonces, sql>>, handle' \in Handle,
         prober' \in Caller \cup {NoCaller}, RequestsOK'
  PROVE  GatewayInv' /\ LiveStep
<1>1. ClockInv' /\ RateInv' /\ StoreInv' /\ LiveStep
  BY ClockSame, RateSame, StoreSame DEF GatewayInv
<1>2. signed \subseteq signed' /\ signed' \in SUBSET Signature
  BY DEF GatewayInv, SignedInv
<1>3. SignedInv'
  BY <1>2, SignedSame DEF GatewayInv
<1> QED
  BY <1>1, <1>3 DEF GatewayInv

LEMMA AwaitProbeSound ==
  ASSUME GatewayInv, NEW r \in Slot, AwaitProbe(r)
  PROVE  GatewayInv' /\ LiveStep
<1>1. RequestsOK'
  BY RequestsSame DEF AwaitProbe, GatewayInv, SignedInv
<1>2. handle' \in Handle /\ prober' \in Caller \cup {NoCaller}
  BY GatewayAssumption DEF AwaitProbe, StartProbe, Handle
<1> QED
  BY <1>1, <1>2, ReadSound DEF AwaitProbe, StartProbe

LEMMA AnswerSound ==
  ASSUME GatewayInv, NEW r \in Slot, NEW text \in Text, Answer(r, text),
         UNCHANGED <<config, now, restarts, accepted, onChain, paid, signed, admitted>>,
         UNCHANGED storeVars
  PROVE  GatewayInv' /\ LiveStep
<1>1. RequestsOK'
  BY RequestsAnswered DEF GatewayInv, SignedInv
<1> QED
  BY <1>1, ReadSound DEF storeVars, GatewayInv, StoreInv

LEMMA LookUpSound ==
  ASSUME GatewayInv, NEW r \in Slot, LookUp(r)
  PROVE  GatewayInv' /\ LiveStep
<1>1. /\ requests[r].pc = "lookup" /\ RequestsOK
      /\ UNCHANGED <<config, now, restarts, accepted, onChain, paid, signed, admitted>>
      /\ UNCHANGED storeVars
  BY DEF LookUp, GatewayInv, SignedInv
<1>2. CASE Answer(r, "DUPLICATE_MEASUREMENT_ROOT")
  BY <1>1, <1>2, AnswerSound DEF Text
<1>3. CASE Goto(r, "insert")
  <2>1. requests[r].sub.root = requests[r].sub.payload /\ Signed(requests[r].sub.root)
    BY <1>1, Holds
  <2>2. RequestsOK'
    BY <1>1, <1>3, <2>1, RequestsAdvance
  <2> QED
    BY <1>1, <2>2, ReadSound DEF storeVars, GatewayInv, StoreInv
<1> QED
  BY <1>2, <1>3 DEF LookUp

LEMMA InsertRowSound ==
  ASSUME GatewayInv, NEW r \in Slot, InsertRow(r)
  PROVE  GatewayInv' /\ LiveStep
<1> DEFINE s == requests[r].sub
           row == RowFor(s)
<1>1. /\ requests[r].pc = "insert" /\ RequestsOK /\ StoreInv
      /\ UNCHANGED <<config, now, restarts, accepted, onChain, paid, signed, admitted>>
      /\ ~Taken(r, row) /\ Insert(r, row) /\ Goto(r, "readback")
  BY DEF InsertRow, GatewayInv, SignedInv
<1>2. s \in Submission /\ s.root = s.payload /\ Signed(s.root)
  BY <1>1, Holds
<1>3. RequestsOK'
  BY <1>1, <1>2, RequestsAdvance
<1>4. row \in Row /\ row.status # "SETTLED" /\ row.root = s.root /\ row.origin = "gateway"
  BY <1>2 DEF RowFor, Row, Status, Submission
<1> HIDE DEF row, s
<1>5. StoreInv' /\ LiveStep /\ RootsFrom(s.root)
  BY <1>1, <1>4, InsertSound
<1> QED
  BY <1>1, <1>2, <1>3, <1>5, CallSound

LEMMA ServeSound ==
  ASSUME GatewayInv, NEW r \in Slot, Serve(r)
  PROVE  GatewayInv' /\ LiveStep /\ UNCHANGED <<config, paid>>
<1>1. CASE Arrive(r)
  BY <1>1, ArriveSound DEF Arrive
<1>2. CASE AwaitProbe(r)
  BY <1>2, AwaitProbeSound DEF AwaitProbe
<1>3. CASE LookUp(r)
  BY <1>3, LookUpSound DEF LookUp
<1>4. CASE InsertRefused(r)
  BY <1>4, AnswerSound DEF InsertRefused, Text
<1>5. CASE InsertRow(r)
  BY <1>5, InsertRowSound DEF InsertRow
<1>6. CASE ReadBack(r)
  BY <1>6, AnswerSound DEF ReadBack, Text
<1>7. CASE CallFails(r)
  BY <1>7, AnswerSound DEF CallFails, Text
<1> QED
  BY <1>1, <1>2, <1>3, <1>4, <1>5, <1>6, <1>7 DEF Serve

---------------------------------------------------------------------------
(* The worker, the probe, the clock, a restart.                            *)

LEMMA RowsSigned ==
  ASSUME GatewayInv, NEW c, NEW row \in Rows(c)
  PROVE  row \in Row /\ row.root \in Reading /\ Signed(row.root)
<1>1. row \in Range(rows) \cup sql
  BY DEF Rows
<1>2. \A i \in DOMAIN rows : rows[i] \in Row
  BY LenProperties, ElementOfSeq DEF GatewayInv, StoreInv
<1> QED
  BY <1>1, <1>2 DEF GatewayInv, StoreInv, SignedInv, Range, Row

\* A row is updated, and what the chains hold grows by its root at most.
LEMMA WorkerUpdateSound ==
  ASSUME GatewayInv, NEW row \in Rows(Worker), NEW status \in Status, Update(Worker, row, status),
         UNCHANGED <<config, now, restarts, requests, accepted, signed, admitted>>,
         onChain' \in {onChain, onChain \cup {row.root}}, paid \subseteq paid',
         status = "SETTLED" => row.root \in paid'
  PROVE  GatewayInv' /\ LiveStep
<1>1. row.root \in Reading /\ Signed(row.root)
  BY RowsSigned
<1>2. StoreInv' /\ LiveStep /\ RootsFrom(row.root)
  BY UpdateSound DEF GatewayInv
<1>3. ClockInv' /\ RateInv' /\ RequestsOK'
  BY ClockSame, RateSame, RequestsSame DEF GatewayInv, SignedInv
<1>4. \A q \in Range(rows') \cup sql' : SigOf(q.root) \in signed
  BY <1>1, <1>2 DEF RootsFrom, GatewayInv, SignedInv, Signed
<1>5. onChain' \in SUBSET Reading /\ \A s \in onChain' : SigOf(s) \in signed
  BY <1>1 DEF GatewayInv, SignedInv, Signed
<1>6. SignedInv'
  BY <1>3, <1>4, <1>5 DEF GatewayInv, SignedInv, Signed
<1> QED
  BY <1>2, <1>3, <1>6 DEF GatewayInv

LEMMA WorkerAdvancesSound ==
  ASSUME GatewayInv, WorkerAdvances
  PROVE  GatewayInv' /\ LiveStep /\ config' = config /\ paid \subseteq paid'
<1>1. PICK row \in Rows(Worker) : Advance(row)
  BY DEF WorkerAdvances
<1>2. UNCHANGED <<config, now, restarts, requests, accepted, signed, admitted>>
  BY DEF WorkerAdvances
<1>3. CASE Update(Worker, row, "AWAITING_ATTESTATION") /\ onChain' = onChain \cup {row.root}
           /\ UNCHANGED paid
  BY <1>2, <1>3, WorkerUpdateSound DEF Status
<1>4. CASE Update(Worker, row, "SETTLED") /\ paid' = paid \cup {row.root} /\ UNCHANGED onChain
  BY <1>2, <1>4, WorkerUpdateSound DEF Status, Terminal
<1>5. CASE Update(Worker, row, "REJECTED") /\ UNCHANGED <<onChain, paid>>
  BY <1>2, <1>5, WorkerUpdateSound DEF Status, Terminal
<1> QED
  BY <1>1, <1>3, <1>4, <1>5 DEF Advance

LEMMA WorkerRecoversSound ==
  ASSUME GatewayInv, NEW root \in onChain, WorkerRecovers(root)
  PROVE  GatewayInv' /\ LiveStep /\ UNCHANGED <<config, paid>>
<1> DEFINE row == [root |-> root, recased |-> FALSE, origin |-> "chain",
                   status |-> "AWAITING_ATTESTATION"]
<1>1. /\ UNCHANGED <<config, now, restarts, requests, accepted, onChain, paid, signed, admitted>>
      /\ Insert(Worker, row)
      /\ row.origin = "chain" /\ GetByRoot(Worker, row.root, row.recased) = {}
      /\ row.status # "SETTLED" /\ row.root = root /\ ~row.recased
  BY DEF WorkerRecovers
<1>2. root \in Reading /\ Signed(root)
  BY DEF GatewayInv, SignedInv
<1>3. row \in Row
  BY <1>2 DEF Row, Status
<1> HIDE DEF row
<1>4. StoreInv' /\ LiveStep /\ RootsFrom(root)
  BY <1>1, <1>3, InsertSound DEF GatewayInv
<1>5. RequestsOK' /\ paid \subseteq paid'
  BY <1>1, RequestsSame DEF GatewayInv, SignedInv
<1> QED
  BY <1>1, <1>2, <1>4, <1>5, CallSound

LEMMA ProbeSound ==
  ASSUME GatewayInv, WorkerProbes \/ ProbeEnds
  PROVE  GatewayInv' /\ LiveStep /\ UNCHANGED <<config, paid>>
<1>1. /\ UNCHANGED <<config, now, restarts, requests, accepted, onChain, paid, signed, admitted>>
      /\ UNCHANGED <<rows, nonces, sql>>
  BY DEF WorkerProbes, ProbeEnds, StartProbe, EndProbe
<1>2. handle' \in Handle /\ prober' \in Caller \cup {NoCaller}
  BY GatewayAssumption DEF WorkerProbes, ProbeEnds, StartProbe, EndProbe, Handle
<1>3. RequestsOK'
  BY <1>1, RequestsSame DEF GatewayInv, SignedInv
<1> QED
  BY <1>1, <1>2, <1>3, ReadSound

\* A window that moves on has no more in it.
LEMMA TickSound ==
  ASSUME GatewayInv, Tick
  PROVE  GatewayInv' /\ LiveStep /\ UNCHANGED <<config, paid>>
<1>1. /\ now' = now + 1 /\ now < MaxTime
      /\ UNCHANGED <<config, restarts, requests, accepted, onChain, paid, signed, admitted>>
      /\ UNCHANGED <<handle, prober, rows, nonces, sql>>
  BY DEF Tick, storeVars
<1>2. ClockInv'
  BY <1>1, GatewayAssumption DEF GatewayInv, ClockInv
<1>3. StoreInv' /\ LiveStep
  BY <1>1, StoreSame DEF GatewayInv, StoreInv
<1>4. RequestsOK' /\ signed' \in SUBSET Signature
  BY <1>1, RequestsSame DEF GatewayInv, SignedInv
<1>5. SignedInv'
  BY <1>1, <1>4, SignedSame DEF GatewayInv
<1>6. RateInv'
  <2>1. admitted \in Seq([reading : Reading, at : 0 .. MaxTime])
    BY DEF GatewayInv, RateInv
  <2>2. \A i \in DOMAIN admitted : admitted[i].at \in Nat
    <3> DEFINE Admission == [reading : Reading, at : 0 .. MaxTime]
    <3>1. \A i \in DOMAIN admitted : admitted[i] \in Admission
      <4> HIDE DEF Admission
      <4> QED
        BY <2>1, LenProperties, ElementOfSeq DEF Admission
    <3> QED
      BY <3>1, GatewayAssumption
  <2>3. now \in Nat /\ RATE_WINDOW \in Nat
    BY GatewayAssumption DEF GatewayInv, ClockInv
  <2>4. ASSUME NEW i \in DOMAIN admitted
        PROVE  /\ admitted[i].at <= now'
               /\ now' - admitted[i].at < RATE_WINDOW =>
                    i \in accepted[KeyOf(admitted[i].reading)]
    <3>1. /\ admitted[i].at <= now
          /\ now - admitted[i].at < RATE_WINDOW => i \in accepted[KeyOf(admitted[i].reading)]
      BY DEF GatewayInv, RateInv
    <3> HIDE DEF GatewayInv
    <3>2. now' - admitted[i].at < RATE_WINDOW => now - admitted[i].at < RATE_WINDOW
      BY <1>1, <2>2, <2>3
    <3>3. admitted[i].at <= now'
      BY <1>1, <2>2, <2>3, <3>1
    <3> QED
      BY <3>1, <3>2, <3>3
  <2> QED
    BY <1>1, <2>4 DEF GatewayInv, RateInv, CellRate
<1> QED
  BY <1>1, <1>2, <1>3, <1>5, <1>6 DEF GatewayInv

LEMMA EmptyRate ==
  ASSUME accepted' = [k \in Key |-> {}], admitted' = <<>>
  PROVE  RateInv'
<1>1. admitted' \in Seq([reading : Reading, at : 0 .. MaxTime]) /\ DOMAIN admitted' = {}
  BY EmptySeq
<1>2. \A k \in Key : \A t \in 0 .. MaxTime :
        {i \in DOMAIN admitted' :
           /\ KeyOf(admitted'[i].reading) = k
           /\ admitted'[i].at \in t .. t + RATE_WINDOW - 1} = {}
  BY <1>1
<1>3. Cardinality({}) = 0 /\ 0 <= RATE_MAX
  BY FS_EmptySet, GatewayAssumption
<1>4. CellRate'
  BY <1>2, <1>3 DEF CellRate
<1> QED
  BY <1>1, <1>4 DEF RateInv

LEMMA RestartSound ==
  ASSUME GatewayInv, Restart
  PROVE  GatewayInv' /\ UNCHANGED <<config, paid>> /\ restarts' # restarts
<1>1. /\ UNCHANGED <<config, now, onChain, paid, signed, sql>>
      /\ handle' = "unprobed" /\ prober' = NoCaller /\ rows' = <<>> /\ nonces' = {}
      /\ requests' = [r \in Slot |-> Idle]
      /\ accepted' = [k \in Key |-> {}] /\ admitted' = <<>>
      /\ restarts' = restarts + 1
  BY DEF Restart, StoreRestarts
<1>2. rows' \in Seq(Row) /\ DOMAIN rows' = {} /\ Range(rows') = {} /\ DOMAIN admitted' = {}
  BY <1>1, EmptySeq DEF Range
<1>3. StoreInv'
  BY <1>1, <1>2 DEF GatewayInv, StoreInv, Handle
<1>4. RequestOK(Idle, signed)
  BY DEF RequestOK, Request, Idle
<1>5. RequestsOK'
  BY <1>1, <1>4 DEF RequestsOK
<1>6. SignedInv'
  BY <1>1, <1>2, <1>5 DEF GatewayInv, SignedInv, Signed
<1>7. RateInv'
  BY <1>1, EmptyRate
<1>8. ClockInv' /\ restarts' # restarts
  BY <1>1 DEF GatewayInv, ClockInv
<1> QED
  BY <1>1, <1>3, <1>6, <1>7, <1>8 DEF GatewayInv

---------------------------------------------------------------------------
(* The tab in front of it.                                                 *)

LEMMA GatewaySends ==
  ASSUME GatewayInv, UNCHANGED <<config, now, restarts, accepted, onChain, paid, admitted>>,
         UNCHANGED storeVars, RequestsOK', signed \subseteq signed', signed' \in SUBSET Signature
  PROVE  GatewayInv' /\ LiveStep
<1>1. ClockInv' /\ RateInv' /\ StoreInv' /\ LiveStep
  BY ClockSame, RateSame, StoreSame DEF GatewayInv, StoreInv, storeVars
<1>2. SignedInv'
  BY SignedSame DEF GatewayInv, storeVars
<1> QED
  BY <1>1, <1>2 DEF GatewayInv

LEMMA GatewaySame ==
  ASSUME GatewayInv, UNCHANGED gatewayVars
  PROVE  GatewayInv' /\ LiveStep /\ UNCHANGED <<config, paid>>
<1>1. /\ UNCHANGED <<config, now, restarts, requests, accepted, onChain, paid, signed, admitted>>
      /\ UNCHANGED storeVars
  BY DEF gatewayVars
<1>2. RequestsOK'
  BY <1>1, RequestsSame DEF GatewayInv, SignedInv
<1>3. signed' \in SUBSET Signature
  BY <1>1 DEF GatewayInv, SignedInv
<1> QED
  BY <1>1, <1>2, <1>3, GatewaySends

\* The ranges of the deployment and of the clock.
LEMMA Deployed ==
  ASSUME ClockInv
  PROVE  /\ config \in Config /\ config.skew \in 0 .. MAX_SKEW + 1
         /\ config.kinds \subseteq Kind /\ config.accounts \subseteq Contributor \cup {NoOne}
         /\ config.runs \in Nat /\ config.resends \in Nat
         /\ 1 .. config.runs \subseteq Nonce
         /\ now \in 0 .. MaxTime /\ {MAX_AGE, MAX_SKEW, MaxTime} \subseteq Nat
BY ConfigAssumption, RunAssumption, GatewayAssumption DEF ClockInv, Config

\* Of the runs under way, only that of the mounted page, if any, writes there.
LEMMA OneRun ==
  ASSUME TabInv, NEW r \in runs
  PROVE  /\ r \in Run /\ r.at \in 0 .. MaxTime + MAX_SKEW + 1
         /\ r.mounted =>
              /\ Mounted = {r}
              /\ tab.testState \in {"sampling", "submitted"} /\ tab.submittedRoot = NoReading
BY DEF TabInv, Mounted

\* A run's request has a slot of the server.
LEMMA OwnSlot ==
  ASSUME NEW r \in Run
  PROVE  r.id \in Slot
BY RunAssumption, GatewayAssumption DEF Run

LEMMA ReadingTyped ==
  ASSUME TabInv, NEW r \in runs
  PROVE  ReadingOf(r) \in Reading /\ SentPayload(r) \in Reading
<1>1. r \in Run /\ r.at \in 0 .. MaxTime + MAX_SKEW + 1
  BY OneRun
<1>2. ReadingOf(r) \in Reading
  BY <1>1, GatewayAssumption DEF ReadingOf, Run
<1>3. \A s \in Reading : [s EXCEPT !.value = "inflated"] \in Reading
  BY GatewayAssumption
<1> QED
  BY <1>2, <1>3 DEF SentPayload

\* A run begins while the page has none, from what the tab holds.
LEMMA BeginSound ==
  ASSUME RunInv, NEW kind \in Kind, NEW cell \in Cell, NEW t \in Tab,
         tab.testState \notin {"sampling", "submitted"}, tab.account # NoOne,
         t.polled = tab.polled, t.polledStatus = tab.polledStatus,
         Begin(kind, cell, t)
  PROVE  TabInv'
<1> DEFINE r == [id |-> started + 1, kind |-> kind, who |-> tab.account,
                 cell |-> cell, pc |-> "measuring", at |-> 0, mounted |-> TRUE]
<1>1. TabInv /\ ClockInv /\ config' = config /\ paid' = paid
  BY DEF RunInv, GatewayInv, Begin, gatewayVars
<1>2. Mounted = {}
  BY <1>1 DEF TabInv
<1>3. /\ started < config.runs /\ started' = started + 1 /\ resends' = resends
      /\ tab' = Starting(t) /\ runs' = runs \cup {r} /\ r.mounted
  BY DEF Begin
<1>4. started \in Nat /\ started + 1 \in 1 .. config.runs /\ started + 1 \in Nonce
  BY <1>1, <1>3, Deployed DEF TabInv
<1>5. tab.account \in Contributor
  BY <1>1 DEF TabInv, Tab
<1>6. r \in Run /\ r.at = 0
  BY <1>4, <1>5 DEF Run
<1> HIDE DEF r
<1>7. /\ tab' \in Tab /\ tab'.testState = "sampling" /\ tab'.submittedRoot = NoReading
      /\ tab'.polled = tab.polled /\ tab'.polledStatus = tab.polledStatus
  BY <1>3 DEF Starting, Tab, TestState
<1>8. 0 \in 0 .. MaxTime + MAX_SKEW + 1
  BY <1>1, Deployed
<1>9. started' \in 0 .. config.runs /\ resends' \in 0 .. config.resends
  BY <1>1, <1>3, <1>4 DEF TabInv
<1>10. Mounted' = {r}
  BY <1>2, <1>3 DEF Mounted
<1> QED
  BY <1>1, <1>3, <1>6, <1>7, <1>8, <1>9, <1>10 DEF TabInv

LEMMA PressButtonSound ==
  ASSUME RunInv, NEW kind \in config.kinds, NEW cell \in Cell, PressButton(kind, cell)
  PROVE  TabInv'
<1>1. kind \in Kind /\ tab \in Tab
  BY Deployed DEF RunInv, GatewayInv, TabInv
<1> QED
  BY <1>1, BeginSound DEF PressButton

LEMMA CycleSound ==
  ASSUME RunInv, NEW cell \in Cell, Cycle(cell)
  PROVE  TabInv'
<1> DEFINE t == [tab EXCEPT !.busy = TRUE, !.due = now + INTERVAL]
<1>1. tab \in Tab /\ now + INTERVAL \in Nat
  BY Deployed, RunAssumption DEF RunInv, GatewayInv, TabInv
<1>2. t \in Tab /\ t.polled = tab.polled /\ t.polledStatus = tab.polledStatus
  BY <1>1 DEF Tab
<1>3. Begin("auto", cell, t) /\ tab.testState \notin {"sampling", "submitted"}
      /\ tab.account # NoOne /\ "auto" \in Kind
  BY DEF Cycle, CycleDue, Kind
<1> HIDE DEF t
<1> QED
  BY <1>2, <1>3, BeginSound

\* A run ends, and its page, if mounted, is left as t but for busy.
LEMMA EndsSound ==
  ASSUME TabInv, NEW r \in runs, NEW t \in Tab, Ends(r, t),
         UNCHANGED <<config, paid, started, resends>>,
         t.testState # "settled", t.polled = tab.polled, t.polledStatus = tab.polledStatus
  PROVE  TabInv'
<1>1. runs' = runs \ {r}
  BY DEF Ends
<1>2. CASE r.mounted
  <2>1. Mounted' = {}
    BY <1>1, <1>2, OneRun DEF Mounted
  <2>2. /\ tab' \in Tab /\ tab'.testState = t.testState
        /\ tab'.polled = t.polled /\ tab'.polledStatus = t.polledStatus
    BY <1>2 DEF Ends, Seen, Tab
  <2> QED
    BY <1>1, <2>1, <2>2 DEF TabInv
<1>3. CASE ~r.mounted
  <2>1. Mounted' = Mounted /\ tab' = tab
    BY <1>1, <1>3 DEF Mounted, Ends, Seen
  <2> QED
    BY <1>1, <2>1 DEF TabInv
<1> QED
  BY <1>2, <1>3

\* A run goes one step further, and its page, if mounted, with it.
LEMMA MovesSound ==
  ASSUME TabInv, NEW r \in runs, NEW q \in Run, Moves(r, q), q.mounted = r.mounted,
         q.at \in 0 .. MaxTime + MAX_SKEW + 1,
         UNCHANGED <<config, paid, started, resends>>,
         NEW t \in Tab, tab' = Seen(r, t),
         t.testState \in {tab.testState, "submitted"}, t.submittedRoot = tab.submittedRoot,
         t.polled = tab.polled, t.polledStatus = tab.polledStatus
  PROVE  TabInv'
<1>1. runs' = (runs \ {r}) \cup {q}
  BY DEF Moves
<1>2. CASE r.mounted
  <2>1. Mounted' = {q}
    BY <1>1, <1>2, OneRun DEF Mounted
  <2>2. tab' = t /\ t.testState \in {"sampling", "submitted"} /\ t.submittedRoot = NoReading
    BY <1>2, OneRun DEF Seen
  <2> QED
    BY <1>1, <2>1, <2>2 DEF TabInv
<1>3. CASE ~r.mounted
  <2>1. Mounted' = Mounted /\ tab' = tab
    BY <1>1, <1>3 DEF Mounted, Seen
  <2> QED
    BY <1>1, <2>1 DEF TabInv
<1> QED
  BY <1>2, <1>3

LEMMA StateSet ==
  ASSUME TabInv, NEW state \in TestState
  PROVE  LET t == [tab EXCEPT !.testState = state]
         IN /\ t \in Tab /\ t.testState = state /\ t.submittedRoot = tab.submittedRoot
            /\ t.polled = tab.polled /\ t.polledStatus = tab.polledStatus
BY DEF TabInv, Tab

LEMMA MeasuredSound ==
  ASSUME RunInv, NEW r \in runs, Measured(r)
  PROVE  TabInv'
<1> DEFINE q == [r EXCEPT !.pc = "signing", !.at = now + config.skew]
<1>1. TabInv /\ ClockInv /\ UNCHANGED <<config, paid, tab, started, resends>> /\ Moves(r, q)
      /\ r \in Run
  BY OneRun DEF RunInv, GatewayInv, Measured, gatewayVars
<1>2. now + config.skew \in 0 .. MaxTime + MAX_SKEW + 1
  <2>1. /\ now \in Nat /\ now <= MaxTime /\ MaxTime \in Nat
        /\ config.skew \in Nat /\ config.skew <= MAX_SKEW + 1 /\ MAX_SKEW \in Nat
    BY <1>1, Deployed
  <2> QED
    BY <2>1
<1>3. q \in Run /\ q.at = now + config.skew /\ q.mounted = r.mounted
  <2> DEFINE at == now + config.skew
             one == [r EXCEPT !.pc = "signing"]
  <2>1. at \in Nat
    BY <1>1, <1>2, Deployed
  <2>2. q = [one EXCEPT !.at = at]
    OBVIOUS
  <2>3. one \in Run
    BY <1>1 DEF Run
  <2> HIDE DEF at, one, q
  <2>4. q \in Run /\ q.at = at /\ q.mounted = one.mounted
    BY <2>1, <2>2, <2>3 DEF Run
  <2>5. one.mounted = r.mounted
    BY <1>1 DEF Run, one
  <2> QED
    BY <2>4, <2>5 DEF at
<1> HIDE DEF q
<1>4. tab \in Tab /\ tab' = Seen(r, tab)
  BY <1>1 DEF TabInv, Seen
<1> QED
  BY <1>1, <1>2, <1>3, <1>4, MovesSound

LEMMA StopsSound ==
  ASSUME TabInv, NEW r \in runs, NEW state \in {"rejected", "idle"},
         Ends(r, [tab EXCEPT !.testState = state]),
         UNCHANGED <<config, paid, started, resends>>
  PROVE  TabInv'
<1> DEFINE t == [tab EXCEPT !.testState = state]
<1>1. t \in Tab /\ t.testState # "settled" /\ t.polled = tab.polled
      /\ t.polledStatus = tab.polledStatus
  BY StateSet DEF TestState
<1>2. Ends(r, t)
  OBVIOUS
<1> HIDE DEF t
<1> QED
  BY <1>1, <1>2, EndsSound

\* The signature is of the account the wallet is on, the payload what was
\* measured or the tampered one.
LEMMA WalletSignsSound ==
  ASSUME RunInv, NEW r \in runs, WalletSigns(r)
  PROVE  GatewayInv' /\ LiveStep /\ TabInv'
<1> DEFINE sig == [signer |-> tab.account, root |-> ReadingOf(r)]
           s == [payload |-> SentPayload(r), root |-> ReadingOf(r), recased |-> FALSE, sig |-> sig]
           q == [r EXCEPT !.pc = "sending"]
           t == [tab EXCEPT !.testState = "submitted"]
<1>1. /\ TabInv /\ GatewayInv /\ tab.account # NoOne
      /\ signed' = signed \cup {sig} /\ Send(r.id, s) /\ Moves(r, q) /\ tab' = Seen(r, t)
      /\ UNCHANGED <<config, now, restarts, accepted, onChain, paid, admitted>>
      /\ UNCHANGED storeVars /\ UNCHANGED <<started, resends>>
  BY DEF WalletSigns, RunInv
<1>2. r.id \in Slot
  BY <1>1, OneRun, OwnSlot
<1>3. sig \in Signature
  BY <1>1, ReadingTyped DEF Signature, TabInv, Tab
<1>4. s \in Submission /\ s.sig = sig
  BY <1>1, <1>3, ReadingTyped DEF Submission
<1>5. r \in Run
  BY <1>1, OneRun
<1>6. q \in Run /\ q.at = r.at /\ q.mounted = r.mounted
  BY <1>5 DEF Run
<1>7. /\ t \in Tab /\ t.testState = "submitted" /\ t.submittedRoot = tab.submittedRoot
      /\ t.polled = tab.polled /\ t.polledStatus = tab.polledStatus
  BY <1>1, StateSet DEF TestState
<1> HIDE DEF sig, s, q, t
<1>8. signed \subseteq signed' /\ signed' \in SUBSET Signature /\ RequestsOK
  BY <1>1, <1>3 DEF GatewayInv, SignedInv
<1>9. RequestsOK'
  BY <1>1, <1>2, <1>4, <1>8, RequestsSent
<1>10. GatewayInv' /\ LiveStep
  BY <1>1, <1>8, <1>9, GatewaySends
<1>11. r.at \in 0 .. MaxTime + MAX_SKEW + 1
  BY <1>1, OneRun
<1>12. TabInv'
  BY <1>1, <1>6, <1>7, <1>11, MovesSound
<1> QED
  BY <1>10, <1>12

\* The run's slot is free again, or left as it is.
LEMMA SlotFreed ==
  ASSUME GatewayInv, NEW r \in Run,
         requests' \in {requests, [requests EXCEPT ![r.id] = Idle]},
         UNCHANGED <<config, now, restarts, accepted, onChain, paid, signed, admitted>>,
         UNCHANGED storeVars
  PROVE  GatewayInv' /\ LiveStep
<1>1. r.id \in Slot
  BY OwnSlot
<1>2. RequestsOK'
  BY <1>1, RequestsFreed, RequestsSame DEF GatewayInv, SignedInv
<1> QED
  BY <1>2, GatewaySends DEF GatewayInv, SignedInv

LEMMA SubmitAcceptedSound ==
  ASSUME RunInv, NEW r \in runs, SubmitAccepted(r)
  PROVE  GatewayInv' /\ LiveStep /\ TabInv'
<1>1. /\ TabInv /\ GatewayInv
      /\ requests' = [requests EXCEPT ![r.id] = Idle]
      /\ UNCHANGED <<config, now, restarts, accepted, onChain, paid, signed, admitted>>
      /\ UNCHANGED storeVars /\ UNCHANGED <<started, resends>>
  BY DEF SubmitAccepted, RunInv
<1>2. GatewayInv' /\ LiveStep
  BY <1>1, OneRun, SlotFreed
<1>3. CASE r.kind = "tamper"
  BY <1>1, <1>2, <1>3, StopsSound DEF SubmitAccepted
<1>4. CASE r.kind # "tamper"
  <2> DEFINE t == [tab EXCEPT !.testState = "attesting", !.submittedRoot = ReadingOf(r)]
  <2>1. /\ t \in Tab /\ t.testState # "settled" /\ t.polled = tab.polled
        /\ t.polledStatus = tab.polledStatus
    BY <1>1, ReadingTyped DEF TabInv, Tab, TestState
  <2>2. Ends(r, t)
    BY <1>4 DEF SubmitAccepted
  <2> HIDE DEF t
  <2>3. TabInv'
    BY <1>1, <2>1, <2>2, EndsSound
  <2> QED
    BY <1>2, <2>3
<1> QED
  BY <1>3, <1>4

LEMMA SubmitFailsSound ==
  ASSUME RunInv, NEW r \in runs, SubmitFails(r)
  PROVE  GatewayInv' /\ LiveStep /\ TabInv'
<1>1. /\ TabInv /\ GatewayInv
      /\ requests' \in {requests, [requests EXCEPT ![r.id] = Idle]}
      /\ UNCHANGED <<config, now, restarts, accepted, onChain, paid, signed, admitted>>
      /\ UNCHANGED storeVars /\ UNCHANGED <<started, resends>>
      /\ Ends(r, [tab EXCEPT !.testState = "rejected"])
  BY DEF SubmitFails, RunInv
<1>2. GatewayInv' /\ LiveStep
  BY <1>1, OneRun, SlotFreed
<1>3. TabInv'
  BY <1>1, StopsSound
<1> QED
  BY <1>2, <1>3

LEMMA RunStepSound ==
  ASSUME RunInv, NEW r \in runs, RunStep(r)
  PROVE  RunInv' /\ LiveStep
<1>1. TabInv /\ GatewayInv
  BY DEF RunInv
<1>2. ASSUME UNCHANGED gatewayVars, TabInv'
      PROVE  RunInv' /\ LiveStep
  BY <1>1, <1>2, GatewaySame DEF RunInv
<1>3. ASSUME UNCHANGED gatewayVars
      PROVE  UNCHANGED <<config, paid>>
  BY <1>3 DEF gatewayVars
<1>4. CASE Measured(r)
  BY <1>2, <1>4, MeasuredSound DEF Measured
<1>5. CASE MeasureFails(r)
  BY <1>1, <1>2, <1>3, <1>5, StopsSound DEF MeasureFails
<1>6. CASE WalletSigns(r)
  BY <1>6, WalletSignsSound DEF RunInv
<1>7. CASE WalletDeclines(r)
  BY <1>1, <1>2, <1>3, <1>7, StopsSound DEF WalletDeclines
<1>8. CASE NotSignedInTime(r)
  BY <1>1, <1>2, <1>3, <1>8, StopsSound DEF NotSignedInTime
<1>9. CASE SubmitAccepted(r)
  BY <1>9, SubmitAcceptedSound DEF RunInv
<1>10. CASE SubmitFails(r)
  BY <1>10, SubmitFailsSound DEF RunInv
<1> QED
  BY <1>4, <1>5, <1>6, <1>7, <1>8, <1>9, <1>10 DEF RunStep

---------------------------------------------------------------------------
(* What the tab follows.                                                   *)

\* A row that a read finds is of the root it was asked for, and what it says
\* of being settled is so.
LEMMA FoundSound ==
  ASSUME StoreInv, NEW c, NEW root, NEW q \in GetByRoot(c, root, FALSE)
  PROVE  q.status \in Status /\ (q.status = "SETTLED" => root \in paid)
<1>1. q \in Range(rows) \cup sql /\ q.root = root
  BY DEF GetByRoot, SqlGet, MemGet
<1>2. \A i \in DOMAIN rows : rows[i] \in Row
  BY LenProperties, ElementOfSeq DEF StoreInv
<1>3. q \in Row
  BY <1>1, <1>2 DEF StoreInv, Range
<1> QED
  BY <1>1, <1>3 DEF StoreInv, Row

LEMMA PollSound ==
  ASSUME RunInv, Poll
  PROVE  TabInv'
<1> DEFINE found == GetByRoot(Worker, tab.submittedRoot, FALSE)
           status == IF found = {} THEN "none" ELSE (CHOOSE q \in found : TRUE).status
           one == [tab EXCEPT !.polled = tab.submittedRoot]
           t == [one EXCEPT !.polledStatus = status]
<1>1. TabInv /\ StoreInv /\ UNCHANGED <<config, paid, runs, started, resends>> /\ tab \in Tab
  BY DEF Poll, RunInv, GatewayInv, gatewayVars, TabInv
<1>2. tab' = t
  BY DEF Poll
<1>3. status \in Status \cup {"none"} /\ (status = "SETTLED" => tab.submittedRoot \in paid)
  <2>1. CASE found = {}
    BY <2>1
  <2>2. CASE found # {}
    <3>1. (CHOOSE q \in found : TRUE) \in found
      BY <2>2
    <3>2. status = (CHOOSE q \in found : TRUE).status
      BY <2>2
    <3> QED
      BY <1>1, <3>1, <3>2, FoundSound
  <2> QED
    BY <2>1, <2>2
<1> HIDE DEF status
<1>4. /\ one \in Tab /\ one.polled = tab.submittedRoot
      /\ one.submittedRoot = tab.submittedRoot /\ one.testState = tab.testState
  BY <1>1 DEF Tab
<1> HIDE DEF one
<1>5. /\ t \in Tab /\ t.polled = tab.submittedRoot /\ t.polledStatus = status
      /\ t.submittedRoot = tab.submittedRoot /\ t.testState = tab.testState
  BY <1>3, <1>4 DEF Tab
<1> HIDE DEF t
<1> QED
  BY <1>1, <1>2, <1>3, <1>5 DEF TabInv, Mounted

\* A late answer is about another root and shows nothing; one for this root
\* shows "settled" only of a root that is paid.
LEMMA PollAnsweredSound ==
  ASSUME RunInv, PollAnswered
  PROVE  TabInv'
<1> DEFINE one == [tab EXCEPT !.polled = NoReading]
           t == [one EXCEPT !.polledStatus = "none"]
           state == IF tab.polledStatus = t.shown THEN t.testState
                    ELSE CASE tab.polledStatus = "SETTLED" -> "settled"
                           [] tab.polledStatus = "REJECTED" -> "rejected"
                           [] tab.polledStatus = "AWAITING_ATTESTATION" -> "attesting"
                           [] OTHER -> t.testState
           two == [t EXCEPT !.shown = tab.polledStatus]
           u == [two EXCEPT !.testState = state]
<1>1. /\ TabInv /\ UNCHANGED <<config, paid, runs, started, resends>>
      /\ tab \in Tab /\ tab.polled # NoReading
  BY DEF PollAnswered, RunInv, gatewayVars, TabInv
<1>2. tab' = IF ForThis THEN u ELSE t
  BY DEF PollAnswered, Shows
<1>3. state \in {t.testState, "settled", "rejected", "attesting"}
      /\ (state = "settled" => t.testState = "settled" \/ tab.polledStatus = "SETTLED")
  OBVIOUS
<1> HIDE DEF state
<1>4. /\ one \in Tab /\ one.polled = NoReading
      /\ one.submittedRoot = tab.submittedRoot /\ one.testState = tab.testState
  BY <1>1 DEF Tab
<1> HIDE DEF one
<1>5. /\ t \in Tab /\ t.polled = NoReading /\ t.polledStatus = "none"
      /\ t.submittedRoot = tab.submittedRoot /\ t.testState = tab.testState
  BY <1>4 DEF Tab
<1> HIDE DEF t
<1>6. /\ two \in Tab /\ two.polledStatus = "none" /\ two.submittedRoot = tab.submittedRoot
  BY <1>1, <1>5 DEF Tab
<1> HIDE DEF two
<1>7. /\ u \in Tab /\ u.polledStatus = "none" /\ u.submittedRoot = tab.submittedRoot
      /\ u.testState = state
  BY <1>3, <1>5, <1>6 DEF Tab, TestState
<1> HIDE DEF u
<1>8. CASE ForThis
  <2>1. Mounted = {}
    BY <1>1, <1>8 DEF ForThis, TabInv
  <2>2. state = "settled" => tab.submittedRoot \in paid
    BY <1>1, <1>3, <1>5, <1>8 DEF ForThis, TabInv
  <2> QED
    BY <1>1, <1>2, <1>7, <1>8, <2>1, <2>2 DEF TabInv, Mounted
<1>9. CASE ~ForThis
  BY <1>1, <1>2, <1>5, <1>9 DEF TabInv, Mounted
<1> QED
  BY <1>8, <1>9

---------------------------------------------------------------------------
(* The user around it, and others.                                         *)

\* The tab changes, but for what it follows.
LEMMA TabTurns ==
  ASSUME TabInv, NEW t \in Tab, tab' = t, UNCHANGED <<config, paid, runs, started, resends>>,
         t.testState = tab.testState, t.submittedRoot = tab.submittedRoot,
         t.polled = tab.polled, t.polledStatus = tab.polledStatus
  PROVE  TabInv'
BY DEF TabInv, Mounted

LEMMA ResetSound ==
  ASSUME TabInv, Reset
  PROVE  TabInv'
<1> DEFINE t == [tab EXCEPT !.testState = "idle"]
<1>1. /\ t \in Tab /\ t.testState = "idle" /\ t.submittedRoot = tab.submittedRoot
      /\ t.polled = tab.polled /\ t.polledStatus = tab.polledStatus
  BY StateSet DEF TestState
<1>2. tab' = t /\ UNCHANGED <<config, paid, runs, started, resends>>
      /\ tab.testState \in {"settled", "rejected"}
  BY DEF Reset, gatewayVars
<1> HIDE DEF t
<1>3. Mounted = {} /\ Mounted' = Mounted
  BY <1>2 DEF TabInv, Mounted
<1> QED
  BY <1>1, <1>2, <1>3 DEF TabInv

LEMMA UseAccountSound ==
  ASSUME TabInv, NEW who \in Contributor \cup {NoOne}, UseAccount(who)
  PROVE  TabInv'
<1> DEFINE t == [tab EXCEPT !.account = who]
<1>1. /\ t \in Tab /\ t.testState = tab.testState /\ t.submittedRoot = tab.submittedRoot
      /\ t.polled = tab.polled /\ t.polledStatus = tab.polledStatus
  BY DEF TabInv, Tab
<1>2. tab' = t /\ UNCHANGED <<config, paid, runs, started, resends>>
  BY DEF UseAccount, gatewayVars
<1> HIDE DEF t
<1> QED
  BY <1>1, <1>2, TabTurns

LEMMA RemountSound ==
  ASSUME TabInv, Remount
  PROVE  TabInv'
<1> DEFINE due == IF tab.busy THEN 0 ELSE tab.due
           t == [tab EXCEPT !.busy = FALSE, !.due = due]
<1>1. due \in Nat
  BY DEF TabInv, Tab
<1>2. tab' = t /\ UNCHANGED <<config, paid, runs, started, resends>>
  BY DEF Remount, gatewayVars
<1> HIDE DEF due
<1>3. /\ t \in Tab /\ t.testState = tab.testState /\ t.submittedRoot = tab.submittedRoot
      /\ t.polled = tab.polled /\ t.polledStatus = tab.polledStatus
  BY <1>1 DEF TabInv, Tab
<1> HIDE DEF t
<1> QED
  BY <1>2, <1>3, TabTurns

LEMMA FreshTabOK ==
  /\ FreshTab \in Tab /\ FreshTab.testState = "idle"
  /\ FreshTab.submittedRoot = NoReading /\ FreshTab.polled = NoReading
  /\ FreshTab.polledStatus = "none"
BY RunAssumption DEF FreshTab, Tab, TestState

\* The runs begun before go on as they are, but nothing of theirs is seen.
LEMMA NavigateSound ==
  ASSUME TabInv, Navigate
  PROVE  TabInv'
<1> DEFINE due == IF tab.busy THEN 0 ELSE tab.due
           t == [FreshTab EXCEPT !.account = tab.account, !.due = due]
<1>1. due \in Nat /\ tab.account \in Contributor \cup {NoOne}
  BY DEF TabInv, Tab
<1>2. tab' = t /\ UNCHANGED <<config, paid, started, resends>>
      /\ runs' = {[r EXCEPT !.mounted = FALSE] : r \in runs}
  BY DEF Navigate, gatewayVars
<1> HIDE DEF due
<1>3. t \in Tab /\ t.testState = "idle" /\ t.polledStatus = "none"
  BY <1>1, FreshTabOK DEF Tab
<1> HIDE DEF t
<1>4. \A r \in runs : LET q == [r EXCEPT !.mounted = FALSE]
                     IN q \in Run /\ q.at = r.at /\ ~q.mounted
  BY DEF TabInv, Run
<1>5. /\ Mounted' = {} /\ runs' \in SUBSET Run
      /\ \A q \in runs' : q.at \in 0 .. MaxTime + MAX_SKEW + 1
  BY <1>2, <1>4 DEF TabInv, Mounted
<1> QED
  BY <1>2, <1>3, <1>5 DEF TabInv

LEMMA LeaveSound ==
  ASSUME TabInv, Leave
  PROVE  TabInv'
<1> DEFINE due == IF tab.busy THEN 0 ELSE tab.due
           t == [FreshTab EXCEPT !.due = due]
<1>1. due \in Nat
  BY DEF TabInv, Tab
<1>2. tab' = t /\ UNCHANGED <<config, paid, started, resends>> /\ runs' = {}
  BY DEF Leave
<1> HIDE DEF due
<1>3. t \in Tab /\ t.testState = "idle" /\ t.polledStatus = "none"
  BY <1>1, FreshTabOK DEF Tab
<1> HIDE DEF t
<1>4. Mounted' = {}
  BY <1>2 DEF Mounted
<1> QED
  BY <1>2, <1>3, <1>4 DEF TabInv

LEMMA UserStepSound ==
  ASSUME RunInv, UserStep
  PROVE  RunInv' /\ LiveStep
<1>1. TabInv /\ GatewayInv
  BY DEF RunInv
<1>2. UNCHANGED gatewayVars
  <2>1. ASSUME Leave
        PROVE  UNCHANGED gatewayVars
    BY <2>1 DEF Leave, gatewayVars
  <2> QED
    BY <2>1 DEF UserStep, PressButton, Begin, Reset, Remount, Navigate, UseAccount
<1>3. CASE \E kind \in config.kinds \ {"auto"}, cell \in Cell : PressButton(kind, cell)
  <2>1. TabInv'
    BY <1>3, PressButtonSound
  <2> QED
    BY <1>1, <1>2, <2>1, GatewaySame DEF RunInv
<1>4. CASE Reset
  BY <1>1, <1>2, <1>4, ResetSound, GatewaySame DEF RunInv
<1>5. CASE Remount
  BY <1>1, <1>2, <1>5, RemountSound, GatewaySame DEF RunInv
<1>6. CASE Leave
  BY <1>1, <1>2, <1>6, LeaveSound, GatewaySame DEF RunInv
<1>7. CASE \E who \in config.accounts : UseAccount(who)
  <2>1. PICK who \in config.accounts : UseAccount(who)
    BY <1>7
  <2>2. who \in Contributor \cup {NoOne}
    BY <1>1, Deployed DEF GatewayInv
  <2>3. TabInv'
    BY <1>1, <2>1, <2>2, UseAccountSound
  <2> QED
    BY <1>1, <1>2, <2>3, GatewaySame DEF RunInv
<1>8. CASE Navigate
  BY <1>1, <1>2, <1>8, NavigateSound, GatewaySame DEF RunInv
<1> QED
  BY <1>3, <1>4, <1>5, <1>6, <1>7, <1>8 DEF UserStep

\* Whoever sends it, what is sent carries a signature somebody made.
LEMMA ResendSound ==
  ASSUME RunInv, NEW r \in Slot, NEW sig \in signed, Resend(r, sig)
  PROVE  RunInv' /\ LiveStep
<1>1. /\ TabInv /\ GatewayInv /\ sig \in Signature /\ sig.root \in Reading
      /\ signed' \in SUBSET Signature
  BY DEF RunInv, GatewayInv, SignedInv, Signature, Resend
<1> DEFINE altered == [sig.root EXCEPT !.value = "inflated"]
<1>2. altered \in Reading
  BY <1>1, GatewayAssumption
<1>3. PICK s \in Submission : s.sig = sig /\ Send(r, s)
  <2> DEFINE Sub(payload, root, recased) ==
               [payload |-> payload, root |-> root, recased |-> recased, sig |-> sig]
  <2>1. \/ \E recased \in BOOLEAN : Send(r, Sub(sig.root, sig.root, recased))
        \/ \E root \in {sig.root, altered} : Send(r, Sub(altered, root, FALSE))
    BY DEF Resend
  <2> HIDE DEF altered
  <2>2. \A payload, root \in Reading : \A recased \in BOOLEAN :
          Sub(payload, root, recased) \in Submission /\ Sub(payload, root, recased).sig = sig
    BY <1>1 DEF Submission
  <2>3. PICK payload \in Reading, root \in Reading, recased \in BOOLEAN :
          Send(r, Sub(payload, root, recased))
    <3> HIDE DEF Sub
    <3>1. FALSE \in BOOLEAN
      OBVIOUS
    <3> QED
      BY <1>1, <1>2, <2>1, <3>1
  <2> HIDE DEF Sub
  <2> QED
    BY <2>2, <2>3
<1>4. /\ UNCHANGED <<config, now, restarts, accepted, onChain, paid, signed, admitted>>
      /\ UNCHANGED storeVars /\ UNCHANGED <<tab, runs, started>>
      /\ resends < config.resends /\ resends' = resends + 1
  BY DEF Resend
<1>5. RequestsOK'
  BY <1>1, <1>3, <1>4, RequestsSent DEF GatewayInv, SignedInv
<1>6. GatewayInv' /\ LiveStep
  BY <1>1, <1>4, <1>5, GatewaySends
<1>7. resends' \in 0 .. config.resends
  <2>1. resends \in 0 .. config.resends /\ config.resends \in Nat
    BY <1>1, Deployed DEF TabInv, GatewayInv
  <2> QED
    BY <1>4, <2>1
<1>8. TabInv'
  BY <1>1, <1>4, <1>7 DEF TabInv, Mounted
<1> QED
  BY <1>6, <1>8 DEF RunInv

---------------------------------------------------------------------------
(* The invariant is inductive.                                             *)

LEMMA RunInvInit == Init => RunInv
<1> SUFFICES ASSUME Init
             PROVE  RunInv
  OBVIOUS
<1>1. /\ config \in Configs /\ now = 0 /\ restarts = 0
      /\ handle = "unprobed" /\ prober = NoCaller /\ rows = <<>> /\ nonces = {} /\ sql = {}
      /\ requests = [r \in Slot |-> Idle] /\ accepted = [k \in Key |-> {}]
      /\ onChain = {} /\ paid = {} /\ signed = {} /\ admitted = <<>>
      /\ tab = FreshTab /\ runs = {} /\ started = 0 /\ resends = 0
  BY DEF Init, GatewayInit, StoreInit
<1>2. ClockInv
  BY <1>1, GatewayAssumption DEF ClockInv
<1>3. rows \in Seq(Row) /\ DOMAIN rows = {} /\ Range(rows) = {} /\ DOMAIN admitted = {}
      /\ admitted \in Seq([reading : Reading, at : 0 .. MaxTime])
  BY <1>1, EmptySeq DEF Range
<1>4. StoreInv
  BY <1>1, <1>3 DEF StoreInv, Handle
<1>5. RequestsOK
  <2>1. RequestOK(Idle, signed)
    BY DEF RequestOK, Request, Idle
  <2> QED
    BY <1>1, <2>1 DEF RequestsOK
<1>6. SignedInv
  BY <1>1, <1>3, <1>5 DEF SignedInv
<1>7. RateInv
  <2>1. \A k \in Key : \A t \in 0 .. MaxTime :
          {i \in DOMAIN admitted :
             /\ KeyOf(admitted[i].reading) = k
             /\ admitted[i].at \in t .. t + RATE_WINDOW - 1} = {}
    BY <1>3
  <2>2. Cardinality({}) = 0 /\ 0 <= RATE_MAX
    BY FS_EmptySet, GatewayAssumption
  <2>3. CellRate
    BY <2>1, <2>2 DEF CellRate
  <2> QED
    BY <1>1, <1>3, <2>3 DEF RateInv
<1>8. TabInv
  <2>1. config.runs \in Nat /\ config.resends \in Nat
    BY <1>2, Deployed
  <2> QED
    BY <1>1, <2>1, FreshTabOK DEF TabInv, Mounted
<1> QED
  BY <1>2, <1>4, <1>6, <1>7, <1>8 DEF RunInv, GatewayInv

\* A step of the server, seen from the tab.
LEMMA ServerStepSound ==
  ASSUME RunInv, UNCHANGED tabVars, GatewayInv', config' = config, paid \subseteq paid'
  PROVE  RunInv'
BY TabSame DEF RunInv

LEMMA OperateSound ==
  ASSUME GatewayInv, Operate
  PROVE  /\ GatewayInv' /\ UNCHANGED <<config, paid>>
         /\ LiveStep \/ restarts' # restarts
BY ProbeSound, TickSound, RestartSound DEF Operate

LEMMA WorkSound ==
  ASSUME GatewayInv, Work
  PROVE  GatewayInv' /\ LiveStep /\ config' = config /\ paid \subseteq paid'
BY WorkerAdvancesSound, WorkerRecoversSound DEF Work

LEMMA RunInvStep ==
  ASSUME RunInv, [Next]_runVars
  PROVE  RunInv' /\ (LiveStep \/ restarts' # restarts)
<1>1. GatewayInv
  BY DEF RunInv
<1>2. CASE UserStep
  BY <1>2, UserStepSound
<1>3. CASE \E cell \in Cell : Cycle(cell)
  <2>1. TabInv'
    BY <1>3, CycleSound
  <2>2. UNCHANGED gatewayVars
    BY <1>3 DEF Cycle, Begin
  <2> QED
    BY <1>1, <2>1, <2>2, GatewaySame DEF RunInv
<1>4. CASE \E r \in runs : RunStep(r)
  BY <1>4, RunStepSound
<1>5. CASE Poll
  BY <1>1, <1>5, PollSound, GatewaySame DEF Poll, RunInv
<1>6. CASE PollAnswered
  BY <1>1, <1>6, PollAnsweredSound, GatewaySame DEF PollAnswered, RunInv
<1>7. CASE \E r \in Slot, sig \in signed : Resend(r, sig)
  BY <1>7, ResendSound
<1>8. CASE (\E r \in Slot : Serve(r)) /\ UNCHANGED tabVars
  BY <1>1, <1>8, ServeSound, ServerStepSound
<1>9. CASE (Work \/ Operate) /\ UNCHANGED tabVars
  BY <1>1, <1>9, WorkSound, OperateSound, ServerStepSound
<1>10. CASE UNCHANGED runVars
  <2>1. UNCHANGED gatewayVars /\ UNCHANGED tabVars
    BY <1>10 DEF runVars
  <2> QED
    BY <1>1, <2>1, GatewaySame, ServerStepSound
<1> QED
  BY <1>2, <1>3, <1>4, <1>5, <1>6, <1>7, <1>8, <1>9, <1>10 DEF Next

LEMMA RunInvAlways == Spec => []RunInv
<1>1. RunInv /\ [Next]_runVars => RunInv'
  BY RunInvStep
<1> QED
  BY <1>1, RunInvInit, PTL DEF Spec

---------------------------------------------------------------------------
(* Theorems.                                                               *)

LEMMA TypesHold == RunInv => RunTypeOK
<1> SUFFICES ASSUME RunInv
             PROVE  RunTypeOK
  OBVIOUS
<1>1. ClockInv /\ StoreInv /\ RequestsOK /\ TabInv
  BY DEF RunInv, GatewayInv, SignedInv
<1>2. Range(rows) \subseteq Row
  <2>1. \A i \in DOMAIN rows : rows[i] \in Row
    BY <1>1, LenProperties, ElementOfSeq DEF StoreInv
  <2> QED
    BY <2>1 DEF Range
<1>3. StoreTypeOK
  BY <1>1, <1>2 DEF StoreInv, StoreTypeOK
<1> QED
  BY <1>1, <1>3 DEF RunTypeOK, RequestsOK, RequestOK, TabInv

\* Every variable of the store, of the requests served and of the tab keeps to
\* its range, for any number of requests, runs and submissions of others.
THEOREM RunTypeCorrect == Spec => []RunTypeOK
BY RunInvAlways, TypesHold, PTL

\* However many requests carry a reading, in whatever spelling and between
\* whatever steps of the worker and of the probe, MySQL holds one row of it, and
\* memory a second one only when the first came under a re-cased root and the
\* second was recovered from the chain: a nonce, and a text of a root, is that
\* of one row.
THEOREM SecondRowOnlyRecovered == Spec => []SecondRowIsRecovered
<1>1. RunInv => SecondRowIsRecovered
  <2> SUFFICES ASSUME RunInv
               PROVE  SecondRowIsRecovered
    OBVIOUS
  <2>1. StoreInv
    BY DEF RunInv, GatewayInv
  <2>2. \A i \in DOMAIN rows : rows[i] \in Row
    BY <2>1, LenProperties, ElementOfSeq DEF StoreInv
  <2>3. ASSUME NEW i \in DOMAIN rows, NEW j \in DOMAIN rows,
               rows[i].root = rows[j].root, i # j
        PROVE  \E k, l \in {i, j} :
                 /\ rows[k].origin = "gateway" /\ rows[k].recased
                 /\ rows[l].origin = "chain" /\ ~rows[l].recased
    <3>1. /\ rows[i].origin \in {"gateway", "chain"} /\ rows[i].recased \in BOOLEAN
          /\ rows[j].origin \in {"gateway", "chain"} /\ rows[j].recased \in BOOLEAN
      BY <2>2 DEF Row
    <3>2. rows[i].recased # rows[j].recased
      BY <2>1, <2>3 DEF StoreInv, SameText
    <3>3. ~(rows[i].origin = "gateway" /\ rows[j].origin = "gateway")
      BY <2>1, <2>3 DEF StoreInv, NonceOf
    <3>4. /\ rows[i].origin = "chain" => ~rows[i].recased
          /\ rows[j].origin = "chain" => ~rows[j].recased
      BY <2>1 DEF StoreInv
    <3> QED
      BY <3>1, <3>2, <3>3, <3>4
  <2>4. \A p, q \in sql : p.root = q.root => p = q
    BY <2>1 DEF StoreInv
  <2> QED
    BY <2>3, <2>4 DEF SecondRowIsRecovered
<1> QED
  BY <1>1, RunInvAlways, PTL

\* A slot of a contributor is taken, and a row made, only by a reading that
\* this contributor's wallet signed, through the insert, the worker's updates
\* and the recovery from the chain.
THEOREM OnlySignedEver == Spec => []OnlySignedCounts
<1>1. RunInv => OnlySignedCounts
  BY DEF RunInv, GatewayInv, SignedInv, Signed, SigOf, OnlySignedCounts
<1> QED
  BY <1>1, RunInvAlways, PTL

\* The limiter forgets an admission only when no window that is still open
\* holds it: no window of a contributor and cell has more than RATE_MAX.
THEOREM LimitHolds == Spec => []CellRate
<1>1. RunInv => CellRate
  BY DEF RunInv, GatewayInv, RateInv
<1> QED
  BY <1>1, RunInvAlways, PTL

\* The button, the cycle and the demonstration never have two runs of the page
\* on screen under way, whatever its remounts forget and however many runs of
\* pages left before go on.
THEOREM OneRunPerPage == Spec => []SingleRun
<1>1. RunInv => SingleRun
  <2> SUFFICES ASSUME RunInv
               PROVE  Cardinality(Mounted) <= 1
    BY DEF SingleRun
  <2>1. CASE Mounted = {}
    BY <2>1, FS_EmptySet
  <2>2. CASE Mounted # {}
    <3>1. PICK r \in Mounted : TRUE
      BY <2>2
    <3>2. Mounted = {r}
      BY <3>1, OneRun DEF RunInv, Mounted
    <3>3. Cardinality({r}) = 1
      BY FS_Singleton
    <3> QED
      BY <3>2, <3>3
  <2> QED
    BY <2>1, <2>2
<1> QED
  BY <1>1, RunInvAlways, PTL

\* "settled" is shown only of a measurement that was paid, however late an
\* answer of the server comes: a run under way follows no root, and an answer
\* is kept by the root it was asked for.
THEOREM SettledMeansPaid == Spec => []SettledShownIsPaid
<1>1. RunInv => SettledShownIsPaid
  BY DEF RunInv, TabInv, SettledShownIsPaid
<1> QED
  BY <1>1, RunInvAlways, PTL

\* No step but a restart drops a row that is not finished, an eviction for
\* want of room least of all.
THEOREM LiveRowsAreKept == Spec => LiveRowsStay
<1>1. RunInv /\ [Next]_runVars =>
        [\A r \in Range(rows) :
           r.status \notin Terminal /\ restarts' = restarts =>
             \E q \in Range(rows') : q.root = r.root /\ q.recased = r.recased]_gatewayVars
  BY RunInvStep DEF LiveStep
<1> QED
  BY <1>1, RunInvAlways, PTL DEF Spec, LiveRowsStay
============================================================================
