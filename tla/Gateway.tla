------------------------------ MODULE Gateway ------------------------------
(***************************************************************************)
(* The gateway: submitMeasurement and the public reads of                  *)
(* server/routers.ts, with the checks of admitMeasurement, the rate limit  *)
(* of rateLimit.ts and the store.  A request is admitted in one step and   *)
(* then looks up, inserts and reads back, each a call of the store, with   *)
(* other requests, the proof worker and restarts in between.               *)
(***************************************************************************)
EXTENDS MeasurementStore

CONSTANTS
  Contributor, Cell, Nonce,
  Slot,           \* requests the server may be serving at a time
  Watched,        \* of these, the ones whose answer the model looks at
  Worker,         \* the proof worker, as a caller of the store
  RATE_MAX,       \* admissions per contributor, cell and window
  RATE_WINDOW,    \* length of that window
  MAX_AGE,        \* how old a reading may be
  MAX_SKEW,       \* how far ahead a device clock may be
  Configs,        \* the deployments considered
  NoOne,          \* no account connected
  MaxTime         \* bound: the time the clock reaches

ASSUME GatewayAssumption ==
  /\ {RATE_MAX, RATE_WINDOW} \subseteq Nat \ {0}
  /\ {MAX_AGE, MAX_SKEW, MaxTime} \subseteq Nat
  /\ Caller = Slot \cup {Worker} /\ Worker \notin Slot /\ Watched \subseteq Slot
  /\ Reading = [who : Contributor, cell : Cell, at : 0 .. MaxTime + MAX_SKEW + 1,
                nonce : Nonce, value : {"measured", "inflated"}]

VARIABLES
  config,     \* how the server is deployed
  now,
  requests,   \* slot -> the request it serves
  accepted,   \* the rate limiter: key -> the admissions it counts, as
              \* positions in admitted, where their times are
  restarts,
  onChain,    \* roots the worker has recorded on the source chain
  paid,       \* of these, the roots settled
  signed,     \* history: signatures wallets have made
  admitted    \* the readings this process admitted, in order

gatewayVars == <<config, now, requests, accepted, restarts, onChain, paid, signed,
                 admitted, storeVars>>

\* What starts a run: the button, the automatic cycle, the tamper demonstration.
Kind == {"button", "auto", "tamper"}

\* mysql: does MySQL answer the probe?  skew: how far the browser's clock is
\* ahead.  kinds: the runs the tab starts.  accounts: those the wallet may
\* switch to.  The last three bound the runs of the tab, the submissions of
\* others, and the restarts of the server.
Config ==
  [mysql : BOOLEAN, skew : 0 .. MAX_SKEW + 1, kinds : SUBSET Kind,
   accounts : SUBSET (Contributor \cup {NoOne}),
   runs : Nat, resends : Nat, restarts : Nat]

ASSUME ConfigAssumption == Configs \subseteq Config

Signature == [signer : Contributor, root : Reading]

\* What is sent: a payload, the root it claims to hash to, how that root is
\* spelled, and a signature.
Submission == [payload : Reading, root : Reading, recased : BOOLEAN, sig : Signature]

Key == Contributor \X Cell
KeyOf(reading) == <<reading.who, reading.cell>>

\* What the server answers.
Text == {"accepted", "ERROR", "RATE_LIMITED", "TIMESTAMP_IN_FUTURE", "STALE_MEASUREMENT",
         "MEASUREMENT_ROOT_MISMATCH", "SIGNATURE_MISMATCH", "DUPLICATE_MEASUREMENT_ROOT"}

Idle == [pc |-> "idle"]
Request ==
  {Idle} \cup [pc : {"arriving", "lookup", "insert", "readback"}, sub : Submission]
         \cup [pc : {"answered"}, answer : Text]

GatewayInit ==
  /\ config \in Configs
  /\ StoreInit
  /\ now = 0
  /\ requests = [r \in Slot |-> Idle]
  /\ accepted = [k \in Key |-> {}]
  /\ restarts = 0
  /\ onChain = {} /\ paid = {}
  /\ signed = {} /\ admitted = <<>>

Answer(r, text) ==
  requests' = [requests EXCEPT ![r] =
                 IF r \in Watched THEN [pc |-> "answered", answer |-> text] ELSE Idle]

Goto(r, pc) == requests' = [requests EXCEPT ![r].pc = pc]

\* A submission is put on the wire in a free slot.
Send(r, s) == requests' = [requests EXCEPT ![r] = [pc |-> "arriving", sub |-> s]]

---------------------------------------------------------------------------
(* admitMeasurement: policy, integrity, then the rate limit.               *)

\* validateMeasurementPolicy.
PolicyRefusal(s) ==
  CASE s.payload.at > now + MAX_SKEW -> "TIMESTAMP_IN_FUTURE"
    [] now > s.payload.at + MAX_AGE  -> "STALE_MEASUREMENT"
    [] OTHER -> "none"

\* Mutation of IntegrityRefusal: the signature is checked, the payload is not.
IntegritySignatureOnly(s) ==
  IF s.sig # [signer |-> s.payload.who, root |-> s.root] THEN "SIGNATURE_MISMATCH" ELSE "none"

\* verifyMeasurementIntegrity: the root hashes the payload, and the contributor
\* the payload names has signed the text for that root.
IntegrityRefusal(s) ==
  CASE s.root # s.payload -> "MEASUREMENT_ROOT_MISMATCH"
    [] s.root = s.payload /\ s.sig # [signer |-> s.payload.who, root |-> s.payload]
         -> "SIGNATURE_MISMATCH"
    [] OTHER -> "none"

\* Mutation of Recent: the window closes one moment early.
RecentShort(k) == {i \in accepted[k] : now - admitted[i].at + 1 < RATE_WINDOW}

\* The admissions that still count.
Recent(k) == {i \in accepted[k] : now - admitted[i].at < RATE_WINDOW}

\* createRateLimiter's check, which counts only what it lets pass.
RateLimited(k) == Cardinality(Recent(k)) >= RATE_MAX

Arrive(r) ==
  /\ requests[r].pc = "arriving"
  /\ LET s == requests[r].sub
         k == KeyOf(s.payload)
         refusal == IF PolicyRefusal(s) # "none" THEN PolicyRefusal(s) ELSE IntegrityRefusal(s)
     IN \/ /\ refusal # "none"
           /\ Answer(r, refusal)
           /\ UNCHANGED <<accepted, admitted>>
        \/ /\ refusal = "none" /\ RateLimited(k)
           /\ Answer(r, "RATE_LIMITED")
           /\ accepted' = [accepted EXCEPT ![k] = Recent(k)]
           /\ UNCHANGED admitted
        \/ /\ refusal = "none" /\ ~RateLimited(k)
           /\ Goto(r, "lookup")
           /\ accepted' = [accepted EXCEPT ![k] = Recent(k) \cup {Len(admitted) + 1}]
           /\ admitted' = Append(admitted, [reading |-> s.payload, at |-> now])
  /\ UNCHANGED <<config, now, restarts, onChain, paid, signed, storeVars>>

---------------------------------------------------------------------------
(* submitMeasurement after admission.                                      *)

RowFor(s) ==
  [root |-> s.root, recased |-> s.recased, origin |-> "gateway", status |-> "SUBMITTED"]

\* The first call of the store in a process begins the probe and awaits it.
AwaitProbe(r) ==
  /\ requests[r].pc \in {"lookup", "insert", "readback"}
  /\ StartProbe(r)
  /\ UNCHANGED <<config, now, requests, accepted, restarts, onChain, paid, signed, admitted>>

ProbeEnds ==
  /\ EndProbe(config.mysql)
  /\ UNCHANGED <<config, now, requests, accepted, restarts, onChain, paid, signed, admitted>>

LookUp(r) ==
  /\ requests[r].pc = "lookup" /\ Answered(r)
  /\ IF GetByRoot(r, requests[r].sub.root, requests[r].sub.recased) # {}
       THEN Answer(r, "DUPLICATE_MEASUREMENT_ROOT")
       ELSE Goto(r, "insert")
  /\ UNCHANGED <<config, now, accepted, restarts, onChain, paid, signed, admitted, storeVars>>

\* isDuplicateKeyError: the unique keys refuse what came in since the lookup.
InsertRefused(r) ==
  /\ requests[r].pc = "insert" /\ Answered(r)
  /\ Taken(r, RowFor(requests[r].sub))
  /\ Answer(r, "DUPLICATE_MEASUREMENT_ROOT")
  /\ UNCHANGED <<config, now, accepted, restarts, onChain, paid, signed, admitted, storeVars>>

InsertRow(r) ==
  /\ requests[r].pc = "insert" /\ Answered(r)
  /\ ~Taken(r, RowFor(requests[r].sub))
  /\ Insert(r, RowFor(requests[r].sub))
  /\ Goto(r, "readback")
  /\ UNCHANGED <<config, now, accepted, restarts, onChain, paid, signed, admitted>>

\* getPublicMeasurementByRoot; the answer is a row, or nothing.
ReadBack(r) ==
  /\ requests[r].pc = "readback" /\ Answered(r)
  /\ Answer(r, "accepted")
  /\ UNCHANGED <<config, now, accepted, restarts, onChain, paid, signed, admitted, storeVars>>

\* MySQL fails in a call: before it did anything, or after the insert.
CallFails(r) ==
  /\ requests[r].pc \in {"lookup", "insert", "readback"} /\ OnMySQL(r)
  /\ Answer(r, "ERROR")
  /\ UNCHANGED <<config, now, accepted, restarts, onChain, paid, signed, admitted, storeVars>>

---------------------------------------------------------------------------
(* The server around the requests.                                         *)

\* The worker's steps on a row, each a call of the store.  A root is recorded
\* once: the registry refuses the second row that would relay it.
Advance(row) ==
  \/ /\ row.status = "SUBMITTED" /\ row.root \notin onChain
     /\ Update(Worker, row, "AWAITING_ATTESTATION")
     /\ onChain' = onChain \cup {row.root} /\ UNCHANGED paid
  \/ /\ row.status = "AWAITING_ATTESTATION"
     /\ Update(Worker, row, "SETTLED")
     /\ paid' = paid \cup {row.root} /\ UNCHANGED onChain
  \/ /\ row.status \notin Terminal
     /\ Update(Worker, row, "REJECTED")
     /\ UNCHANGED <<onChain, paid>>

WorkerAdvances ==
  /\ Answered(Worker)
  /\ \E row \in Rows(Worker) : Advance(row)
  /\ UNCHANGED <<config, now, requests, accepted, restarts, signed, admitted>>

WorkerProbes ==
  /\ StartProbe(Worker)
  /\ UNCHANGED <<config, now, requests, accepted, restarts, onChain, paid, signed, admitted>>

\* reconcileFromChain brings back a measurement that has no row.
WorkerRecovers(root) ==
  /\ Answered(Worker)
  /\ root \in onChain \ paid
  /\ GetByRoot(Worker, root, FALSE) = {}
  /\ Insert(Worker, [root |-> root, recased |-> FALSE, origin |-> "chain",
                     status |-> "AWAITING_ATTESTATION"])
  /\ UNCHANGED <<config, now, requests, accepted, restarts, onChain, paid, signed, admitted>>

Tick ==
  /\ now < MaxTime
  /\ now' = now + 1
  /\ UNCHANGED <<config, requests, accepted, restarts, onChain, paid, signed, admitted, storeVars>>

\* A restart drops what the process held: requests, attempts, rows in memory.
Restart ==
  /\ restarts < config.restarts
  /\ restarts' = restarts + 1
  /\ StoreRestarts
  /\ requests' = [r \in Slot |-> Idle]
  /\ accepted' = [k \in Key |-> {}]
  /\ admitted' = <<>>
  /\ UNCHANGED <<config, now, onChain, paid, signed>>

\* The steps that call the store or the limiter for request r.
Serve(r) ==
  \/ Arrive(r) \/ AwaitProbe(r) \/ LookUp(r) \/ InsertRefused(r) \/ InsertRow(r)
  \/ ReadBack(r) \/ CallFails(r)

Work ==
  \/ WorkerAdvances
  \/ \E root \in onChain : WorkerRecovers(root)

Operate == WorkerProbes \/ ProbeEnds \/ Tick \/ Restart

---------------------------------------------------------------------------
(* Properties.                                                             *)

\* Whatever requests arrive together, and however a root is spelled, MySQL
\* holds one row per reading, and so does memory but for one case: a reading
\* accepted under a re-cased root, which the recovery from the chain does not
\* find and gives a second row.  The lookup before an insert sees to neither.
SecondRowIsRecovered ==
  /\ \A i, j \in DOMAIN rows :
       rows[i].root = rows[j].root /\ i # j =>
         \E k, l \in {i, j} :
           /\ rows[k].origin = "gateway" /\ rows[k].recased
           /\ rows[l].origin = "chain" /\ ~rows[l].recased
  /\ \A p, q \in sql : p.root = q.root => p = q

\* Three measurements per contributor and cell in ten minutes: in no window
\* does one process admit more, whatever was refused or failed in between.
CellRate ==
  \A k \in Key : \A t \in 0 .. MaxTime :
    Cardinality({i \in DOMAIN admitted :
      /\ KeyOf(admitted[i].reading) = k
      /\ admitted[i].at \in t .. t + RATE_WINDOW - 1}) <= RATE_MAX

\* What takes a contributor's slot, or becomes a row, is a reading that this
\* contributor's own wallet signed: not a value of it was changed after.
OnlySignedCounts ==
  \A s \in {admitted[i].reading : i \in DOMAIN admitted}
           \cup {r.root : r \in Range(rows) \cup sql} :
    [signer |-> s.who, root |-> s] \in signed

\* A live row is never dropped to make room: what was accepted and is neither
\* finished nor lost in a restart is still there for the worker.
LiveRowsStay ==
  [][\A r \in Range(rows) :
       r.status \notin Terminal /\ restarts' = restarts =>
         \E q \in Range(rows') : q.root = r.root /\ q.recased = r.recased]_gatewayVars

============================================================================
