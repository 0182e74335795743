------------------------- MODULE MeasurementStore -------------------------
(***************************************************************************)
(* The measurement store: server/signalproof/store.ts over server/db.ts.   *)
(* MySQL when it is reachable, memory when it is not.  Which of the two is *)
(* settled by one probe, begun by the first call that needs the store; a   *)
(* call that comes while the probe is on finds no handle yet and is served *)
(* from memory.                                                            *)
(*                                                                         *)
(* A root is the hash of a reading and is identified with it.  As text it  *)
(* may arrive re-cased: memory compares the text, MySQL ignores the case.  *)
(***************************************************************************)
EXTENDS Naturals, FiniteSets, Sequences, Functions

CONSTANTS
  Reading,      \* the readings that exist
  Caller,       \* who calls the store
  NoCaller,
  MAX_ROWS      \* rows kept in memory before terminal ones are dropped

ASSUME StoreAssumption == MAX_ROWS \in Nat /\ NoCaller \notin Caller

VARIABLES
  handle,   \* of the database, as getDb knows it
  prober,   \* the call that awaits the probe
  rows,     \* memory: the Map of rows, in insertion order
  nonces,   \* memory: the nonces of these rows
  sql       \* MySQL: the table of rows

storeVars == <<handle, prober, rows, nonces, sql>>

Handle == {"unprobed", "probing", "mysql", "memory"}
Terminal == {"SETTLED", "REJECTED"}
Status == {"SUBMITTED", "AWAITING_ATTESTATION"} \cup Terminal

\* origin: admitted by the gateway, or recovered from the chain.
Row == [root : Reading, recased : BOOLEAN, origin : {"gateway", "chain"}, status : Status]

\* A nonce is part of the reading; that of a recovered row is made of its root.
NonceOf(row) ==
  IF row.origin = "chain" THEN <<"chain", row.root>> ELSE <<"gateway", row.root.nonce>>

StoreTypeOK ==
  /\ handle \in Handle
  /\ prober \in Caller \cup {NoCaller}
  /\ Range(rows) \subseteq Row
  /\ \A n \in nonces : n[1] \in {"gateway", "chain"}
  /\ sql \subseteq Row

StoreInit ==
  /\ handle = "unprobed" /\ prober = NoCaller
  /\ rows = <<>> /\ nonces = {} /\ sql = {}

---------------------------------------------------------------------------
(* getDb.                                                                  *)

StartProbe(c) ==
  /\ handle = "unprobed"
  /\ handle' = "probing" /\ prober' = c
  /\ UNCHANGED <<rows, nonces, sql>>

EndProbe(reachable) ==
  /\ handle = "probing"
  /\ handle' = IF reachable THEN "mysql" ELSE "memory"
  /\ prober' = NoCaller
  /\ UNCHANGED <<rows, nonces, sql>>

\* useDb() has answered c: with MySQL, or with memory.
OnMySQL(c)  == handle = "mysql"
InMemory(c) == handle \in {"probing", "memory"} /\ prober # c

---------------------------------------------------------------------------
(* Memory.                                                                 *)

MemGet(root, recased) == {r \in Range(rows) : r.root = root /\ r.recased = recased}

\* Mutation of MemTaken: only the text of the root is unique.
MemTakenByRoot(row) == MemGet(row.root, row.recased) # {}

\* duplicateKeyError: the text of the root, or the nonce, is taken.
MemTaken(row) ==
  \/ MemGet(row.root, row.recased) # {}
  \/ NonceOf(row) \in nonces

\* Mutation of Evicted: the oldest rows go, live ones with them.
EvictedOldest(s) ==
  {i \in DOMAIN s : i <= Len(s) - MAX_ROWS}

\* evictIfNeeded: the oldest terminal rows in excess of the cap.
Evicted(s) ==
  LET dead == {i \in DOMAIN s : s[i].status \in Terminal}
  IN {i \in dead : Cardinality({j \in dead : j <= i}) <= Len(s) - MAX_ROWS}

\* The list s without the positions gone; that is one list, found by its order.
Without(s, gone) ==
  LET stay == DOMAIN s \ gone
  IN {[k \in DOMAIN at |-> s[at[k]]] :
        at \in {f \in [1 .. Cardinality(stay) -> stay] :
                  /\ Range(f) = stay
                  /\ \A i, j \in DOMAIN f : i < j => f[i] < f[j]}}

MemInsert(row) ==
  LET s == Append(rows, row)
  IN /\ rows' \in Without(s, Evicted(s))
     /\ nonces' = (nonces \cup {NonceOf(row)}) \ {NonceOf(s[i]) : i \in Evicted(s)}
     /\ UNCHANGED <<handle, prober, sql>>

\* memUpdate: nothing to do for a row that is gone.
MemUpdate(row, status) ==
  /\ rows' = [i \in DOMAIN rows |->
                IF rows[i] = row THEN [row EXCEPT !.status = status] ELSE rows[i]]
  /\ UNCHANGED <<handle, prober, nonces, sql>>

---------------------------------------------------------------------------
(* MySQL: the unique keys of drizzle/schema.ts.                            *)

SqlGet(root) == {r \in sql : r.root = root}

SqlTaken(row) ==
  \E r \in sql : r.root = row.root \/ NonceOf(r) = NonceOf(row)

SqlInsert(row) ==
  /\ sql' = sql \cup {row}
  /\ UNCHANGED <<handle, prober, rows, nonces>>

SqlUpdate(row, status) ==
  /\ sql' = (sql \ {row}) \cup {[row EXCEPT !.status = status]}
  /\ UNCHANGED <<handle, prober, rows, nonces>>

---------------------------------------------------------------------------
(* The facade, as caller c finds it.                                       *)

Rows(c) == IF OnMySQL(c) THEN sql ELSE Range(rows)

Answered(c) == OnMySQL(c) \/ InMemory(c)

GetByRoot(c, root, recased) ==
  IF OnMySQL(c) THEN SqlGet(root) ELSE MemGet(root, recased)

Taken(c, row) == IF OnMySQL(c) THEN SqlTaken(row) ELSE MemTaken(row)

Insert(c, row) == IF OnMySQL(c) THEN SqlInsert(row) ELSE MemInsert(row)

Update(c, row, status) ==
  IF OnMySQL(c) THEN SqlUpdate(row, status) ELSE MemUpdate(row, status)

\* The process restarts: memory is gone, the handle is to be found again.
StoreRestarts ==
  /\ handle' = "unprobed" /\ prober' = NoCaller
  /\ rows' = <<>> /\ nonces' = {}
  /\ UNCHANGED sql
===========================================================================
