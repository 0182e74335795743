--------------------------- MODULE RewardLedger ---------------------------
(***************************************************************************)
(* What a settlement contract promises its contributors, one transaction   *)
(* at a time and with no word about calls, frames or reverts: a            *)
(* measurement is credited once, to one contributor, for good; everything  *)
(* credited is either still owed or has been paid to the contributor it    *)
(* was credited to; and what was paid stays paid.                          *)
(***************************************************************************)
EXTENDS Naturals, FiniteSets

CONSTANT Account

VARIABLES
  credit,   \* the credits made: records of root, contributor and reward
  owed,     \* contributor -> claimable
  paidOut   \* contributor -> received

vars == <<credit, owed, paidOut>>

\* The rewards the credits C promise to a, counted wei by wei.
CreditedTo(C, a) ==
  Cardinality(UNION {{e} \X (1 .. e.reward) : e \in {c \in C : c.contributor = a}})

Init ==
  /\ credit = {}
  /\ owed = [a \in Account |-> 0]
  /\ paidOut = [a \in Account |-> 0]

\* One transaction: any number of new credits and payments, kept in balance.
Transaction ==
  /\ credit \subseteq credit'
  /\ \A e, f \in credit' : e.root = f.root => e = f
  /\ \A a \in Account :
       /\ owed'[a] + paidOut'[a] = CreditedTo(credit', a)
       /\ paidOut'[a] >= paidOut[a]

Spec == Init /\ [][Transaction]_vars
============================================================================
