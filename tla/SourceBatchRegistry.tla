------------------------ MODULE SourceBatchRegistry ------------------------
(***************************************************************************)
(* The source-chain registry: contracts/src/SourceBatchRegistry.sol.  Only *)
(* the relayer may record a measurement, and only for a contributor whose  *)
(* own signature over the measurement it holds.                            *)
(*                                                                         *)
(* A signature is a record of who signed which text; the text names a root *)
(* and a contributor.  Recovering a signature against another text yields  *)
(* an unrelated address (Nobody), and bytes that are no signature yield    *)
(* address(0), as ecrecover does.  The relayer may be anyone and may try   *)
(* anything, but holds only signatures that wallets made.                  *)
(***************************************************************************)
EXTENDS Naturals, FiniteSets

CONSTANTS
  Address,      \* owners, relayers and contributors
  NoAddr,       \* address(0)
  Nobody,       \* an address no key is known for
  Root,         \* measurement roots
  NoRoot,       \* bytes32(0)
  Timestamp,    \* the timestamps the relayer puts in an event
  Garbage,      \* 65 bytes that are no signature
  Truncated     \* a signature of the wrong length

\* Who signed, and the text: a measurement and the contributor it is for.
Signature == [signer : Address, root : Root, contributor : Address]

ASSUME RegistryAssumption ==
  /\ NoAddr \notin Address /\ Nobody \notin Address /\ NoAddr # Nobody
  /\ NoRoot \notin Root
  /\ {Garbage, Truncated} \cap Signature = {}   \* no wallet's signature

VARIABLES
  registered,   \* roots recorded
  relayer, owner,
  submitted,    \* MeasurementSubmitted events
  signatures    \* the signatures wallets have made so far

registryVars == <<registered, relayer, owner, submitted, signatures>>

Submission == [root : Root, contributor : Address, timestamp : Timestamp]

RegistryTypeOK ==
  /\ registered \in SUBSET Root
  /\ relayer \in Address
  /\ owner \in Address
  /\ submitted \in SUBSET Submission
  /\ signatures \in SUBSET Signature

RegistryInit ==
  /\ registered = {}
  /\ relayer \in Address
  /\ owner \in Address
  /\ submitted = {}
  /\ signatures = {}

\* A wallet signs the text for a measurement of its own (signingMessage).
Sign(who, root) ==
  /\ signatures' = signatures \cup {[signer |-> who, root |-> root, contributor |-> who]}
  /\ UNCHANGED <<registered, relayer, owner, submitted>>

\* Mutation of RecoverContributor: the text signed does not name the root.
RecoverForAnyRoot(root, contributor, sig) ==
  CASE sig = Garbage -> NoAddr
    [] sig # Garbage /\ sig.contributor = contributor -> sig.signer
    [] OTHER -> Nobody

\* recoverContributor: who signed this text, if the bytes are a signature of it.
RecoverContributor(root, contributor, sig) ==
  CASE sig = Garbage -> NoAddr
    [] sig # Garbage /\ sig.root = root /\ sig.contributor = contributor -> sig.signer
    [] OTHER -> Nobody

\* Mutation of Submittable: a root may be registered again.
SubmittableAgain(caller, root, contributor, sig) ==
  /\ caller = relayer
  /\ root # NoRoot
  /\ contributor # NoAddr
  /\ sig # Truncated
  /\ RecoverContributor(root, contributor, sig) = contributor

\* The checks of submitMeasurement, in its order.
Submittable(caller, root, contributor, sig) ==
  /\ caller = relayer
  /\ root # NoRoot
  /\ contributor # NoAddr
  /\ root \notin registered
  /\ sig # Truncated
  /\ RecoverContributor(root, contributor, sig) = contributor

SubmitMeasurement(caller, root, contributor, timestamp, sig) ==
  /\ Submittable(caller, root, contributor, sig)
  /\ registered' = registered \cup {root}
  /\ submitted' = submitted \cup
       {[root |-> root, contributor |-> contributor, timestamp |-> timestamp]}
  /\ UNCHANGED <<relayer, owner, signatures>>

\* Mutation of SetRelayer: the zero address is not refused.
SetRelayerToAnyone(caller, newRelayer) ==
  /\ caller = owner
  /\ relayer' = newRelayer
  /\ UNCHANGED <<registered, owner, submitted, signatures>>

SetRelayer(caller, newRelayer) ==
  /\ caller = owner
  /\ newRelayer # NoAddr
  /\ relayer' = newRelayer
  /\ UNCHANGED <<registered, owner, submitted, signatures>>

TransferOwnership(caller, newOwner) ==
  /\ caller = owner
  /\ newOwner # NoAddr
  /\ owner' = newOwner
  /\ UNCHANGED <<registered, relayer, submitted, signatures>>

RegistryNext ==
  \/ \E who \in Address, root \in Root : Sign(who, root)
  \/ \E caller \in Address, root \in Root \cup {NoRoot},
        contributor \in Address \cup {NoAddr}, timestamp \in Timestamp,
        sig \in signatures \cup {Garbage, Truncated} :
       SubmitMeasurement(caller, root, contributor, timestamp, sig)
  \/ \E caller \in Address, new \in Address \cup {NoAddr} :
       SetRelayer(caller, new) \/ TransferOwnership(caller, new)

RegistrySpec == RegistryInit /\ [][RegistryNext]_registryVars

---------------------------------------------------------------------------
(* Properties.                                                             *)

\* A root reaches the destination chain in at most one event, so the
\* contributor and the timestamp it is settled with are never in doubt.
OneSubmissionPerRoot ==
  /\ registered = {e.root : e \in submitted}
  /\ \A e, f \in submitted : e.root = f.root => e = f

\* Whoever the relayer is or becomes, no event names a payee that did not
\* itself sign for that measurement: admission cannot forge attribution.
AttributionSigned ==
  \A e \in submitted :
    [signer |-> e.contributor, root |-> e.root, contributor |-> e.contributor]
      \in signatures
============================================================================
