--------------------- MODULE SourceBatchRegistryProofs ---------------------
(***************************************************************************)
(* The registry's two promises, for any relayers, owners and signatures.   *)
(* Attribution follows from the submission check alone: recovering another *)
(* text's signature yields Nobody, and bytes that are none yield NoAddr,   *)
(* neither of which can equal the contributor.                             *)
(***************************************************************************)
EXTENDS SourceBatchRegistry, TLAPS

RegistryInv == RegistryTypeOK /\ OneSubmissionPerRoot /\ AttributionSigned

\* What passes recovery was signed by the contributor for that very root.
LEMMA RecoveredIsSigner ==
  ASSUME NEW root, NEW c \in Address, NEW sig \in Signature \cup {Garbage},
         RecoverContributor(root, c, sig) = c
  PROVE  sig \in Signature /\ sig = [signer |-> c, root |-> root, contributor |-> c]
<1>1. sig # Garbage
  BY RegistryAssumption DEF RecoverContributor
<1>2. sig \in Signature
  BY <1>1
<1>3. sig.root = root /\ sig.contributor = c /\ sig.signer = c
  BY <1>1, RegistryAssumption DEF RecoverContributor
<1> QED
  BY <1>2, <1>3 DEF Signature

LEMMA SubmitMeasurementSound ==
  ASSUME RegistryInv,
         NEW caller \in Address, NEW root \in Root \cup {NoRoot},
         NEW c \in Address \cup {NoAddr}, NEW t \in Timestamp,
         NEW sig \in signatures \cup {Garbage, Truncated},
         SubmitMeasurement(caller, root, c, t, sig)
  PROVE  RegistryInv'
<1> DEFINE e == [root |-> root, contributor |-> c, timestamp |-> t]
<1>1. root \in Root /\ root \notin registered /\ c \in Address /\ sig \in signatures \cup {Garbage}
  BY DEF SubmitMeasurement, Submittable
<1>2. e \in Submission
  BY <1>1 DEF Submission
<1>3. /\ registered' = registered \cup {root} /\ submitted' = submitted \cup {e}
      /\ UNCHANGED <<relayer, owner, signatures>>
  BY DEF SubmitMeasurement
<1>4. RegistryTypeOK'
  BY <1>1, <1>2, <1>3 DEF RegistryInv, RegistryTypeOK
<1>5. OneSubmissionPerRoot'
  <2>1. registered = {x.root : x \in submitted} /\ \A x \in submitted : x.root # root
    BY <1>1 DEF RegistryInv, OneSubmissionPerRoot
  <2>2. e.root = root
    OBVIOUS
  <2>3. registered' = {x.root : x \in submitted'}
    BY <1>3, <2>1, <2>2
  <2>4. \A x, y \in submitted' : x.root = y.root => x = y
    BY <1>3, <2>1, <2>2 DEF RegistryInv, OneSubmissionPerRoot
  <2> HIDE DEF e
  <2> QED
    BY <2>3, <2>4 DEF OneSubmissionPerRoot
<1>6. [signer |-> c, root |-> root, contributor |-> c] \in signatures
  <2>1. RecoverContributor(root, c, sig) = c /\ sig \in Signature \cup {Garbage}
    BY <1>1 DEF RegistryInv, RegistryTypeOK, SubmitMeasurement, Submittable
  <2>2. sig \in Signature /\ sig = [signer |-> c, root |-> root, contributor |-> c]
    BY <1>1, <2>1, RecoveredIsSigner
  <2> QED
    BY <1>1, <2>2, RegistryAssumption
<1>7. AttributionSigned'
  <2>1. e.root = root /\ e.contributor = c
    OBVIOUS
  <2> HIDE DEF e
  <2>2. ASSUME NEW x \in submitted'
        PROVE  [signer |-> x.contributor, root |-> x.root, contributor |-> x.contributor]
                 \in signatures'
    <3>1. CASE x = e
      BY <1>3, <1>6, <2>1, <3>1
    <3>2. CASE x \in submitted
      BY <1>3, <3>2 DEF RegistryInv, AttributionSigned
    <3> QED
      BY <1>3, <2>2, <3>1, <3>2
  <2> QED
    BY <2>2 DEF AttributionSigned
<1> QED
  BY <1>4, <1>5, <1>7 DEF RegistryInv

LEMMA InitRegistryInv == RegistryInit => RegistryInv
BY DEF RegistryInit, RegistryInv, RegistryTypeOK, OneSubmissionPerRoot, AttributionSigned

LEMMA NextRegistryInv == RegistryInv /\ [RegistryNext]_registryVars => RegistryInv'
<1> SUFFICES ASSUME RegistryInv, [RegistryNext]_registryVars
             PROVE  RegistryInv'
  OBVIOUS
<1>1. ASSUME NEW who \in Address, NEW root \in Root, Sign(who, root)
      PROVE  RegistryInv'
  <2>1. [signer |-> who, root |-> root, contributor |-> who] \in Signature
    BY DEF Signature
  <2>2. RegistryTypeOK'
    BY <1>1, <2>1 DEF Sign, RegistryInv, RegistryTypeOK
  <2>3. OneSubmissionPerRoot' /\ AttributionSigned'
    BY <1>1 DEF Sign, RegistryInv, OneSubmissionPerRoot, AttributionSigned
  <2> QED
    BY <2>2, <2>3 DEF RegistryInv
<1>2. ASSUME NEW caller \in Address, NEW new \in Address \cup {NoAddr},
             SetRelayer(caller, new) \/ TransferOwnership(caller, new)
      PROVE  RegistryInv'
  BY <1>2 DEF SetRelayer, TransferOwnership, RegistryInv, RegistryTypeOK,
              OneSubmissionPerRoot, AttributionSigned
<1>3. CASE UNCHANGED registryVars
  BY <1>3 DEF registryVars, RegistryInv, RegistryTypeOK, OneSubmissionPerRoot,
              AttributionSigned
<1> QED
  BY <1>1, <1>2, <1>3, SubmitMeasurementSound DEF RegistryNext

LEMMA RegistryInvAlways == RegistrySpec => []RegistryInv
<1> QED
  BY InitRegistryInv, NextRegistryInv, PTL DEF RegistrySpec

\* The registry's maps and events keep their types under any relayer.
THEOREM TypeCorrect == RegistrySpec => []RegistryTypeOK
<1>1. RegistryInv => RegistryTypeOK
  BY DEF RegistryInv
<1> QED
  BY <1>1, RegistryInvAlways, PTL

\* A root is recorded in one event at most, whoever relays it and however often.
THEOREM RootRecordedOnce == RegistrySpec => []OneSubmissionPerRoot
<1>1. RegistryInv => OneSubmissionPerRoot
  BY DEF RegistryInv
<1> QED
  BY <1>1, RegistryInvAlways, PTL

\* No relayer, present or future, makes the registry name a payee that did
\* not sign for the measurement itself.
THEOREM NoForgedAttribution == RegistrySpec => []AttributionSigned
<1>1. RegistryInv => AttributionSigned
  BY DEF RegistryInv
<1> QED
  BY <1>1, RegistryInvAlways, PTL
============================================================================
