-------------------------- MODULE EdgeTrustProofs ---------------------------
(***************************************************************************)
(* Proofs about EdgeTrust, for every set of nodes, keys and configurations *)
(* and any number of challenges and restarts.                              *)
(***************************************************************************)
EXTENDS EdgeTrust, FiniteSetTheorems, TLAPS

USE EdgeAssumption, TrustAssumption

LEMMA EdgeTypeStep ==
  ASSUME EdgeTypeOK, EdgeNext, issued \in Nat
  PROVE  EdgeTypeOK'
<1> USE DEF EdgeTypeOK
<1>0. PICK n \in Nodes :
        \/ EdgeBoot(n) \/ ReadAndSend(n)
        \/ \E k \in Keys : SetKey(n, k)
        \/ \E c \in 1 .. issued : Respond(n, c)
        \/ \E c \in Configs, saved \in BOOLEAN : SetConfig(n, c, saved)
  BY DEF EdgeNext
<1>1. CASE EdgeBoot(n)
  BY <1>1 DEF EdgeBoot
<1>2. CASE ReadAndSend(n)
  <2>1. [node |-> n, boot |-> boots[n]] \in [node : Nodes, boot : 0 .. MaxBoots]
    OBVIOUS
  <2>2. frames' \in Seq([node : Nodes, boot : 0 .. MaxBoots])
    BY <1>2, <2>1 DEF ReadAndSend
  <2>3. QED
    BY <1>2, <2>2 DEF ReadAndSend
<1>3. ASSUME NEW k \in Keys, SetKey(n, k) PROVE EdgeTypeOK'
  BY <1>3 DEF SetKey
<1>4. ASSUME NEW c \in 1 .. issued, Respond(n, c) PROVE EdgeTypeOK'
  <2>1. proofs' \subseteq [node : Nodes, key : Keys, challenge : Nat, boot : 0 .. MaxBoots]
    <3>1. CASE edgeKey[n] = NoKey
      BY <1>4, <3>1 DEF Respond
    <3>2. CASE edgeKey[n] # NoKey
      <4>1. [node |-> n, key |-> edgeKey[n], challenge |-> c, boot |-> boots[n]]
              \in [node : Nodes, key : Keys, challenge : Nat, boot : 0 .. MaxBoots]
        BY <3>2
      <4>2. QED
        BY <1>4, <3>2, <4>1 DEF Respond
    <3>3. QED
      BY <3>1, <3>2
  <2>2. QED
    BY <1>4, <2>1 DEF Respond
<1>5. ASSUME NEW c \in Configs, NEW saved \in BOOLEAN, SetConfig(n, c, saved)
      PROVE  EdgeTypeOK'
  BY <1>5 DEF SetConfig
<1>6. QED
  BY <1>0, <1>1, <1>2, <1>3, <1>4, <1>5

(* A set that gains an element only while it is below its limit. *)
LEMMA BoundedUnion ==
  ASSUME NEW S, NEW x, NEW limit \in Nat, IsFiniteSet(S), Cardinality(S) <= limit,
         x \in S \/ Cardinality(S) < limit
  PROVE  IsFiniteSet(S \union {x}) /\ Cardinality(S \union {x}) <= limit
<1>1. CASE x \in S
  <2>1. S \union {x} = S
    BY <1>1
  <2>2. QED
    BY <2>1
<1>2. CASE x \notin S
  <2>1. IsFiniteSet(S \union {x}) /\ Cardinality(S \union {x}) = Cardinality(S) + 1
    BY <1>2, FS_AddElement
  <2>2. Cardinality(S) \in Nat
    BY FS_CardinalityType
  <2>3. QED
    BY <1>2, <2>1, <2>2
<1>3. QED
  BY <1>1, <1>2

TypeInv == TypeOK /\ IsFiniteSet(records) /\ IsFiniteSet(trust)

LEMMA TypeInit == Init => TypeInv
<1> SUFFICES ASSUME Init PROVE TypeInv
  OBVIOUS
<1>1. IsFiniteSet(records) /\ IsFiniteSet(trust)
  BY FS_EmptySet DEF Init
<1>2. Cardinality(records) = 0 /\ Cardinality(trust) = 0
  BY FS_EmptySet DEF Init
<1>3. EdgeTypeOK
  BY DEF Init, EdgeInit, EdgeTypeOK
<1>4. QED
  BY <1>1, <1>2, <1>3 DEF Init, TypeInv, TypeOK

LEMMA TypeStep == TypeInv /\ [Next]_vars => TypeInv'
<1> SUFFICES ASSUME TypeInv, [Next]_vars PROVE TypeInv'
  OBVIOUS
<1> USE DEF TypeInv, TypeOK
<1>0. UNCHANGED edgeVars => EdgeTypeOK'
  BY DEF edgeVars, EdgeTypeOK
<1>1. CASE EdgeNext /\ UNCHANGED hubVars
  BY <1>1, EdgeTypeStep DEF hubVars
<1>2. ASSUME NEW n \in Nodes, Challenge(n) PROVE TypeInv'
  BY <1>0, <1>2 DEF Challenge
<1>3. ASSUME NEW n \in Nodes, NEW k \in Keys \union {NoKey}, RegisterKey(n, k)
      PROVE  TypeInv'
  <2>1. IsFiniteSet(records') /\ Cardinality(records') <= MaxKeys
    BY <1>3, BoundedUnion DEF RegisterKey
  <2>2. registered' \subseteq Nodes \X Keys
    BY <1>3 DEF RegisterKey
  <2>3. QED
    BY <1>0, <1>3, <2>1, <2>2 DEF RegisterKey
<1>4. ASSUME NEW p \in proofs, Attest(p) PROVE TypeInv'
  <2>1. IsFiniteSet(trust') /\ Cardinality(trust') <= TrackerMax
    BY <1>4, BoundedUnion DEF Attest
  <2>2. p.node \in Nodes
    BY DEF EdgeTypeOK
  <2>3. QED
    BY <1>0, <1>4, <2>1, <2>2 DEF Attest
<1>5. CASE HubRestart
  <2>1. /\ IsFiniteSet(records') /\ Cardinality(records') = 0
        /\ IsFiniteSet(trust') /\ Cardinality(trust') = 0
    BY <1>5, FS_EmptySet DEF HubRestart
  <2>2. QED
    BY <1>0, <1>5, <2>1 DEF HubRestart
<1>6. CASE UNCHANGED vars
  BY <1>0, <1>6 DEF vars, hubVars
<1>7. QED
  BY <1>1, <1>2, <1>3, <1>4, <1>5, <1>6 DEF Next

(* The key table of attestation.c and the trust table of gateway_auth.c    *)
(* never outgrow their arrays, and every variable keeps its type.          *)
THEOREM TypeCorrect == Spec => []TypeOK
<1>1. Spec => []TypeInv
  BY TypeInit, TypeStep, PTL DEF Spec
<1>2. TypeInv => TypeOK
  BY DEF TypeInv
<1>3. QED
  BY <1>1, <1>2, PTL

-----------------------------------------------------------------------------

(* A pending challenge and an active key are of the current run of the     *)
(* hub.                                                                    *)
HubInv ==
  /\ \A n \in Nodes : pending[n] # 0 => pending[n] > epoch
  /\ \A n \in Nodes : keyTable[n] # NoKey => << n, keyTable[n] >> \in registered

ProvenInv == TypeOK /\ HubInv /\ TrustedWasProven

(* An edge step only adds to the proofs. *)
LEMMA EdgeKeepsProofs == EdgeNext => proofs \subseteq proofs'
BY DEF EdgeNext, EdgeBoot, ReadAndSend, SetKey, Respond, SetConfig

LEMMA ProvenStep ==
  ASSUME ProvenInv, [Next]_vars
  PROVE  HubInv' /\ TrustedWasProven'
<1> USE DEF ProvenInv
<1>1. CASE EdgeNext /\ UNCHANGED hubVars
  BY <1>1, EdgeKeepsProofs DEF hubVars, HubInv, TrustedWasProven
<1>2. ASSUME NEW n \in Nodes, Challenge(n) PROVE HubInv' /\ TrustedWasProven'
  <2>1. HubInv'
    BY <1>2 DEF Challenge, HubInv, TypeOK
  <2>2. TrustedWasProven'
    BY <1>2 DEF Challenge, TrustedWasProven, edgeVars
  <2>3. QED
    BY <2>1, <2>2
<1>3. ASSUME NEW n \in Nodes, NEW k \in Keys \union {NoKey}, RegisterKey(n, k)
      PROVE  HubInv' /\ TrustedWasProven'
  <2>1. registered \subseteq registered' /\ (k # NoKey => << n, k >> \in registered')
    BY <1>3 DEF RegisterKey
  <2>2. \A m \in Nodes : keyTable'[m] = IF m = n THEN k ELSE keyTable[m]
    BY <1>3 DEF RegisterKey, TypeOK
  <2>3. HubInv'
    BY <1>3, <2>1, <2>2 DEF RegisterKey, HubInv
  <2>4. TrustedWasProven'
    BY <1>3, <2>1 DEF RegisterKey, TrustedWasProven, edgeVars
  <2>5. QED
    BY <2>3, <2>4
<1>4. ASSUME NEW p \in proofs, Attest(p) PROVE HubInv' /\ TrustedWasProven'
  <2>1. p.node \in Nodes
    BY DEF TypeOK, EdgeTypeOK
  <2>2. /\ p.key = keyTable[p.node] /\ keyTable[p.node] # NoKey
        /\ p.challenge = pending[p.node] /\ pending[p.node] # 0
    BY <1>4 DEF Attest, Verified
  <2>3. p.challenge > epoch /\ << p.node, p.key >> \in registered
    BY <2>1, <2>2 DEF HubInv
  <2>4. UNCHANGED << keyTable, pending, epoch, registered, proofs >>
    BY <1>4 DEF Attest, edgeVars
  <2>5. trust' = trust \union {p.node}
    BY <1>4 DEF Attest
  <2>6. TrustedWasProven'
    BY <2>3, <2>4, <2>5 DEF TrustedWasProven
  <2>7. QED
    BY <2>4, <2>6 DEF HubInv
<1>5. CASE HubRestart
  BY <1>5 DEF HubRestart, HubInv, TrustedWasProven
<1>6. CASE UNCHANGED vars
  BY <1>6 DEF vars, hubVars, edgeVars, HubInv, TrustedWasProven
<1>7. QED
  BY <1>1, <1>2, <1>3, <1>4, <1>5, <1>6 DEF Next

(* edge_tracker_attest() trusts only a node that answered a challenge of   *)
(* this run of the hub with a key registered for it in this run.           *)
THEOREM TrustIsProven == Spec => []TrustedWasProven
<1>1. Init => HubInv /\ TrustedWasProven
  BY DEF Init, HubInv, TrustedWasProven
<1>2. TypeOK /\ HubInv /\ TrustedWasProven /\ [Next]_vars => HubInv' /\ TrustedWasProven'
  BY ProvenStep DEF ProvenInv
<1>3. QED
  BY <1>1, <1>2, TypeCorrect, PTL DEF Spec

-----------------------------------------------------------------------------

(* A node that is authenticated has computed a response since its start. *)
AnsweredInv ==
  \A n \in Nodes : authState[n] = "AUTHENTICATED" =>
    \E p \in proofs : p.node = n /\ p.boot = boots[n]

LEMMA SentStep ==
  ASSUME TypeOK, AnsweredInv, SentAfterProof, [Next]_vars
  PROVE  AnsweredInv' /\ SentAfterProof'
<1> USE DEF TypeOK, EdgeTypeOK
<1>1. ASSUME NEW n \in Nodes, EdgeBoot(n) PROVE AnsweredInv' /\ SentAfterProof'
  BY <1>1 DEF EdgeBoot, AnsweredInv, SentAfterProof
<1>2. ASSUME NEW n \in Nodes, ReadAndSend(n) PROVE AnsweredInv' /\ SentAfterProof'
  <2>1. PICK p \in proofs : p.node = n /\ p.boot = boots[n]
    BY <1>2 DEF ReadAndSend, AnsweredInv
  <2>2. DOMAIN frames' = {1} /\ frames'[1].node = n /\ frames'[1].boot = boots[n]
    BY <1>2 DEF ReadAndSend
  <2>3. proofs' = proofs
    BY <1>2 DEF ReadAndSend
  <2>4. SentAfterProof'
    BY <2>1, <2>2, <2>3 DEF SentAfterProof
  <2>5. QED
    BY <1>2, <2>4 DEF ReadAndSend, AnsweredInv
<1>3. ASSUME NEW n \in Nodes, NEW k \in Keys, SetKey(n, k)
      PROVE  AnsweredInv' /\ SentAfterProof'
  BY <1>3 DEF SetKey, AnsweredInv, SentAfterProof
<1>4. ASSUME NEW n \in Nodes, NEW c \in 1 .. issued, Respond(n, c)
      PROVE  AnsweredInv' /\ SentAfterProof'
  <2> DEFINE answer == [node |-> n, key |-> edgeKey[n], challenge |-> c, boot |-> boots[n]]
  <2>1. proofs \subseteq proofs' /\ boots' = boots /\ frames' = frames
    BY <1>4 DEF Respond
  <2>2. edgeKey[n] # NoKey => answer \in proofs'
    BY <1>4 DEF Respond
  <2>3. answer.node = n /\ answer.boot = boots[n]
    OBVIOUS
  <2>4. \A m \in Nodes : authState'[m] =
          IF m = n THEN (IF edgeKey[n] = NoKey THEN "FAILED" ELSE "AUTHENTICATED")
          ELSE authState[m]
    BY <1>4 DEF Respond
  <2>5. SentAfterProof'
    BY <2>1 DEF SentAfterProof
  <2>6. AnsweredInv'
    <3> SUFFICES ASSUME NEW m \in Nodes, authState'[m] = "AUTHENTICATED"
                 PROVE  \E p \in proofs' : p.node = m /\ p.boot = boots'[m]
      BY DEF AnsweredInv
    <3>1. CASE m = n
      <4>1. edgeKey[n] # NoKey
        BY <2>4, <3>1
      <4> HIDE DEF answer
      <4>2. QED
        BY <2>1, <2>2, <2>3, <3>1, <4>1
    <3>2. CASE m # n
      BY <2>1, <2>4, <3>2 DEF AnsweredInv
    <3>3. QED
      BY <3>1, <3>2
  <2>7. QED
    BY <2>5, <2>6
<1>5. ASSUME NEW n \in Nodes, NEW c \in Configs, NEW saved \in BOOLEAN, SetConfig(n, c, saved)
      PROVE  AnsweredInv' /\ SentAfterProof'
  BY <1>5 DEF SetConfig, AnsweredInv, SentAfterProof
<1>6. CASE UNCHANGED edgeVars
  BY <1>6 DEF edgeVars, AnsweredInv, SentAfterProof
<1>7. CASE EdgeNext
  BY <1>1, <1>2, <1>3, <1>4, <1>5, <1>7 DEF EdgeNext
<1>8. QED
  BY <1>6, <1>7 DEF Next, Challenge, RegisterKey, Attest, HubRestart, vars

(* edge_node_read_and_send() puts nothing on the wire before               *)
(* edge_auth_respond() computed a response, in the same run of the node.   *)
THEOREM FramesFollowProof == Spec => []SentAfterProof
<1>1. Init => AnsweredInv /\ SentAfterProof
  BY DEF Init, EdgeInit, AnsweredInv, SentAfterProof
<1>2. TypeOK /\ AnsweredInv /\ SentAfterProof /\ [Next]_vars => AnsweredInv' /\ SentAfterProof'
  BY SentStep
<1>3. QED
  BY <1>1, <1>2, TypeCorrect, PTL DEF Spec
=============================================================================
