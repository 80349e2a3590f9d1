----------------------------- MODULE EdgeTrust ------------------------------
(***************************************************************************)
(* The attestation of edge nodes at the hub: the nodes of EdgeNode, the    *)
(* key table and verification of firmware/shared/attestation.c and the     *)
(* trust table of firmware/gateway/gateway_auth.c.  The relay between them *)
(* loses, duplicates, delays, reorders and misdelivers messages: what was  *)
(* sent can arrive at any later time, unaltered.  The HMAC of a key and a  *)
(* challenge is the pair of both, and computing it does not fail.  Whoever *)
(* challenges the nodes is external: it checks a response against the last *)
(* challenge it sent to that node.  The drift check compares the           *)
(* challenge's timestamp with the copy the node echoes, so it refuses      *)
(* nothing that the HMAC would accept and is left out; the expiry of an    *)
(* entry is in TelemetryPipeline.                                          *)
(***************************************************************************)
EXTENDS EdgeNode, FiniteSets

CONSTANTS
  MaxKeys,       \* ATTESTATION_MAX_KEYS
  TrackerMax,    \* EDGE_NODE_TRACKER_MAX
  MaxChallenges  \* bound: challenges

ASSUME TrustAssumption ==
  MaxKeys \in Nat /\ TrackerMax \in Nat /\ MaxChallenges \in Nat

VARIABLES
  keyTable,      \* g_key_table: key of each node with an active record, else NoKey
  records,       \* the nodes with a record in g_key_table
  trust,         \* EdgeNodeTracker_t: the nodes with an entry
  pending,       \* the last challenge sent to a node, 0 for none
  issued,        \* challenges so far: a challenge is its number
  epoch,         \* history: issued when the hub last started
  registered     \* history: the pairs of node and key registered since then

hubVars == << keyTable, records, trust, pending, issued, epoch, registered >>
vars == << edgeVars, hubVars >>

(* The variables have their types, and the two tables fit their arrays. *)
TypeOK ==
  /\ EdgeTypeOK
  /\ keyTable \in [Nodes -> Keys \union {NoKey}]
  /\ records \subseteq Nodes /\ Cardinality(records) <= MaxKeys
  /\ trust \subseteq Nodes /\ Cardinality(trust) <= TrackerMax
  /\ issued \in 0 .. MaxChallenges /\ epoch \in 0 .. issued
  /\ pending \in [Nodes -> 0 .. issued]
  /\ registered \subseteq Nodes \X Keys

Init ==
  /\ EdgeInit
  /\ keyTable = [n \in Nodes |-> NoKey] /\ records = {}
  /\ trust = {}
  /\ pending = [n \in Nodes |-> 0]
  /\ issued = 0 /\ epoch = 0 /\ registered = {}

(* attestation_register_key() of an active record, or of a revoked one     *)
(* (k = NoKey); a full table refuses even an update.                       *)
RegisterKey(n, k) ==
  /\ Cardinality(records) < MaxKeys
  /\ records' = records \union {n}
  /\ keyTable' = [keyTable EXCEPT ![n] = k]
  /\ registered' = IF k = NoKey THEN registered ELSE registered \union {<< n, k >>}
  /\ UNCHANGED << trust, pending, issued, epoch, edgeVars >>

Challenge(n) ==
  /\ issued < MaxChallenges
  /\ issued' = issued + 1
  /\ pending' = [pending EXCEPT ![n] = issued + 1]
  /\ UNCHANGED << keyTable, records, trust, epoch, registered, edgeVars >>

(* Mutant of Verified: any challenge that was ever sent will do. *)
VerifiedAnyChallenge(p) ==
  /\ keyTable[p.node] # NoKey /\ pending[p.node] # 0
  /\ p.key = keyTable[p.node]

(* attestation_verify() of the response p against the pending challenge:   *)
(* an active key, and the HMAC of that key over that challenge.            *)
Verified(p) ==
  /\ keyTable[p.node] # NoKey /\ pending[p.node] # 0
  /\ << p.key, p.challenge >> = << keyTable[p.node], pending[p.node] >>

(* edge_tracker_attest() *)
Attest(p) ==
  /\ Verified(p)
  /\ p.node \in trust \/ Cardinality(trust) < TrackerMax
  /\ trust' = trust \union {p.node}
  /\ UNCHANGED << keyTable, records, pending, issued, epoch, registered, edgeVars >>

(* The hub starts again: attestation_init(), edge_tracker_init(), and the  *)
(* pending challenges are gone.                                            *)
HubRestart ==
  /\ keyTable' = [n \in Nodes |-> NoKey] /\ records' = {}
  /\ trust' = {}
  /\ pending' = [n \in Nodes |-> 0]
  /\ epoch' = issued /\ registered' = {}
  /\ UNCHANGED << issued, edgeVars >>

EdgeNext ==
  \E n \in Nodes :
    \/ EdgeBoot(n) \/ ReadAndSend(n)
    \/ \E k \in Keys : SetKey(n, k)
    \/ \E c \in 1 .. issued : Respond(n, c)
    \/ \E c \in Configs, saved \in BOOLEAN : SetConfig(n, c, saved)

Next ==
  \/ EdgeNext /\ UNCHANGED hubVars
  \/ \E n \in Nodes : Challenge(n) \/ \E k \in Keys \union {NoKey} : RegisterKey(n, k)
  \/ \E p \in proofs : Attest(p)
  \/ HubRestart

Spec == Init /\ [][Next]_vars

-----------------------------------------------------------------------------
(* "The Hub now tracks which Edge Nodes have been verified": a node has an *)
(* entry only if it answered a challenge the hub sent since it last        *)
(* started, with a key that was registered for it since then, however late *)
(* or often the relay delivers and whichever side restarted in between.    *)
(* The relay alters nothing: the HMAC does not cover responder_id, by      *)
(* which the key is looked up (attestation.c:114), so two nodes with one   *)
(* key are told apart by that field alone.                                 *)
TrustedWasProven ==
  \A n \in trust : \E p \in proofs :
    p.node = n /\ p.challenge > epoch /\ << n, p.key >> \in registered
=============================================================================
