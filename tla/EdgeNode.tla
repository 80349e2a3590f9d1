------------------------------ MODULE EdgeNode ------------------------------
(***************************************************************************)
(* The edge nodes: attestation (edge_attestation.c), configuration         *)
(* (edge_config.c) and the read-validate-send cycle (edge_node.c, over the *)
(* drivers of sensor_driver.c), all under firmware/edge.  Nothing in the   *)
(* repository drives them: the calls come in any order.  Values, scale     *)
(* factors and the statistics are left out.                                *)
(***************************************************************************)
EXTENDS Integers, Sequences

CONSTANTS
  Nodes,       \* edge nodes; the test-only bypass of the gate is not modelled
  Keys,        \* pre-shared keys
  NoKey,       \* key_set is false
  Configs,     \* EdgeNodeConfig_t values
  NoConfig,    \* valid is false
  Known,       \* the configurations whose driver is in the registry
  MaxBoots     \* bound: restarts of a node

ASSUME EdgeAssumption ==
  /\ NoKey \notin Keys /\ NoConfig \notin Configs
  /\ Known \subseteq Configs /\ MaxBoots \in Nat

VARIABLES
  authState,   \* EdgeAuthContext_t.state
  edgeKey,     \* its pre_shared_key
  config,      \* s_config
  nvm,         \* what EdgeConfigStorage_t holds
  boots,       \* restarts
  frames,      \* history: the last frame sent, of which node in which boot
  proofs       \* history: the responses computed, see Respond

edgeVars == << authState, edgeKey, config, nvm, boots, frames, proofs >>

EdgeTypeOK ==
  /\ authState \in [Nodes -> {"IDLE", "AUTHENTICATED", "FAILED"}]
  /\ edgeKey \in [Nodes -> Keys \union {NoKey}]
  /\ config \in [Nodes -> Configs \union {NoConfig}]
  /\ nvm \in [Nodes -> Known \union {NoConfig}]
  /\ boots \in [Nodes -> 0 .. MaxBoots]
  /\ frames \in Seq([node : Nodes, boot : 0 .. MaxBoots])
  /\ proofs \subseteq [node : Nodes, key : Keys, challenge : Nat, boot : 0 .. MaxBoots]

EdgeInit ==
  /\ authState = [n \in Nodes |-> "IDLE"]
  /\ edgeKey = [n \in Nodes |-> NoKey]
  /\ config = [n \in Nodes |-> NoConfig]
  /\ nvm = [n \in Nodes |-> NoConfig]
  /\ boots = [n \in Nodes |-> 0]
  /\ frames = << >> /\ proofs = {}

(* Mutant of EdgeBoot: the authentication context survives. *)
EdgeBootTrusting(n) ==
  /\ boots[n] < MaxBoots
  /\ boots' = [boots EXCEPT ![n] = @ + 1]
  /\ config' = [config EXCEPT ![n] = nvm[n]]
  /\ UNCHANGED << authState, edgeKey, nvm, frames, proofs >>

(* A node restarts: edge_auth_init(), edge_config_init(), which loads what *)
(* is stored, and edge_node_init().                                        *)
EdgeBoot(n) ==
  /\ boots[n] < MaxBoots
  /\ boots' = [boots EXCEPT ![n] = @ + 1]
  /\ authState' = [authState EXCEPT ![n] = "IDLE"]
  /\ edgeKey' = [edgeKey EXCEPT ![n] = NoKey]
  /\ config' = [config EXCEPT ![n] = nvm[n]]
  /\ UNCHANGED << nvm, frames, proofs >>

(* edge_auth_set_key() *)
SetKey(n, k) ==
  /\ edgeKey' = [edgeKey EXCEPT ![n] = k]
  /\ UNCHANGED << authState, config, nvm, boots, frames, proofs >>

(* edge_auth_respond() to a challenge: without a key it fails. *)
Respond(n, challenge) ==
  /\ authState' = [authState EXCEPT
       ![n] = IF edgeKey[n] = NoKey THEN "FAILED" ELSE "AUTHENTICATED"]
  /\ proofs' = IF edgeKey[n] = NoKey THEN proofs
               ELSE proofs \union
                 {[node |-> n, key |-> edgeKey[n], challenge |-> challenge, boot |-> boots[n]]}
  /\ UNCHANGED << edgeKey, config, nvm, boots, frames >>

(* edge_config_set(): an unknown driver changes nothing; when save() fails *)
(* the configuration in RAM has changed all the same.                      *)
SetConfig(n, c, saved) ==
  /\ c \in Known
  /\ config' = [config EXCEPT ![n] = c]
  /\ nvm' = [nvm EXCEPT ![n] = IF saved THEN c ELSE @]
  /\ UNCHANGED << authState, edgeKey, boots, frames, proofs >>

(* edge_node_read_and_send() up to a frame on the wire: every other exit   *)
(* only counts.                                                            *)
ReadAndSend(n) ==
  /\ authState[n] = "AUTHENTICATED"
  /\ config[n] # NoConfig
  /\ frames' = << [node |-> n, boot |-> boots[n]] >>
  /\ UNCHANGED << authState, edgeKey, config, nvm, boots, proofs >>

-----------------------------------------------------------------------------
(* "No sensor data is sent before the Edge Node has completed attestation  *)
(* with the Hub": a frame was sent by a node that had answered a challenge *)
(* since its last restart, and the answer was computed with a key.         *)
SentAfterProof ==
  \A i \in DOMAIN frames :
    \E p \in proofs : p.node = frames[i].node /\ p.boot = frames[i].boot
=============================================================================
