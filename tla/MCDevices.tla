------------------------------- MODULE MCDevices -------------------------------
(* Instances of the graphics, network and security components for TLC.  They share *)
(* no state, so a behaviour exercises one of them; the others stay at their start. *)
EXTENDS ThreadSched, NetworkTraffic, MeasuredBoot, Enclaves

VARIABLE part

DevInit ==
    /\ GteInit /\ WsInit /\ CardInit /\ RateInit /\ BootInit /\ TeeInit
    /\ part \in {"blocks", "warps", "rings", "rdma", "token", "leaky", "boot", "enclaves"}
    /\ \/ \A s \in Schedulers : ws[s].policy \in {"GTO", "LRR"}
       \/ \A s \in Schedulers : ws[s].policy \in {"TWO_LEVEL", "ADAPTIVE"}
    /\ part # "warps" => \A s \in Schedulers : ws[s].policy = "GTO"

Idle(p, vars) == part # p => UNCHANGED vars

DevNext ==
    /\ UNCHANGED part
    /\ \/ part = "blocks"   /\ GteNext
       \/ part = "warps"    /\ WsNext
       \/ part = "rings"    /\ NicNext
       \/ part = "rdma"     /\ RdmaNext
       \/ part = "token"    /\ TokenNext
       \/ part = "leaky"    /\ LeakyNext
       \/ part = "boot"     /\ BootNext
       \/ part = "enclaves" /\ TeeNext
    /\ Idle("blocks", gte_vars) /\ Idle("warps", ws_vars)
    /\ part \notin {"rings", "rdma"} => UNCHANGED card_vars
    /\ part \notin {"token", "leaky"} => UNCHANGED rate_vars
    /\ Idle("boot", boot_vars) /\ Idle("enclaves", tee_vars)

DevSpec ==
    DevInit /\ [][DevNext]_<<part, gte_vars, ws_vars, card_vars, rate_vars, boot_vars, tee_vars>>

\* Two stages, the second of an older version and with a hash that does not match.
MCChains ==
    {[i \in 0 .. 1 |-> [hash |-> <<i + 1>>, version |-> 2 - i, signer_key_id |-> 0,
                        signature_valid |-> FALSE, matches |-> i = 0]]}
MCSetups == {[policy |-> "ENFORCE", trusted |-> {0}, version |-> 0],
             [policy |-> "VERIFY", trusted |-> {}, version |-> 0],
             [policy |-> "VERIFY", trusted |-> {}, version |-> 2]}
MCMasks == {{0}}

\* One enclave, the same with a high attribute bit, and another of the same signer.
Identity(code, attributes) ==
    [mr_enclave |-> code, mr_signer |-> 1, product_id |-> 1, attributes |-> attributes]
MCIdentities == {Identity(1, 0), Identity(1, 65536), Identity(2, 0)}
--------------------------------------------------------------------------------
(* Each component is looked at while it moves; idle it is at one of its starts,     *)
(* which its own parts include.                                                     *)

\* The block scheduler accounts for every block and keeps to its policy.
BlocksSound == part = "blocks" => BlocksAccounted /\ PoliciesKept

\* Rings and completions stay in order through every wrap; the limiters admit exactly
\* what conforms.
TrafficSound ==
    /\ part \in {"rings", "rdma"}  => QueuesKeepOrder
    /\ part \in {"token", "leaky"} => LimitersExact

\* The log explains the registers up to its limit, and the chain obeys the boot policy.
BootMeasured == part = "boot" => LogExplainsRegisters /\ BootHonoursPolicy

\* Keys, sealed data and reports follow the identity of the enclave.
EnclavesHold == part = "enclaves" => EnclavesSound
================================================================================
