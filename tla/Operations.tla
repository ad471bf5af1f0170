------------------------------ MODULE Operations ------------------------------
(***************************************************************************)
(* What the user asks for and may cancel: the transfers of a repository's    *)
(* worker, the clones and, in the editor extension, the searches. The three  *)
(* share no state, so a behaviour follows one of them (`focus`) and leaves   *)
(* the others idle.                                                          *)
(***************************************************************************)
EXTENDS TransferProps, CloneJobs, Bridge

VARIABLE focus

opsVars == <<tvars, cvars, bridgeVars, focus>>

OpsInit ==
  /\ TInit /\ CInit /\ BridgeInit /\ focus \in {"transfers", "clones", "searches"}
  /\ focus # "clones" => folder = "absent"

OpsNext ==
  /\ UNCHANGED focus
  /\ \/ focus = "transfers" /\ TNext /\ UNCHANGED <<cvars, bridgeVars>>
     \/ focus = "clones" /\ CNext /\ UNCHANGED <<tvars, bridgeVars>>
     \/ focus = "searches" /\ BridgeNext /\ UNCHANGED <<tvars, cvars>>

OpsSpec == OpsInit /\ [][OpsNext]_opsVars /\ TFair /\ CFair /\ BridgeFair

(* Every transfer and every clone that was asked for is over in the end, whatever a hook     *)
(* does and whenever Cancel is pressed, and every call of the webview is settled, whatever   *)
(* dies (run_captured's limit, complete, clone_repo, vscodeRepoClient.call).                 *)
EveryOperationEnds ==
  []<>(/\ \A id \in Ids : op[id].pc \in {"new", "done"}
       /\ \A id \in CloneIds : clone[id].pc \in {"new", "answered"}
       /\ web.waits = {})
=============================================================================
