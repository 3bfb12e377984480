------------------------------ MODULE MCTxHash ------------------------------
(* Small instances of TxHash.                                                *)
EXTENDS TxHash

CONSTANTS v1, v2, v3, f1, p1

MCVaas == {v1, v2, v3}
MCReplicas == {f1}
MCPipelines == {p1}
MCPyth == {v3}
=============================================================================
