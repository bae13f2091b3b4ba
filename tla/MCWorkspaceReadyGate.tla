------------------------ MODULE MCWorkspaceReadyGate ------------------------
(* WorkspaceReadyGate on one workspace, with processes that race for it. *)
EXTENDS WorkspaceReadyGate

OneSpace == CHOOSE w \in Spaces : TRUE
Together == [p \in Procs |-> OneSpace]
=============================================================================
