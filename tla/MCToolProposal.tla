--------------------------- MODULE MCToolProposal ---------------------------
(* Small instances of ToolProposal.  Handlers are interchangeable: only one *)
(* of them is named by a request, and no property names one.                *)
EXTENDS ToolProposal, TLC

HandlerSymmetry == Permutations(Handlers)
=============================================================================
