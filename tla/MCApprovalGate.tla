---------------------------- MODULE MCApprovalGate ----------------------------
EXTENDS ApprovalGate

CONSTANTS click, ask, again, path

\* The desktop operation and the approval.request nodes are all a step_1.
MCStepOf == [n \in Nodes |-> 1]
=============================================================================
