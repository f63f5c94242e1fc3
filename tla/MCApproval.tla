---- MODULE MCApproval ----
EXTENDS Approval
====
