---------------------------- MODULE MCLeadAction ----------------------------
EXTENDS LeadAction

=============================================================================
