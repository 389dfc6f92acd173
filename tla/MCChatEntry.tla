----------------------------- MODULE MCChatEntry ------------------------------
(* ChatEntry for TLC: the demo accounts of auth.py, one of them with two   *)
(* spellings of its address.                                               *)
EXTENDS ChatEntry, TLC

MCEmails   == {"customer", "officer", "Officer"}
MCAccounts == {"customer", "officer"}
MCAccountOf == [e \in MCEmails |-> IF e = "customer" THEN "customer" ELSE "officer"]
MCTenantOf == [customer |-> "t1", officer |-> "t2"]
MCRolesOf == [customer |-> {"customer"},
              officer |-> {"institution_admin", "loan_officer", "compliance_officer"}]
MCRoles == {"customer", "institution_admin", "loan_officer", "compliance_officer"}
MCTopics == {"loan", "fraud", "support"}
MCHints == {NoHint, "general", "supervisor", "customer_support"}
=============================================================================
