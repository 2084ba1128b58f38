------------------------------ MODULE Management ------------------------------
(***************************************************************************)
(* The management agent with what it reports: the statistics and the       *)
(* properties.  It is one thread, and reports of the provider's object     *)
(* exclude each other through accessLock.  There are messages to count     *)
(* only after the provider's init() and a queue's create().                *)
(***************************************************************************)
EXTENDS ProviderStats, ManagedProperties

ManagementInit == Init /\ PropsInit

ManagementNext ==
    \/ /\ made["provider"] = "added" /\ Next
       /\ made["journal"] # "linked" => UNCHANGED tasks
       /\ UNCHANGED propVars
    \/ InitManagement /\ UNCHANGED vars
    \/ BuildJournal /\ UNCHANGED vars
    \/ SetReference /\ UNCHANGED vars
    \/ \E o \in ObjectsManaged : Agent("idle") /\ ReportProperties(o) /\ UNCHANGED vars

ManagementSpec == ManagementInit /\ [][ManagementNext]_<<vars, propVars>>
===============================================================================
