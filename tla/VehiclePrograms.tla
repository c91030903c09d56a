--------------------------- MODULE VehiclePrograms ---------------------------
(***************************************************************************)
(* The programs that start from the configuration of the vehicle: decom    *)
(* and uplink, which fork a process for each packet or device (see         *)
(* ProcessTree), a viewer (see PacketViewer), and mmon with decom (see     *)
(* TriggerValues).  A program of another kind only reads it.               *)
(***************************************************************************)
EXTENDS ProcessTree, PacketViewer, TriggerValues

vars == <<configVars, treeVars, viewerVars, valueVars>>

Forking == {"decom", "uplink"}

Init ==
  /\ ConfigInit
  /\ TreeInit
  /\ ViewerInit /\ (kind # "viewer" => ~check_all)
  /\ ValuesInit

\* The master is reading its configuration, or it is the only process.
Configure == At(0, "reading") /\ ConfigNext /\ UNCHANGED <<treeVars, viewerVars, valueVars>>

RunTree == kind \in Forking /\ TreeNext /\ UNCHANGED <<configVars, viewerVars, valueVars>>

View == kind = "viewer" /\ ViewerNext /\ UNCHANGED <<configVars, treeVars, valueVars>>

Trigger == kind = "mmon" /\ ValuesNext /\ UNCHANGED <<configVars, treeVars, viewerVars>>

Next == Configure \/ RunTree \/ View \/ Trigger

Spec == Init /\ [][Next]_vars

Proceeds == kind \in Forking /\ TreeProgress /\ UNCHANGED <<configVars, viewerVars, valueVars>>

\* Programs run on, and signals that were sent are delivered: decom's rx wakes up every
\* second.  A process may stick in a call that waits for others, and nobody has to send a
\* signal.
FairSpec == Spec /\ WF_vars(Configure) /\ WF_vars(Proceeds)

=============================================================================
