-------------------------- MODULE TemplaterNetwork --------------------------
(***************************************************************************)
(* The templater with the temporary network of its imports: Templater,     *)
(* whose imports of OVFs with networks take the steps of TmpNetwork        *)
(* (ImportOVA, templater/import.go).  What goes wrong with the network     *)
(* fails the Create; what goes wrong with the Create leaves the network.   *)
(* A restart is one for both.                                              *)
(***************************************************************************)
EXTENDS Templater

CONSTANT
    Networked   \* the templates whose OVF has networks

ASSUME NetworkedAssumption == Networked \subseteq Templates

VARIABLES
    step,       \* step[c]: where the import of call c is with its network
    seen,       \* the rest is TmpNetwork's
    network,
    disturbed

netVars == <<step, seen, network, disturbed>>
allVars == <<vars, netVars>>

Net == INSTANCE TmpNetwork WITH
    Imports <- Calls, pc <- step, Faults <- Faults \cap {"vsphere", "crash"}

NetInit == Init /\ Net!Init

\* The rest of a step of the network alone, while the Create is at its own step at;
\* an error ends the import.
NetworkAlone(c, at) ==
    /\ pc[c] = at
    /\ \/ /\ step'[c] = "error"
          /\ ImportFails(c, at) /\ UNCHANGED <<listed, template, accounts, deleted, late>>
       \/ step'[c] # "error" /\ UNCHANGED vars

\* ImportOVA: CreateTmpNetwork comes before anything of the import.
MakeNetwork(c) ==
    /\ \/ Name[c] \in Networked /\ pc[c] = "import" /\ Net!ReadConfig(c)
       \/ Net!AddSwitch(c)
       \/ Net!AddPortGroup(c)
    /\ NetworkAlone(c, "import")

\* CreateImportSpec needs the network, ImportVApp the name.  An import that is
\* refused for its name leaves the network as it is.
ImportOnto(c) ==
    \/ /\ Net!Import(c) /\ step'[c] = "upload"
       /\ ImportVApp(c) /\ pc'[c] = "upload"
    \/ /\ Net!Import(c) /\ step'[c] = "error"
       /\ ImportFails(c, "import") /\ UNCHANGED <<listed, template, accounts, deleted, late>>
    \/ /\ template[Name[c]] # "absent"
       /\ step[c] = "import"
       /\ step' = [step EXCEPT ![c] = "error"]
       /\ disturbed' = disturbed \cup {c}
       /\ ImportFails(c, "import")
       /\ UNCHANGED <<listed, template, accounts, deleted, late, seen, network>>

UploadOnto(c) ==
    /\ Net!Upload(c) /\ Upload(c)
    /\ step'[c] = "error" <=> pc'[c] = "remove"

\* A mutant of RemoveNetwork: ImportOVA returns no error when the clean-up fails.
RemoveNetworkForgetting(c) ==
    /\ pc[c] = "complete"
    /\ Net!RemovePortGroup(c) \/ Net!RemoveSwitch(c)
    /\ \/ /\ step'[c] = "error"
          /\ Goes(c, "complete", "remove")
          /\ UNCHANGED <<listed, template, accounts, failure, deleted, late>>
       \/ step'[c] # "error" /\ UNCHANGED vars

\* CleanupTmpNetwork comes before the lease is completed: its error loses an
\* import of which everything is uploaded.
RemoveNetwork(c) ==
    /\ Net!RemovePortGroup(c) \/ Net!RemoveSwitch(c)
    /\ NetworkAlone(c, "complete")

CompleteOnto(c) ==
    /\ Net!Complete(c) /\ CompleteLease(c)
    /\ step'[c] = "error" <=> UNCHANGED template

\* The rest of a Create, and the import of an OVF without networks.
WithoutNetwork(c) ==
    /\ \/ FindTemplate(c) \/ CheckList(c) \/ Append(c) \/ Download(c)
       \/ Name[c] \notin Networked /\ (ImportVApp(c) \/ Upload(c) \/ CompleteLease(c))
       \/ Remove(c) \/ Wait(c) \/ Fetch(c)
    /\ UNCHANGED netVars

NetCallStep(c) ==
    \/ WithoutNetwork(c)
    \/ MakeNetwork(c) \/ ImportOnto(c) \/ UploadOnto(c)
    \/ RemoveNetwork(c) \/ CompleteOnto(c)

\* A restart ends the imports that are under way, if there are any.
RestartAll ==
    /\ Restart
    /\ IF \E c \in Calls : Net!Active(c) THEN Net!Restart ELSE UNCHANGED netVars

NetNext ==
    \/ \E c \in Calls : NetCallStep(c)
    \/ \E n \in Templates : (Delete(n) \/ ImportLeaseExpires(n)) /\ UNCHANGED netVars
    \/ RestartAll

NetSpec == NetInit /\ [][NetNext]_allVars

\* Every call goes on; a waiting one polls once a second, and the list stays
\* without the name long enough only if nobody else keeps adding it.
NetFairSpec == NetSpec /\ \A c \in Calls : WF_allVars(NetCallStep(c))

-----------------------------------------------------------------------------
NetTypeOK == TypeOK /\ Net!TypeOK

\* The network fails an import only when vSphere fails a request of it, its name is
\* taken, a restart ends it, or another import is under way at the same time:
\* whatever part of the network an earlier one has left is used and removed.
NetworkFailsOnlyWhenDisturbed == Net!FailsOnlyWhenDisturbed

\* When the imports that were begun all ended well, however they overlapped, the
\* host has no temporary network any more.
NoNetworkLeft == Net!NothingLeftBehind

\* With its network the templater does nothing that Templater does not, when for
\* Templater any request may fail.
Plain == INSTANCE Templater WITH Faults <- Faults \cup {"vsphere"}

ImplementsTemplater == Plain!Spec
=============================================================================
