----------------------------- MODULE TmpNetwork -----------------------------
(***************************************************************************)
(* The temporary network of the templater's OVA imports                    *)
(* (templater/import.go, CreateTmpNetwork and CleanupTmpNetwork of         *)
(* library/vmware.go).  An OVF with networks is imported onto a virtual    *)
(* switch and port group of fixed names on one host, the last by name; the *)
(* import makes what is missing of the two and removes both after the      *)
(* upload.                                                                 *)
(*                                                                         *)
(* Imports of different packages run at the same time, and nothing in the  *)
(* code keeps them apart.                                                  *)
(***************************************************************************)
EXTENDS FiniteSets

CONSTANTS
    Imports,    \* the imports of OVFs with networks
    Faults      \* "vsphere": a request may fail; "crash": the templater may restart

VARIABLES
    pc,         \* pc[i]: where import i is
    seen,       \* seen[i]: what the networkConfig i has read contains
    network,    \* what the host has: a subset of {"switch", "portgroup"}
    disturbed   \* history: the imports of which vSphere failed a request, which a
                \* restart ended, or which were under way together with another

vars == <<pc, seen, network, disturbed>>

PcValues == {"start", "addSwitch", "addPortGroup", "import", "upload",
             "removePortGroup", "removeSwitch", "complete", "done", "error"}

Parts == {"switch", "portgroup"}

TypeOK ==
    /\ pc \in [Imports -> PcValues]
    /\ seen \in [Imports -> SUBSET Parts]
    /\ network \in {{}, {"switch"}, Parts}    \* a port group is on its switch
    /\ disturbed \subseteq Imports

Init ==
    /\ pc = [i \in Imports |-> "start"]
    /\ seen = [i \in Imports |-> {}]
    /\ network = {}
    /\ disturbed = {}

Active(i) == pc[i] \notin {"start", "done", "error"}

Goes(i, from, to) == pc[i] = from /\ pc' = [pc EXCEPT ![i] = to]

\* History: import i starts while others are under way.
Meets(i) ==
    LET others == {j \in Imports \ {i} : Active(j)}
    IN  disturbed' = IF others = {} THEN disturbed ELSE disturbed \cup others \cup {i}

\* The request of a step is refused, for cause or as a fault.
Refused(i, from, cause) ==
    /\ Goes(i, from, "error")
    /\ \/ cause /\ UNCHANGED disturbed
       \/ "vsphere" \in Faults /\ disturbed' = disturbed \cup {i}
    /\ UNCHANGED <<seen, network>>

-----------------------------------------------------------------------------
\* CreateTmpNetwork reads the host's network configuration.
ReadConfig(i) ==
    \/ /\ Goes(i, "start", "addSwitch")
       /\ seen' = [seen EXCEPT ![i] = network]
       /\ Meets(i)
       /\ UNCHANGED network
    \/ Refused(i, "start", FALSE)

\* A mutant of AddSwitch: the switch is added whether it is there or not.
AddSwitchAlways(i) ==
    \/ /\ "switch" \notin network
       /\ Goes(i, "addSwitch", "addPortGroup")
       /\ network' = network \cup {"switch"}
       /\ UNCHANGED <<seen, disturbed>>
    \/ Refused(i, "addSwitch", "switch" \in network)

\* A switch it has not seen there is added; vSphere refuses a second one.
AddSwitch(i) ==
    \/ /\ "switch" \in seen[i]
       /\ Goes(i, "addSwitch", "addPortGroup")
       /\ UNCHANGED <<seen, network, disturbed>>
    \/ /\ "switch" \notin seen[i] /\ "switch" \notin network
       /\ Goes(i, "addSwitch", "addPortGroup")
       /\ network' = network \cup {"switch"}
       /\ UNCHANGED <<seen, disturbed>>
    \/ "switch" \notin seen[i] /\ Refused(i, "addSwitch", "switch" \in network)

\* The same for the port group, which needs the switch.
AddPortGroup(i) ==
    \/ /\ "portgroup" \in seen[i]
       /\ Goes(i, "addPortGroup", "import")
       /\ UNCHANGED <<seen, network, disturbed>>
    \/ /\ "portgroup" \notin seen[i]
       /\ network = {"switch"}
       /\ Goes(i, "addPortGroup", "import")
       /\ network' = Parts
       /\ UNCHANGED <<seen, disturbed>>
    \/ "portgroup" \notin seen[i] /\ Refused(i, "addPortGroup", network # {"switch"})

\* CreateImportSpec maps the OVF's networks to one the host has, and ImportVApp
\* connects the entity to it; there is none other than the temporary one.
Import(i) ==
    \/ /\ "portgroup" \in network
       /\ Goes(i, "import", "upload")
       /\ UNCHANGED <<seen, network, disturbed>>
    \/ Refused(i, "import", "portgroup" \notin network)

\* The upload does not use the network; its failure returns without a clean-up.
Upload(i) ==
    \/ Goes(i, "upload", "removePortGroup") /\ UNCHANGED <<seen, network, disturbed>>
    \/ Refused(i, "upload", FALSE)

\* CleanupTmpNetwork: the port group first, then the switch.
RemovePortGroup(i) ==
    \/ /\ "portgroup" \in network
       /\ Goes(i, "removePortGroup", "removeSwitch")
       /\ network' = network \ {"portgroup"}
       /\ UNCHANGED <<seen, disturbed>>
    \/ Refused(i, "removePortGroup", "portgroup" \notin network)

\* A mutant of RemoveSwitch: the switch stays.
RemoveSwitchNot(i) ==
    Goes(i, "removeSwitch", "complete") /\ UNCHANGED <<seen, network, disturbed>>

\* A switch with a port group of another import may go with it or be refused.
RemoveSwitch(i) ==
    \/ /\ "switch" \in network
       /\ Goes(i, "removeSwitch", "complete")
       /\ network' = {}
       /\ UNCHANGED <<seen, disturbed>>
    \/ Refused(i, "removeSwitch", network # {"switch"})

Complete(i) ==
    \/ Goes(i, "complete", "done") /\ UNCHANGED <<seen, network, disturbed>>
    \/ Refused(i, "complete", FALSE)

\* The templater dies under its imports; the host keeps the network.
Restart ==
    /\ "crash" \in Faults
    /\ \E i \in Imports : Active(i)
    /\ disturbed' = disturbed \cup {i \in Imports : Active(i)}
    /\ pc' = [i \in Imports |-> IF Active(i) THEN "error" ELSE pc[i]]
    /\ UNCHANGED <<seen, network>>

Next ==
    \/ \E i \in Imports :
          \/ ReadConfig(i) \/ AddSwitch(i) \/ AddPortGroup(i)
          \/ Import(i) \/ Upload(i)
          \/ RemovePortGroup(i) \/ RemoveSwitch(i) \/ Complete(i)
    \/ Restart

Spec == Init /\ [][Next]_vars

-----------------------------------------------------------------------------
\* An import fails only when vSphere fails one of its own requests, a restart ends
\* it, or another import is under way at the same time: whatever part of the
\* network an earlier import left behind is used and removed by the next.
FailsOnlyWhenDisturbed == \A i \in Imports : pc[i] = "error" => i \in disturbed

\* When the imports that were begun all ended well, however they overlapped, the
\* host has no temporary network any more.
NothingLeftBehind ==
    (\A i \in Imports : pc[i] \in {"start", "done"}) => network = {}
=============================================================================
