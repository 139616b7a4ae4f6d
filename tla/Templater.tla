----------------------------- MODULE Templater -----------------------------
(***************************************************************************)
(* The templater's Create and Delete (templater/templater.go): turning a   *)
(* Deputy package into a vSphere template, once per package checksum.      *)
(*                                                                         *)
(* A Create first asks vSphere for the template, then its own process'     *)
(* DeploymentList, then imports.  The three are separate steps: the list's *)
(* lock covers single operations only.  vSphere shows the entity of an     *)
(* import from the moment its lease is ready, before any file is uploaded; *)
(* it refuses a second entity of the same name in the folder, and removes  *)
(* an entity whose import is never completed.                              *)
(***************************************************************************)
EXTENDS Naturals, FiniteSets

CONSTANTS
    Calls,      \* Create calls
    Templates,  \* template names: package checksums
    Name,       \* Name[c]: the template call c asks for
    Faults      \* "download", "vsphere": Deputy or vSphere may fail a request;
                \* "delete": Delete is called; "crash": the templater may restart

ASSUME TemplaterAssumption ==
    /\ IsFiniteSet(Calls)
    /\ Name \in [Calls -> Templates]
    /\ Faults \subseteq {"download", "vsphere", "delete", "crash"}

VARIABLES
    pc,         \* where a call is
    listed,     \* DeploymentList: how often each name is in it
    template,   \* the template in vSphere: "absent", "importing" or "complete"
    accounts,   \* accounts[c]: c has read the package's accounts
    failure,    \* failure[c]: createTemplate returned an error to c
    deleted,    \* history: the templates that a client had deleted
    late        \* history: the calls overtaken by another of their name between
                \* looking for the template or the name and entering the list

vars == <<pc, listed, template, accounts, failure, deleted, late>>

PcValues == {"start", "checkList", "append", "download", "import", "upload",
             "complete", "remove", "wait", "fetch", "done", "error", "leaked"}

TypeOK ==
    /\ pc \in [Calls -> PcValues]
    /\ listed \in [Templates -> 0..Cardinality(Calls)]
    /\ template \in [Templates -> {"absent", "importing", "complete"}]
    /\ accounts \in [Calls -> BOOLEAN]
    /\ failure \in [Calls -> BOOLEAN]
    /\ deleted \subseteq Templates
    /\ late \subseteq Calls

Init ==
    /\ pc = [c \in Calls |-> "start"]
    /\ listed = [n \in Templates |-> 0]
    /\ template = [n \in Templates |-> "absent"]
    /\ accounts = [c \in Calls |-> FALSE]
    /\ failure = [c \in Calls |-> FALSE]
    /\ deleted = {}
    /\ late = {}

\* The calls whose own import made the entity of their template.
Importer(c) == pc[c] \in {"upload", "complete"}

Goes(c, from, to) == pc[c] = from /\ pc' = [pc EXCEPT ![c] = to]

-----------------------------------------------------------------------------
\* DoesTemplateExist: an entity of that name is in the template folder.  The
\* login, the package's checksum and version, and the search may each fail.
FindTemplate(c) ==
    /\ \/ template[Name[c]] # "absent" /\ Goes(c, "start", "fetch")
       \/ template[Name[c]] = "absent" /\ Goes(c, "start", "checkList")
       \/ /\ "download" \in Faults \/ "vsphere" \in Faults
          /\ Goes(c, "start", "error")
    /\ UNCHANGED <<listed, template, accounts, failure, deleted, late>>

\* The other calls for c's template that are at the given place.
Rivals(c, place) == {d \in Calls \ {c} : Name[d] = Name[c] /\ pc[d] = place}

\* A mutant of CheckList: the list is not looked at.
CheckListBlind(c) ==
    /\ Goes(c, "checkList", "append")
    /\ LET R == Rivals(c, "append")
       IN  late' = late \cup (IF R = {} THEN {} ELSE R \cup {c})
    /\ UNCHANGED <<listed, template, accounts, failure, deleted>>

\* DeploymentExists: another call of this process is at it, or was.  Calls that pass
\* it before either is in the list overtake each other.
CheckList(c) ==
    /\ \/ /\ listed[Name[c]] > 0
          /\ Goes(c, "checkList", "wait")
          /\ UNCHANGED late
       \/ /\ listed[Name[c]] = 0
          /\ Goes(c, "checkList", "append")
          /\ LET R == Rivals(c, "append")
             IN  late' = late \cup (IF R = {} THEN {} ELSE R \cup {c})
    /\ UNCHANGED <<listed, template, accounts, failure, deleted>>

Append(c) ==
    /\ Goes(c, "append", "download")
    /\ listed' = [listed EXCEPT ![Name[c]] = @ + 1]
    /\ UNCHANGED <<template, accounts, failure, deleted, late>>

\* A mutant of Download: the name leaves the list here already.
DownloadRemoving(c) ==
    /\ \/ Goes(c, "download", "import")
       \/ "download" \in Faults /\ Goes(c, "download", "leaked")
    /\ listed' = [listed EXCEPT ![Name[c]] = @ - 1]
    /\ UNCHANGED <<template, accounts, failure, deleted, late>>

\* DownloadPackage; its error returns at once and leaves the name in the list.
Download(c) ==
    /\ \/ Goes(c, "download", "import")
       \/ "download" \in Faults /\ Goes(c, "download", "leaked")
    /\ UNCHANGED <<listed, template, accounts, failure, deleted, late>>

\* createTemplate fails: the error is kept until the name is out of the list.
ImportFails(c, from) ==
    /\ Goes(c, from, "remove")
    /\ failure' = [failure EXCEPT ![c] = TRUE]

\* ImportOVA up to its lease: the entity appears, unless its name is taken, and
\* overtakes the calls that have looked for it and not yet at the list.
ImportVApp(c) ==
    /\ \/ /\ template[Name[c]] = "absent"
          /\ Goes(c, "import", "upload")
          /\ template' = [template EXCEPT ![Name[c]] = "importing"]
          /\ late' = late \cup Rivals(c, "checkList")
          /\ UNCHANGED failure
       \/ /\ template[Name[c]] # "absent" \/ "vsphere" \in Faults
          /\ ImportFails(c, "import") /\ UNCHANGED <<template, late>>
    /\ UNCHANGED <<listed, accounts, deleted>>

\* The files are uploaded to the entity; an error leaves it there.
Upload(c) ==
    /\ \/ Goes(c, "upload", "complete") /\ UNCHANGED failure
       \/ "vsphere" \in Faults /\ ImportFails(c, "upload")
    /\ UNCHANGED <<listed, template, accounts, deleted, late>>

\* lease.Complete, and GetTemplateByName at the end of createTemplate, which may
\* fail when the template is complete.
CompleteLease(c) ==
    /\ \/ /\ template[Name[c]] = "importing"
          /\ template' = [template EXCEPT ![Name[c]] = "complete"]
          /\ \/ Goes(c, "complete", "remove") /\ UNCHANGED failure
             \/ "vsphere" \in Faults /\ ImportFails(c, "complete")
       \/ /\ template[Name[c]] # "importing" \/ "vsphere" \in Faults
          /\ ImportFails(c, "complete") /\ UNCHANGED template
    /\ UNCHANGED <<listed, accounts, deleted, late>>

\* What the call does after Remove: a failed deployment returns its error, a good
\* one reads the accounts from the package (or fails to) and goes on.
AfterRemove(c) ==
    \/ failure[c] /\ Goes(c, "remove", "error") /\ UNCHANGED accounts
    \/ ~failure[c] /\ Goes(c, "remove", "fetch") /\ accounts' = [accounts EXCEPT ![c] = TRUE]
    \/ "vsphere" \in Faults /\ Goes(c, "remove", "error") /\ UNCHANGED accounts

\* Mutants of Remove: only a good deployment leaves the list; a failed one is
\* answered like a good one.
RemoveOnSuccess(c) ==
    /\ AfterRemove(c)
    /\ listed' = [listed EXCEPT ![Name[c]] = IF failure[c] THEN @ ELSE @ - 1]
    /\ UNCHANGED <<template, failure, deleted, late>>

RemoveIgnoringError(c) ==
    /\ Goes(c, "remove", "fetch")
    /\ accounts' = [accounts EXCEPT ![c] = TRUE]
    /\ listed' = [listed EXCEPT ![Name[c]] = @ - 1]
    /\ UNCHANGED <<template, failure, deleted, late>>

\* Remove takes one entry of the name out of the list, whatever came of the
\* deployment.
Remove(c) ==
    /\ AfterRemove(c)
    /\ listed' = [listed EXCEPT ![Name[c]] = @ - 1]
    /\ UNCHANGED <<template, failure, deleted, late>>

\* WaitForDeployment polls the list until the name is out of it.
Wait(c) ==
    /\ listed[Name[c]] = 0
    /\ Goes(c, "wait", "fetch")
    /\ UNCHANGED <<listed, template, accounts, failure, deleted, late>>

\* GetTemplateByName, whose failure is the call's; the template loses its network
\* devices (not modelled), and the response is sent.
Fetch(c) ==
    /\ \/ template[Name[c]] # "absent" /\ Goes(c, "fetch", "done")
       \/ /\ template[Name[c]] = "absent" \/ "vsphere" \in Faults
          /\ Goes(c, "fetch", "error")
    /\ UNCHANGED <<listed, template, accounts, failure, deleted, late>>

\* Delete destroys a deployed template whose identifier some Create answered with;
\* vSphere refuses it for one whose import is under way.
Delete(n) ==
    /\ "delete" \in Faults
    /\ template[n] = "complete"
    /\ \E c \in Calls : Name[c] = n /\ pc[c] = "done"
    /\ template' = [template EXCEPT ![n] = "absent"]
    /\ deleted' = deleted \cup {n}
    /\ UNCHANGED <<pc, listed, accounts, failure, late>>

\* vSphere removes an entity that no import will complete.
ImportLeaseExpires(n) ==
    /\ template[n] = "importing"
    /\ \A c \in Calls : Name[c] = n => ~Importer(c)
    /\ template' = [template EXCEPT ![n] = "absent"]
    /\ UNCHANGED <<pc, listed, accounts, failure, deleted, late>>

Under(c) == pc[c] \notin {"start", "done", "error", "leaked"}

\* The templater dies under its calls and is started again with an empty
\* DeploymentList; vSphere keeps what it has.
Restart ==
    /\ "crash" \in Faults
    /\ \E c \in Calls : Under(c)
    /\ pc' = [c \in Calls |-> IF Under(c) \/ pc[c] = "leaked" THEN "error" ELSE pc[c]]
    /\ listed' = [n \in Templates |-> 0]
    /\ UNCHANGED <<template, accounts, failure, deleted, late>>

CallStep(c) ==
    \/ FindTemplate(c) \/ CheckList(c) \/ Append(c) \/ Download(c)
    \/ ImportVApp(c) \/ Upload(c) \/ CompleteLease(c) \/ Remove(c)
    \/ Wait(c) \/ Fetch(c)

Next ==
    \/ \E c \in Calls : CallStep(c)
    \/ \E n \in Templates : Delete(n) \/ ImportLeaseExpires(n)
    \/ Restart

Spec == Init /\ [][Next]_vars

-----------------------------------------------------------------------------
Returned(c) == pc[c] \in {"done", "error", "leaked"}

\* A call whose own import went through answers with a complete template, however
\* many calls raced through the checks, unless a client had that template deleted.
OwnImportComplete ==
    \A c \in Calls :
        accounts[c] /\ pc[c] \in {"fetch", "done"}
            => template[Name[c]] = "complete" \/ Name[c] \in deleted

\* The import of a Create is refused for the name of its template only if another
\* Create of the package overtook it: both had passed the list before either was in
\* it, or the other's entity appeared after this one had looked for it and before it
\* looked at the list.  Whoever looks once another is in the list waits for it.
RefusedOnlyWhenLate ==
    \A c \in Calls : pc[c] = "import" /\ template[Name[c]] # "absent" => c \in late

\* In the end every call has returned, but those of a name whose download failed: that
\* name stays in the list until a restart, and its later calls wait.
ReturnsUnlessLeaked ==
    <>[](\A c \in Calls :
            Returned(c) \/ \E d \in Calls : Name[d] = Name[c] /\ pc[d] = "leaked")
=============================================================================
