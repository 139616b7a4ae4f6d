---------------------- MODULE TemplaterNetwork_proofs ----------------------
(***************************************************************************)
(* Proofs about Templater and TemplaterNetwork, for every finite set of    *)
(* calls and every fault.  Plain is Templater when any request may fail:   *)
(* the templater with its network implements it, and what is proved of     *)
(* Plain's steps holds with the network and without it.                    *)
(***************************************************************************)
EXTENDS TemplaterNetwork, FiniteSetTheorems, TLAPS

-----------------------------------------------------------------------------
(* The templater with its network implements Templater. *)

\* What Templater does on its own, Plain does.
LEMMA CallStepIsPlain ==
    ASSUME NEW c \in Calls
    PROVE  /\ FindTemplate(c) => Plain!FindTemplate(c)
           /\ CheckList(c) => Plain!CheckList(c)
           /\ Append(c) => Plain!Append(c)
           /\ Download(c) => Plain!Download(c)
           /\ ImportVApp(c) => Plain!ImportVApp(c)
           /\ Upload(c) => Plain!Upload(c)
           /\ CompleteLease(c) => Plain!CompleteLease(c)
           /\ Remove(c) => Plain!Remove(c)
           /\ Wait(c) => Plain!Wait(c)
           /\ Fetch(c) => Plain!Fetch(c)
<1> USE DEF Goes, Plain!Goes, ImportFails, Plain!ImportFails
<1>1. FindTemplate(c) => Plain!FindTemplate(c)
  BY DEF FindTemplate, Plain!FindTemplate
<1>2. CheckList(c) => Plain!CheckList(c)
  BY DEF CheckList, Plain!CheckList, Rivals, Plain!Rivals
<1>3. Append(c) => Plain!Append(c)
  BY DEF Append, Plain!Append
<1>4. Download(c) => Plain!Download(c)
  BY DEF Download, Plain!Download
<1>5. ImportVApp(c) => Plain!ImportVApp(c)
  BY DEF ImportVApp, Plain!ImportVApp, Rivals, Plain!Rivals
<1>6. Upload(c) => Plain!Upload(c)
  BY DEF Upload, Plain!Upload
<1>7. CompleteLease(c) => Plain!CompleteLease(c)
  BY DEF CompleteLease, Plain!CompleteLease
<1>8. Remove(c) => Plain!Remove(c)
  BY DEF Remove, Plain!Remove, AfterRemove, Plain!AfterRemove
<1>9. Wait(c) => Plain!Wait(c)
  BY DEF Wait, Plain!Wait
<1>10. Fetch(c) => Plain!Fetch(c)
  BY DEF Fetch, Plain!Fetch
<1>11. QED
  BY <1>1, <1>2, <1>3, <1>4, <1>5, <1>6, <1>7, <1>8, <1>9, <1>10

\* An import that the network fails looks as if vSphere had failed it.
LEMMA FailureIsPlain ==
    ASSUME NEW c \in Calls, UNCHANGED <<listed, template, accounts, deleted, late>>
    PROVE  /\ ImportFails(c, "import") => Plain!ImportVApp(c)
           /\ ImportFails(c, "complete") => Plain!CompleteLease(c)
BY DEF ImportFails, Goes, Plain!ImportFails, Plain!Goes, Plain!ImportVApp, Plain!CompleteLease

LEMMA StepIsPlain == [NetNext]_allVars => [Plain!Next]_vars
<1> SUFFICES ASSUME [NetNext]_allVars PROVE [Plain!Next]_vars
  OBVIOUS
<1>1. ASSUME NEW c \in Calls, NetCallStep(c) PROVE Plain!CallStep(c) \/ UNCHANGED vars
  <2>1. CASE WithoutNetwork(c)
    BY <2>1, CallStepIsPlain DEF WithoutNetwork, Plain!CallStep
  <2>2. CASE MakeNetwork(c)
    BY <2>2, FailureIsPlain DEF MakeNetwork, NetworkAlone, Plain!CallStep
  <2>3. CASE ImportOnto(c)
    BY <2>3, CallStepIsPlain, FailureIsPlain DEF ImportOnto, Plain!CallStep
  <2>4. CASE UploadOnto(c)
    BY <2>4, CallStepIsPlain DEF UploadOnto, Plain!CallStep
  <2>5. CASE RemoveNetwork(c)
    BY <2>5, FailureIsPlain DEF RemoveNetwork, NetworkAlone, Plain!CallStep
  <2>6. CASE CompleteOnto(c)
    BY <2>6, CallStepIsPlain DEF CompleteOnto, Plain!CallStep
  <2>7. QED
    BY <1>1, <2>1, <2>2, <2>3, <2>4, <2>5, <2>6 DEF NetCallStep
<1>2. ASSUME NEW n \in Templates, Delete(n) \/ ImportLeaseExpires(n)
      PROVE  Plain!Delete(n) \/ Plain!ImportLeaseExpires(n)
  BY <1>2 DEF Delete, Plain!Delete, ImportLeaseExpires, Plain!ImportLeaseExpires,
              Importer, Plain!Importer
<1>3. CASE RestartAll
  BY <1>3 DEF RestartAll, Restart, Plain!Restart, Under, Plain!Under, Plain!Next
<1>4. CASE UNCHANGED allVars
  BY <1>4 DEF allVars
<1>5. QED
  BY <1>1, <1>2, <1>3, <1>4 DEF NetNext, Plain!Next

\* With its network the templater does nothing that Templater does not.
THEOREM Implementation == NetSpec => ImplementsTemplater
<1>1. NetInit => Plain!Init
  BY DEF NetInit, Init, Plain!Init
<1>2. [NetNext]_allVars => [Plain!Next]_(Plain!vars)
  BY StepIsPlain DEF vars, Plain!vars
<1>3. QED
  BY <1>1, <1>2, PTL DEF NetSpec, ImplementsTemplater, Plain!Spec

-----------------------------------------------------------------------------
(* Every state is well formed: the list holds a name no more often than    *)
(* there are calls.                                                        *)

\* The calls that put name n into the list and did not take it out.
Entered(n) ==
    {c \in Calls : Name[c] = n /\ pc[c] \in
        {"download", "import", "upload", "complete", "remove", "leaked"}}

TypeInv ==
    /\ pc \in [Calls -> PcValues]
    /\ template \in [Templates -> {"absent", "importing", "complete"}]
    /\ accounts \in [Calls -> BOOLEAN]
    /\ failure \in [Calls -> BOOLEAN]
    /\ deleted \subseteq Templates
    /\ late \subseteq Calls
    /\ listed \in [Templates -> Nat]
    /\ \A n \in Templates : listed[n] = Cardinality(Entered(n))

LEMMA EnteredFinite ==
    ASSUME NEW n
    PROVE  /\ IsFiniteSet(Entered(n))
           /\ Cardinality(Entered(n)) \in 0..Cardinality(Calls)
<1>1. Entered(n) \in SUBSET Calls
  BY DEF Entered
<1>2. /\ IsFiniteSet(Entered(n)) /\ Cardinality(Entered(n)) <= Cardinality(Calls)
      /\ Cardinality(Calls) \in Nat
  BY <1>1, FS_Subset, FS_CardinalityType, TemplaterAssumption
<1>3. Cardinality(Entered(n)) \in Nat
  BY <1>2, FS_CardinalityType
<1>4. QED
  BY <1>2, <1>3

LEMMA TypeKept ==
    ASSUME TypeInv, [Plain!Next]_vars
    PROVE  TypeInv'
<1> USE TemplaterAssumption
    DEF TypeInv, PcValues, Plain!Goes, Plain!ImportFails, vars
\* A step that changes neither who entered nor the list.
<1>1. ASSUME UNCHANGED listed, \A n \in Templates : Entered(n)' = Entered(n)
      PROVE  listed' \in [Templates -> Nat]
             /\ \A n \in Templates : listed'[n] = Cardinality(Entered(n)')
  BY <1>1
<1>2. ASSUME NEW c \in Calls,
             \/ Plain!FindTemplate(c) \/ Plain!CheckList(c) \/ Plain!Download(c)
             \/ Plain!ImportVApp(c) \/ Plain!Upload(c) \/ Plain!CompleteLease(c)
             \/ Plain!Wait(c) \/ Plain!Fetch(c)
      PROVE  TypeInv'
  <2> USE DEF Plain!FindTemplate, Plain!CheckList, Plain!Download, Plain!ImportVApp,
              Plain!Upload, Plain!CompleteLease, Plain!Wait, Plain!Fetch
  <2>1. UNCHANGED <<listed, accounts, deleted>> /\ pc' \in [Calls -> PcValues]
    BY <1>2
  <2>6. late' \subseteq Calls
    BY <1>2 DEF Plain!Rivals
  <2>2. template' \in [Templates -> {"absent", "importing", "complete"}]
    BY <1>2
  <2>3. failure' \in [Calls -> BOOLEAN]
    BY <1>2
  <2>4. \A n \in Templates : Entered(n)' = Entered(n)
    BY <1>2 DEF Entered
  <2>5. QED
    BY <1>1, <2>1, <2>2, <2>3, <2>4, <2>6
<1>3. ASSUME NEW c \in Calls, Plain!Append(c) PROVE TypeInv'
  <2>1. /\ pc[c] = "append" /\ pc' = [pc EXCEPT ![c] = "download"]
        /\ listed' = [listed EXCEPT ![Name[c]] = @ + 1]
        /\ UNCHANGED <<template, accounts, failure, deleted, late>>
    BY <1>3 DEF Plain!Append
  <2>2. \A n \in Templates \ {Name[c]} : Entered(n)' = Entered(n)
    BY <2>1 DEF Entered
  <2>3. Entered(Name[c])' = Entered(Name[c]) \cup {c} /\ c \notin Entered(Name[c])
    BY <2>1 DEF Entered
  <2>4. Cardinality(Entered(Name[c])') = Cardinality(Entered(Name[c])) + 1
    <3>1. IsFiniteSet(Entered(Name[c]))
      BY EnteredFinite
    <3>2. Cardinality(Entered(Name[c]) \cup {c}) = Cardinality(Entered(Name[c])) + 1
      BY ONLY <2>3, <3>1, FS_AddElement
    <3>3. QED
      BY <2>3, <3>2
  <2>5. \A n \in Templates : listed'[n] = Cardinality(Entered(n)')
    <3>1. listed'[Name[c]] = listed[Name[c]] + 1
      BY <2>1
    <3>2. \A n \in Templates \ {Name[c]} : listed'[n] = listed[n]
      BY <2>1
    <3>3. QED
      BY <2>2, <2>4, <3>1, <3>2
  <2>6. pc' \in [Calls -> PcValues] /\ listed' \in [Templates -> Nat]
    BY <2>1
  <2>7. QED
    BY <2>1, <2>5, <2>6
<1>4. ASSUME NEW c \in Calls, Plain!Remove(c) PROVE TypeInv'
  <2>1. /\ pc[c] = "remove"
        /\ pc' = [pc EXCEPT ![c] = "error"] \/ pc' = [pc EXCEPT ![c] = "fetch"]
        /\ accounts' = accounts \/ accounts' = [accounts EXCEPT ![c] = TRUE]
        /\ listed' = [listed EXCEPT ![Name[c]] = @ - 1]
        /\ UNCHANGED <<template, failure, deleted, late>>
    BY <1>4 DEF Plain!Remove, Plain!AfterRemove
  <2>2. \A n \in Templates \ {Name[c]} : Entered(n)' = Entered(n)
    BY <2>1 DEF Entered
  <2>3. Entered(Name[c])' = Entered(Name[c]) \ {c} /\ c \in Entered(Name[c])
    BY <2>1 DEF Entered
  <2>4. Cardinality(Entered(Name[c])') = Cardinality(Entered(Name[c])) - 1
    <3>1. IsFiniteSet(Entered(Name[c]))
      BY EnteredFinite
    <3>2. Cardinality(Entered(Name[c]) \ {c}) = Cardinality(Entered(Name[c])) - 1
      BY ONLY <2>3, <3>1, FS_RemoveElement
    <3>3. QED
      BY ONLY <2>3, <3>2
  <2>5. Cardinality(Entered(Name[c])') \in Nat
    BY <2>3, EnteredFinite, FS_RemoveElement, FS_CardinalityType
  <2>6. \A n \in Templates : listed'[n] = Cardinality(Entered(n)')
    BY <2>1, <2>2, <2>4
  <2>7. listed' \in [Templates -> Nat]
    <3>1. listed[Name[c]] - 1 \in Nat
      BY <2>4, <2>5
    <3>2. QED
      BY <2>1, <3>1
  <2>8. pc' \in [Calls -> PcValues] /\ accounts' \in [Calls -> BOOLEAN]
    BY <2>1
  <2>9. QED
    BY <2>1, <2>6, <2>7, <2>8
<1>5. ASSUME NEW n \in Templates, Plain!Delete(n) \/ Plain!ImportLeaseExpires(n)
      PROVE  TypeInv'
  <2>1. /\ UNCHANGED <<pc, listed, accounts, failure, late>> /\ deleted' \subseteq Templates
        /\ template' \in [Templates -> {"absent", "importing", "complete"}]
    BY <1>5 DEF Plain!Delete, Plain!ImportLeaseExpires
  <2>2. \A m \in Templates : Entered(m)' = Entered(m)
    BY <2>1 DEF Entered
  <2>3. QED
    BY <1>1, <2>1, <2>2
<1>6. CASE Plain!Restart
  <2>1. /\ pc' = [c \in Calls |-> IF Plain!Under(c) \/ pc[c] = "leaked"
                                  THEN "error" ELSE pc[c]]
        /\ listed' = [n \in Templates |-> 0]
        /\ UNCHANGED <<template, accounts, failure, deleted, late>>
    BY <1>6 DEF Plain!Restart
  <2>2. \A n \in Templates : Entered(n)' = {}
    BY <2>1 DEF Entered, Plain!Under
  <2>3. pc' \in [Calls -> PcValues]
    BY <2>1
  <2>4. QED
    BY <2>1, <2>2, <2>3, FS_EmptySet
<1>7. CASE UNCHANGED vars
  <2>1. \A n \in Templates : Entered(n)' = Entered(n)
    BY <1>7 DEF Entered
  <2>2. QED
    BY <1>7, <2>1
<1>8. QED
  BY <1>2, <1>3, <1>4, <1>5, <1>6, <1>7 DEF Plain!Next, Plain!CallStep

LEMMA TypeInvariance == NetSpec => []TypeInv
<1>1. NetInit => TypeInv
  <2> SUFFICES ASSUME NetInit PROVE TypeInv
    OBVIOUS
  <2>1. \A n \in Templates : Entered(n) = {}
    BY DEF Entered, NetInit, Init
  <2>2. QED
    BY <2>1, FS_EmptySet DEF NetInit, Init, TypeInv, PcValues
<1>2. TypeInv /\ [NetNext]_allVars => TypeInv'
  BY StepIsPlain, TypeKept
<1>3. QED
  BY <1>1, <1>2, PTL DEF NetSpec

-----------------------------------------------------------------------------
(* Whose entity a template is. *)

\* A call that has imported a template, with no error, has completed it.
OwnInv ==
    \A c \in Calls : accounts[c] \/ (pc[c] = "remove" /\ ~failure[c]) =>
        template[Name[c]] = "complete" \/ Name[c] \in deleted

LEMMA OwnKept ==
    ASSUME TypeInv, OwnInv, [Plain!Next]_vars
    PROVE  OwnInv'
<1> USE TemplaterAssumption DEF TypeInv, OwnInv, Plain!Goes, Plain!ImportFails
\* No step makes a complete template anything else, but a Delete.
<1>1. \A n \in Templates : template[n] = "complete" \/ n \in deleted =>
                               (template[n] = "complete" \/ n \in deleted)'
  BY DEF Plain!Next, Plain!CallStep, Plain!FindTemplate, Plain!CheckList, Plain!Append,
         Plain!Download, Plain!ImportVApp, Plain!Upload, Plain!CompleteLease, Plain!Remove,
         Plain!Wait, Plain!Fetch, Plain!Delete, Plain!ImportLeaseExpires, Plain!Restart, vars
<1>2. ASSUME NEW c \in Calls, Plain!ImportVApp(c) \/ Plain!Upload(c) PROVE OwnInv'
  BY <1>1, <1>2 DEF Plain!ImportVApp, Plain!Upload
<1>3. ASSUME NEW c \in Calls, Plain!CompleteLease(c) PROVE OwnInv'
  BY <1>1, <1>3 DEF Plain!CompleteLease
<1>4. ASSUME NEW c \in Calls, Plain!Remove(c) PROVE OwnInv'
  BY <1>1, <1>4 DEF Plain!Remove, Plain!AfterRemove
<1>5. ASSUME NEW c \in Calls,
             \/ Plain!FindTemplate(c) \/ Plain!CheckList(c) \/ Plain!Append(c)
             \/ Plain!Download(c) \/ Plain!Wait(c) \/ Plain!Fetch(c)
      PROVE  OwnInv'
  <2>1. /\ UNCHANGED <<accounts, failure>>
        /\ \A d \in Calls : pc'[d] = "remove" => pc[d] = "remove"
    BY <1>5 DEF Plain!FindTemplate, Plain!CheckList, Plain!Append, Plain!Download,
                Plain!Wait, Plain!Fetch
  <2>2. QED
    BY <1>1, <2>1
<1>6. CASE \E n \in Templates : Plain!Delete(n) \/ Plain!ImportLeaseExpires(n)
  BY <1>1, <1>6 DEF Plain!Delete, Plain!ImportLeaseExpires
<1>7. CASE Plain!Restart
  BY <1>1, <1>7 DEF Plain!Restart
<1>8. CASE UNCHANGED vars
  BY <1>8 DEF vars
<1>9. QED
  BY <1>2, <1>3, <1>4, <1>5, <1>6, <1>7, <1>8 DEF Plain!Next, Plain!CallStep

\* A call whose own import went through answers with a complete template.
THEOREM OwnImport == NetSpec => []OwnImportComplete
<1>1. NetInit => OwnInv
  BY DEF NetInit, Init, OwnInv
<1>2. TypeInv /\ OwnInv /\ [NetNext]_allVars => OwnInv'
  BY StepIsPlain, OwnKept
<1>3. OwnInv => OwnImportComplete
  BY DEF OwnInv, OwnImportComplete
<1>4. QED
  BY <1>1, <1>2, <1>3, TypeInvariance, PTL DEF NetSpec

-----------------------------------------------------------------------------
(* Whose import is refused for its name. *)

\* The call has found no deployment of its template under way, and is not through.
PastList(c) == pc[c] \in {"append", "download", "import", "upload", "complete",
                          "remove", "leaked"}

\* Of two calls at one template both have been overtaken; and so has a call on its way
\* to an import whose entity is there.
LateInv ==
    /\ \A c, d \in Calls : c # d /\ Name[c] = Name[d] /\ PastList(c) /\ PastList(d)
                              => c \in late
    /\ \A c \in Calls : /\ pc[c] \in {"checkList", "append", "download", "import"}
                        /\ template[Name[c]] # "absent"
                        => c \in late

\* Where a name is not in the list, a call past the list is just before it.
LEMMA NotListed ==
    ASSUME TypeInv, NEW c \in Calls, listed[Name[c]] = 0, NEW d \in Calls,
           Name[d] = Name[c], PastList(d)
    PROVE  pc[d] = "append"
<1>1. Name[c] \in Templates
  BY TemplaterAssumption
<1>2. Entered(Name[c]) = {}
  BY <1>1, EnteredFinite, FS_EmptySet DEF TypeInv
<1>3. d \notin Entered(Name[c])
  BY <1>2
<1>4. QED
  BY <1>3 DEF Entered, PastList

LEMMA LateKept ==
    ASSUME TypeInv, LateInv, [Plain!Next]_vars
    PROVE  LateInv'
<1> USE TemplaterAssumption DEF TypeInv, Plain!Goes, Plain!ImportFails
<1>1. ASSUME NEW c \in Calls, Plain!CheckList(c) PROVE LateInv'
  <2>1. CASE Plain!Goes(c, "checkList", "wait") /\ UNCHANGED late
    BY <1>1, <2>1 DEF Plain!CheckList, LateInv, PastList
  <2>2. CASE listed[Name[c]] = 0 /\ Plain!Goes(c, "checkList", "append")
    <3>1. /\ late \subseteq late' /\ UNCHANGED template
          /\ \A d \in Calls \ {c} : Name[d] = Name[c] /\ pc[d] = "append"
                                       => c \in late' /\ d \in late'
      BY <1>1, <2>2 DEF Plain!CheckList, Plain!Rivals
    <3>2. \A d \in Calls \ {c} : Name[d] = Name[c] /\ PastList(d)
                                    => c \in late' /\ d \in late'
      BY <2>2, <3>1, NotListed
    <3>3. \A d \in Calls \ {c} : PastList(d)' <=> PastList(d)
      BY <2>2 DEF PastList
    <3>4. ASSUME NEW e \in Calls, NEW d \in Calls, e # d, Name[e] = Name[d],
                 PastList(e)', PastList(d)'
          PROVE  e \in late'
      BY <3>1, <3>2, <3>3, <3>4 DEF LateInv
    <3>5. \A d \in Calls : /\ pc'[d] \in {"checkList", "append", "download", "import"}
                           /\ template'[Name[d]] # "absent"
                           => d \in late'
      BY <2>2, <3>1 DEF LateInv
    <3>6. QED
      BY <3>4, <3>5 DEF LateInv
  <2>3. QED
    BY <1>1, <2>1, <2>2 DEF Plain!CheckList
<1>2. ASSUME NEW c \in Calls, Plain!ImportVApp(c) PROVE LateInv'
  <2>1. /\ late \subseteq late' /\ pc[c] = "import"
        /\ pc' = [pc EXCEPT ![c] = "upload"] \/ pc' = [pc EXCEPT ![c] = "remove"]
    BY <1>2 DEF Plain!ImportVApp
  <2>2. \A d \in Calls : PastList(d)' <=> PastList(d)
    BY <2>1 DEF PastList
  <2>3. ASSUME NEW d \in Calls, d # c, Name[d] = Name[c],
               pc[d] \in {"checkList", "append", "download", "import"},
               template' # template
        PROVE  d \in late'
    <3>1. CASE pc[d] = "checkList"
      BY <1>2, <2>3, <3>1 DEF Plain!ImportVApp, Plain!Rivals
    <3>2. CASE pc[d] # "checkList"
      BY <2>1, <2>3, <3>2 DEF LateInv, PastList
    <3>3. QED
      BY <3>1, <3>2
  <2>4. ASSUME NEW d \in Calls, pc'[d] \in {"checkList", "append", "download", "import"},
               template'[Name[d]] # "absent"
        PROVE  d \in late'
    <3>1. d # c /\ pc[d] = pc'[d]
      BY <2>1, <2>4
    <3>2. CASE template[Name[d]] # "absent"
      BY <2>1, <2>4, <3>1, <3>2 DEF LateInv
    <3>3. CASE template[Name[d]] = "absent"
      <4>1. template' # template
        BY <2>4, <3>3
      <4>2. Name[d] = Name[c]
        BY <1>2, <2>4, <3>3 DEF Plain!ImportVApp
      <4>3. QED
        BY <2>3, <2>4, <3>1, <4>1, <4>2
    <3>4. QED
      BY <3>2, <3>3
  <2>5. QED
    BY <2>1, <2>2, <2>4 DEF LateInv
<1>3. ASSUME NEW c \in Calls,
             \/ Plain!FindTemplate(c) \/ Plain!Append(c) \/ Plain!Download(c)
             \/ Plain!Remove(c) \/ Plain!Wait(c) \/ Plain!Fetch(c) \/ Plain!Upload(c)
      PROVE  LateInv'
  <2>1. /\ UNCHANGED <<template, late>>
        /\ \A d \in Calls : PastList(d)' => PastList(d)
        /\ \A d \in Calls : pc'[d] \in {"checkList", "append", "download", "import"}
              => \/ pc[d] \in {"checkList", "append", "download", "import"}
                 \/ template[Name[d]] = "absent"
    BY <1>3 DEF PastList, Plain!FindTemplate, Plain!Append, Plain!Download, Plain!Remove,
                Plain!AfterRemove, Plain!Wait, Plain!Fetch, Plain!Upload
  <2>2. QED
    BY <2>1 DEF LateInv
<1>4. ASSUME NEW c \in Calls, Plain!CompleteLease(c) PROVE LateInv'
  <2>1. /\ UNCHANGED late
        /\ \A d \in Calls : PastList(d)' => PastList(d)
        /\ \A d \in Calls : pc'[d] \in {"checkList", "append", "download", "import"}
              => pc[d] = pc'[d]
        /\ \A n \in Templates : template'[n] # "absent" => template[n] # "absent"
    BY <1>4 DEF PastList, Plain!CompleteLease
  <2>2. QED
    BY <2>1 DEF LateInv
<1>5. ASSUME NEW n \in Templates, Plain!Delete(n) \/ Plain!ImportLeaseExpires(n)
      PROVE  LateInv'
  <2>1. /\ UNCHANGED <<pc, late>>
        /\ \A m \in Templates : template'[m] # "absent" => template[m] # "absent"
    BY <1>5 DEF Plain!Delete, Plain!ImportLeaseExpires
  <2>2. QED
    BY <2>1 DEF LateInv, PastList
<1>6. CASE Plain!Restart
  <2>1. /\ UNCHANGED <<template, late>>
        /\ \A d \in Calls : pc'[d] = "error" \/ (pc'[d] = pc[d] /\ pc[d] \in {"start", "done", "error"})
    BY <1>6 DEF Plain!Restart, Plain!Under, PcValues
  <2>2. QED
    BY <2>1 DEF LateInv, PastList
<1>7. CASE UNCHANGED vars
  BY <1>7 DEF vars, LateInv, PastList
<1>8. QED
  BY <1>1, <1>2, <1>3, <1>4, <1>5, <1>6, <1>7 DEF Plain!Next, Plain!CallStep

\* The import of a Create meets its name taken only if another Create of the package
\* overtook it between its looks at vSphere and at the list, or both had passed the
\* list before either was in it.
THEOREM RefusedLate == NetSpec => []RefusedOnlyWhenLate
<1>1. NetInit => LateInv
  BY DEF NetInit, Init, LateInv, PastList
<1>2. TypeInv /\ LateInv /\ [NetNext]_allVars => LateInv'
  BY StepIsPlain, LateKept
<1>3. LateInv => RefusedOnlyWhenLate
  BY DEF LateInv, RefusedOnlyWhenLate
<1>4. QED
  BY <1>1, <1>2, <1>3, TypeInvariance, PTL DEF NetSpec

-----------------------------------------------------------------------------
(* The temporary network. *)

\* The import of call c is refused for the name of its entity.
NameTaken(c) ==
    /\ step[c] = "import"
    /\ step' = [step EXCEPT ![c] = "error"]
    /\ disturbed' = disturbed \cup {c}
    /\ UNCHANGED <<seen, network>>

\* The steps of an import that is under way.
NetworkStep(c) ==
    \/ Net!AddSwitch(c) \/ Net!AddPortGroup(c) \/ Net!Import(c) \/ NameTaken(c)
    \/ Net!Upload(c) \/ Net!RemovePortGroup(c) \/ Net!RemoveSwitch(c) \/ Net!Complete(c)

\* To the network, a step of the templater is one of an import or of all.
LEMMA StepOfNetwork ==
    ASSUME [NetNext]_allVars
    PROVE  \/ \E c \in Calls : Net!ReadConfig(c) \/ NetworkStep(c)
           \/ Net!Restart
           \/ UNCHANGED netVars
<1>1. ASSUME NEW c \in Calls, NetCallStep(c)
      PROVE  Net!ReadConfig(c) \/ NetworkStep(c) \/ UNCHANGED netVars
  BY <1>1 DEF NetCallStep, WithoutNetwork, MakeNetwork, ImportOnto, UploadOnto,
              RemoveNetwork, CompleteOnto, NetworkStep, NameTaken
<1>2. CASE RestartAll
  BY <1>2 DEF RestartAll
<1>3. CASE UNCHANGED allVars
  BY <1>3 DEF allVars
<1>4. QED
  BY <1>1, <1>2, <1>3 DEF NetNext

LEMMA NetTypeKept ==
    ASSUME Net!TypeOK, [NetNext]_allVars
    PROVE  Net!TypeOK'
<1> USE DEF Net!TypeOK, Net!PcValues, Net!Goes, Net!Refused
<1>1. ASSUME NEW c \in Calls, Net!ReadConfig(c) PROVE Net!TypeOK'
  <2>1. disturbed' \subseteq Calls /\ UNCHANGED network
    BY <1>1 DEF Net!ReadConfig, Net!Meets
  <2>2. network \in SUBSET Net!Parts
    BY DEF Net!Parts
  <2>3. step' \in [Calls -> Net!PcValues] /\ seen' \in [Calls -> SUBSET Net!Parts]
    BY <1>1, <2>2 DEF Net!ReadConfig
  <2>4. QED
    BY <2>1, <2>3
<1>2. ASSUME NEW c \in Calls, Net!AddSwitch(c) PROVE Net!TypeOK'
  <2>1. network' \in {{}, {"switch"}, Net!Parts}
    BY <1>2 DEF Net!AddSwitch, Net!Parts
  <2>2. QED
    BY <1>2, <2>1 DEF Net!AddSwitch
<1>3. ASSUME NEW c \in Calls, Net!AddPortGroup(c) PROVE Net!TypeOK'
  BY <1>3 DEF Net!AddPortGroup
<1>4. ASSUME NEW c \in Calls, Net!Import(c) \/ NameTaken(c) \/ Net!Upload(c) \/ Net!Complete(c)
      PROVE  Net!TypeOK'
  BY <1>4 DEF Net!Import, NameTaken, Net!Upload, Net!Complete
<1>5. ASSUME NEW c \in Calls, Net!RemovePortGroup(c) PROVE Net!TypeOK'
  <2>1. network' \in {{}, {"switch"}, Net!Parts}
    BY <1>5 DEF Net!RemovePortGroup, Net!Parts
  <2>2. QED
    BY <1>5, <2>1 DEF Net!RemovePortGroup
<1>6. ASSUME NEW c \in Calls, Net!RemoveSwitch(c) PROVE Net!TypeOK'
  BY <1>6 DEF Net!RemoveSwitch
<1>7. CASE Net!Restart
  BY <1>7 DEF Net!Restart
<1>8. CASE UNCHANGED netVars
  BY <1>8 DEF netVars
<1>9. QED
  BY <1>1, <1>2, <1>3, <1>4, <1>5, <1>6, <1>7, <1>8, StepOfNetwork DEF NetworkStep

\* Every state is well formed.
THEOREM TypeCorrect == NetSpec => []NetTypeOK
<1>1. TypeInv => TypeOK
  BY EnteredFinite DEF TypeInv, TypeOK
<1>2. NetInit => Net!TypeOK
  BY DEF NetInit, Net!Init, Net!TypeOK, Net!PcValues
<1>3. Net!TypeOK /\ [NetNext]_allVars => Net!TypeOK'
  BY NetTypeKept
<1>4. QED
  BY <1>1, <1>2, <1>3, TypeInvariance, PTL DEF NetSpec, NetTypeOK

\* What an import meets that is alone: at each of its steps the network is as its
\* earlier ones left it.
Ready(c) ==
    /\ step[c] = "addSwitch" => seen[c] = network
    /\ step[c] = "addPortGroup" =>
          "switch" \in network /\ ("portgroup" \in seen[c] <=> "portgroup" \in network)
    /\ step[c] \in {"import", "upload", "removePortGroup"} => network = Net!Parts
    /\ step[c] = "removeSwitch" => network = {"switch"}

\* An import that nothing has disturbed is alone, and has not failed.
AloneInv ==
    \A c \in Calls \ disturbed :
        /\ step[c] # "error"
        /\ Net!Active(c) => Ready(c) /\ \A d \in Calls \ {c} : ~Net!Active(d)

\* No step of an import disturbs one that is alone, for there is none but its own.
LEMMA StepAlone ==
    ASSUME Net!TypeOK, AloneInv, NEW c \in Calls, Net!Active(c), NEW q,
           step' = [step EXCEPT ![c] = q], disturbed \subseteq disturbed',
           c \notin disturbed' => q # "error" /\ Ready(c)'
    PROVE  AloneInv'
<1> SUFFICES ASSUME NEW i \in Calls, i \notin disturbed'
             PROVE  /\ step'[i] # "error"
                    /\ Net!Active(i)' =>
                          Ready(i)' /\ \A d \in Calls \ {i} : ~Net!Active(d)'
  BY DEF AloneInv
<1>1. CASE i = c
  BY <1>1 DEF AloneInv, Net!Active, Net!TypeOK
<1>2. CASE i # c
  BY <1>2 DEF AloneInv, Net!Active, Net!TypeOK
<1>3. QED
  BY <1>1, <1>2

LEMMA AloneKept ==
    ASSUME Net!TypeOK, AloneInv, [NetNext]_allVars
    PROVE  AloneInv'
<1> USE DEF Net!Goes, Net!Refused
<1>1. ASSUME NEW c \in Calls, Net!ReadConfig(c) PROVE AloneInv'
  <2>1. CASE step'[c] = "error"
    BY <1>1, <2>1 DEF Net!ReadConfig, AloneInv, Net!Active, Ready, Net!TypeOK
  <2>2. CASE step'[c] # "error"
    <3>1. /\ step' = [step EXCEPT ![c] = "addSwitch"]
          /\ seen' = [seen EXCEPT ![c] = network] /\ UNCHANGED network /\ Net!Meets(c)
      BY <1>1, <2>2 DEF Net!ReadConfig, Net!TypeOK
    <3>2. CASE \E d \in Calls \ {c} : Net!Active(d)
      BY <3>1, <3>2 DEF Net!Meets, AloneInv, Net!Active, Ready, Net!TypeOK
    <3>3. CASE \A d \in Calls \ {c} : ~Net!Active(d)
      BY <3>1, <3>3 DEF Net!Meets, AloneInv, Net!Active, Ready, Net!TypeOK
    <3>4. QED
      BY <3>2, <3>3
  <2>3. QED
    BY <2>1, <2>2
<1>2. ASSUME NEW c \in Calls, NetworkStep(c) PROVE AloneInv'
  <2>1. /\ Net!Active(c) /\ disturbed \subseteq disturbed'
        /\ step' = [step EXCEPT ![c] = step'[c]]
    BY <1>2 DEF NetworkStep, Net!AddSwitch, Net!AddPortGroup, Net!Import, NameTaken, Net!Upload,
                Net!RemovePortGroup, Net!RemoveSwitch, Net!Complete, Net!Active, Net!TypeOK
  <2> SUFFICES ASSUME c \notin disturbed' PROVE step'[c] # "error" /\ Ready(c)'
    BY <2>1, StepAlone
  <2>2. Ready(c) /\ c \notin disturbed
    BY <2>1 DEF AloneInv
  <2> USE DEF Ready, Net!TypeOK
  <2>3. CASE Net!AddSwitch(c)
    BY <2>2, <2>3 DEF Net!AddSwitch
  <2>4. CASE Net!AddPortGroup(c)
    BY <2>2, <2>4 DEF Net!AddPortGroup, Net!Parts
  <2>5. CASE Net!Import(c) \/ NameTaken(c)
    BY <2>2, <2>5 DEF Net!Import, NameTaken, Net!Parts
  <2>6. CASE Net!Upload(c)
    BY <2>2, <2>6 DEF Net!Upload
  <2>7. CASE Net!RemovePortGroup(c)
    BY <2>2, <2>7 DEF Net!RemovePortGroup, Net!Parts
  <2>8. CASE Net!RemoveSwitch(c)
    BY <2>2, <2>8 DEF Net!RemoveSwitch
  <2>9. CASE Net!Complete(c)
    BY <2>2, <2>9 DEF Net!Complete
  <2>10. QED
    BY <1>2, <2>3, <2>4, <2>5, <2>6, <2>7, <2>8, <2>9 DEF NetworkStep
<1>3. CASE Net!Restart
  BY <1>3 DEF Net!Restart, AloneInv, Net!Active, Ready, Net!TypeOK
<1>4. CASE UNCHANGED netVars
  BY <1>4 DEF netVars, AloneInv, Net!Active, Ready
<1>5. QED
  BY <1>1, <1>2, <1>3, <1>4, StepOfNetwork

\* The network fails an import only when vSphere fails a request of it, its name is
\* taken, a restart ends it, or another is under way at the same time.
THEOREM FailsForCause == NetSpec => []NetworkFailsOnlyWhenDisturbed
<1>1. NetInit => AloneInv /\ Net!TypeOK
  BY DEF NetInit, Net!Init, AloneInv, Net!Active, Net!TypeOK, Net!PcValues
<1>2. Net!TypeOK /\ AloneInv /\ [NetNext]_allVars => (Net!TypeOK /\ AloneInv)'
  BY NetTypeKept, AloneKept
<1>3. AloneInv => NetworkFailsOnlyWhenDisturbed
  BY DEF AloneInv, NetworkFailsOnlyWhenDisturbed, Net!FailsOnlyWhenDisturbed
<1>4. QED
  BY <1>1, <1>2, <1>3, PTL DEF NetSpec

\* While no import has failed, what the host has of the network is left by one that
\* has still to remove it.
LeftInv ==
    \/ \E c \in Calls : step[c] = "error"
    \/ network = {}
    \/ \E c \in Calls : step[c] \in {"addPortGroup", "import", "upload",
                                     "removePortGroup", "removeSwitch"}

LEMMA LeftKept ==
    ASSUME Net!TypeOK, LeftInv, [NetNext]_allVars
    PROVE  LeftInv'
<1> SUFFICES ASSUME \A c \in Calls : step'[c] # "error", network' # {}
             PROVE  \E c \in Calls : step'[c] \in {"addPortGroup", "import", "upload",
                                                   "removePortGroup", "removeSwitch"}
  BY DEF LeftInv
<1> USE DEF LeftInv, Net!Goes, Net!Refused, Net!TypeOK
<1>1. ASSUME NEW c \in Calls, Net!ReadConfig(c) \/ Net!Complete(c)
      PROVE  \E d \in Calls : step'[d] \in {"addPortGroup", "import", "upload",
                                            "removePortGroup", "removeSwitch"}
  BY <1>1 DEF Net!ReadConfig, Net!Complete
<1>2. ASSUME NEW c \in Calls,
             \/ Net!AddSwitch(c) \/ Net!AddPortGroup(c) \/ Net!Import(c) \/ NameTaken(c)
             \/ Net!Upload(c) \/ Net!RemovePortGroup(c) \/ Net!RemoveSwitch(c)
      PROVE  \E d \in Calls : step'[d] \in {"addPortGroup", "import", "upload",
                                            "removePortGroup", "removeSwitch"}
  BY <1>2 DEF Net!AddSwitch, Net!AddPortGroup, Net!Import, NameTaken, Net!Upload,
              Net!RemovePortGroup, Net!RemoveSwitch
<1>3. CASE Net!Restart
  BY <1>3 DEF Net!Restart
<1>4. CASE UNCHANGED netVars
  BY <1>4 DEF netVars
<1>5. QED
  BY <1>1, <1>2, <1>3, <1>4, StepOfNetwork DEF NetworkStep

\* When the imports that were begun all ended well, the host has no network any more.
THEOREM NetworkRemoved == NetSpec => []NoNetworkLeft
<1>1. NetInit => LeftInv /\ Net!TypeOK
  BY DEF NetInit, Net!Init, LeftInv, Net!TypeOK, Net!PcValues
<1>2. Net!TypeOK /\ LeftInv /\ [NetNext]_allVars => (Net!TypeOK /\ LeftInv)'
  BY NetTypeKept, LeftKept
<1>3. LeftInv => NoNetworkLeft
  BY DEF LeftInv, NoNetworkLeft, Net!NothingLeftBehind
<1>4. QED
  BY <1>1, <1>2, <1>3, PTL DEF NetSpec
=============================================================================
