----------------------- MODULE ExecutorPackages_proofs -----------------------
(***************************************************************************)
(* Proofs about ExecutorPackages, for every set of calls and machines, and *)
(* at the end about PackageAction, the action that a feature's Execute     *)
(* runs in the guest, for every number of runs, tries, reboots and panics. *)
(***************************************************************************)
EXTENDS ExecutorPackages, PackageAction, TLAPS

-----------------------------------------------------------------------------
(* An identifier that was answered has an entry. *)

\* What is still to come on the way to the entry: the fields written so far are
\* in the Container, the fields marshalled so far have a value, and from the
\* Store on the entry is there.
StoreInv ==
    /\ \A c \in Deploys :
          /\ pc[c] \in {"start", "deploy"} => unwritten[c] = Fields
          /\ pc[c] = "leave" /\ c \in Conditions => unwritten[c] = Fields
          /\ pc[c] = "write" => \A f \in Fields \ unwritten[c] : container[f] # NoEntry
          /\ pc[c] = "marshal" => \A f \in Fields : container[f] # NoEntry
          /\ pc[c] = "store" => \A f \in Fields : marshalled[c][f] # NoEntry
          /\ pc[c] = "execute" => Stored(c) /\ c \notin Conditions
          /\ pc[c] = "leave" /\ c \notin failed /\ c \notin Conditions => Stored(c)
          /\ pc[c] = "done" => Stored(c)
    /\ \A d \in Removals :
          pc[d] = "lock" => target[d] \in Deploys /\ Stored(target[d])

TypeInv == TypeOK /\ StoreInv

\* The invariant holds of the steps in the guest, which leave Container and
\* entries alone.
LEMMA GuestStepKeepsTypeInv ==
    ASSUME TypeInv, NEW c \in Deploys, Lock(c) \/ Deploy(c) \/ Execute(c)
    PROVE  TypeInv'
<1> USE PackagesAssumption DEF TypeInv, TypeOK, StoreInv, PcValues, Goes, Fails, Stored, Jobs
<1>1. CASE Lock(c)
  BY <1>1 DEF Lock, Access!Enter
<1>2. CASE Deploy(c)
  <2>1. UNCHANGED <<inGuest, container, unwritten, marshalled, entry, target>>
    BY <1>2 DEF Deploy
  <2>2. files' \subseteq Vms \X Deploys
    BY <1>2 DEF Deploy
  <2>3. /\ pc' \in [Jobs -> PcValues] /\ failed' \subseteq Jobs
        /\ \A j \in Jobs \ {c} : pc'[j] = pc[j]
        /\ failed \subseteq failed'
        /\ pc[c] = "deploy"
        /\ pc'[c] \in {"leave", "write"}
        /\ pc'[c] = "leave" /\ c \notin Conditions => c \in failed'
    <3>1. CASE Goes(c, "deploy", IF c \in Conditions THEN "leave" ELSE "write")
               /\ UNCHANGED failed
      BY <3>1
    <3>2. CASE Fails(c, "deploy", "leave")
      BY <3>2
    <3>3. QED
      BY <1>2, <3>1, <3>2 DEF Deploy
  <2>4. QED
    BY <2>1, <2>2, <2>3
<1>3. CASE Execute(c)
  BY <1>3 DEF Execute
<1>4. QED
  BY <1>1, <1>2, <1>3

\* The three steps through the shared Container keep it.
LEMMA ContainerStepKeepsTypeInv ==
    ASSUME TypeInv, NEW c \in Deploys, WriteContainer(c) \/ Marshal(c) \/ Store(c)
    PROVE  TypeInv'
<1> USE PackagesAssumption DEF TypeInv, TypeOK, StoreInv, PcValues, Goes, Fails, Stored, Jobs, Fields
<1>1. CASE WriteContainer(c)
  BY <1>1 DEF WriteContainer
<1>2. CASE Marshal(c)
  BY <1>2 DEF Marshal
<1>3. CASE Store(c)
  <2>1. /\ UNCHANGED <<inGuest, files, container, unwritten, marshalled, target>>
        /\ pc[c] = "store" /\ c \in Jobs
    BY <1>3 DEF Store, Succeeds, GivesUp
  <2>2. CASE Succeeds(c) /\ entry' = [entry EXCEPT ![c] = marshalled[c]] /\ UNCHANGED failed
    <3>1. marshalled[c] \in [Fields -> Deploys \cup {NoEntry}]
      OBVIOUS
    <3>2. entry' \in [Deploys -> [Fields -> Deploys \cup {NoEntry}]]
      BY <2>2, <3>1
    <3>3. Stored(c)' /\ \A d \in Deploys \ {c} : entry'[d] = entry[d]
      BY <2>1, <2>2
    <3>4. /\ pc' = [pc EXCEPT ![c] = IF c \in Conditions THEN "done" ELSE "execute"]
          /\ UNCHANGED failed
      BY <2>2 DEF Succeeds
    <3>5. TypeOK'
      BY <2>1, <3>2, <3>4
    <3>6. \A d \in Deploys : Stored(d) => Stored(d)'
      BY <3>3
    <3>7. StoreInv'
      BY <2>1, <3>3, <3>4, <3>6
    <3>8. QED
      BY <3>5, <3>7
  <2>3. CASE GivesUp(c) /\ UNCHANGED entry
    <3>1. /\ pc' = [pc EXCEPT ![c] = IF c \in Conditions THEN "error" ELSE "leave"]
          /\ failed' = failed \cup {c}
      BY <2>3 DEF GivesUp
    <3>2. QED
      BY <2>1, <2>3, <3>1
  <2>4. QED
    BY <1>3, <2>2, <2>3 DEF Store
<1>4. QED
  BY <1>1, <1>2, <1>3

\* So do the steps of Delete, Unlock and a restart.
LEMMA OtherStepKeepsTypeInv ==
    ASSUME TypeInv,
           \/ \E d \in Removals : Get(d) \/ LockEntry(d) \/ DeleteUploadedFiles(d)
           \/ \E j \in Jobs : Unlock(j)
           \/ Restart
    PROVE  TypeInv'
<1> USE PackagesAssumption DEF TypeInv, TypeOK, StoreInv, PcValues, Goes, Fails, Stored, Jobs, Fields
<1>1. ASSUME NEW d \in Removals, Get(d) PROVE TypeInv'
  <2>1. PICK c \in Deploys :
          /\ target' = [target EXCEPT ![d] = c]
          /\ \/ Stored(c) /\ Goes(d, "start", "lock")
             \/ Goes(d, "start", "error")
    BY <1>1 DEF Get
  <2>2. /\ UNCHANGED <<failed, inGuest, files, container, unwritten, marshalled, entry>>
        /\ d \in Jobs /\ d \notin Deploys
    BY <1>1 DEF Get
  <2>3. /\ \A j \in Jobs \ {d} : pc'[j] = pc[j]
        /\ \A e \in Removals \ {d} : target'[e] = target[e]
        /\ target'[d] = c
        /\ pc'[d] = "lock" => Stored(c)
    BY <2>1, <2>2
  <2>4. TypeOK'
    <3>1. target' \in [Removals -> Deploys \cup {NoTarget}]
      BY <2>1
    <3>2. \E place \in {"lock", "error"} : pc' = [pc EXCEPT ![d] = place]
      BY <2>1
    <3>3. pc' \in [Jobs -> PcValues]
      BY <2>2, <3>2
    <3>4. QED
      BY <2>2, <3>1, <3>3
  <2>5. StoreInv'
    <3>1. \A e \in Deploys : pc'[e] = pc[e]
      BY <2>2, <2>3
    <3>2. \A e \in Removals :
             pc'[e] = "lock" => target'[e] \in Deploys /\ Stored(target'[e])
      BY <2>3
    <3>3. QED
      BY <2>2, <3>1, <3>2
  <2>6. QED
    BY <2>4, <2>5
<1>2. ASSUME NEW d \in Removals, LockEntry(d) PROVE TypeInv'
  <2>1. /\ pc' = [pc EXCEPT ![d] = "remove"] /\ d \notin Deploys
        /\ UNCHANGED <<failed, files, container, unwritten, marshalled, entry, target>>
    BY <1>2 DEF LockEntry
  <2>2. inGuest' \subseteq Vms \X Jobs
    <3>1. target[d] \in Deploys /\ Stored(target[d])
      BY <1>2 DEF LockEntry
    <3>2. entry[target[d]]["VMID"] \in Deploys
      BY <3>1
    <3>3. <<VmOf[entry[target[d]]["VMID"]], d>> \in Vms \X Jobs
      BY <3>2
    <3>4. QED
      BY <1>2, <3>3 DEF LockEntry, Access!Enter
  <2>3. QED
    BY <2>1, <2>2
<1>3. ASSUME NEW d \in Removals, DeleteUploadedFiles(d) PROVE TypeInv'
  <2>1. /\ pc' = [pc EXCEPT ![d] = "leave"] /\ d \notin Deploys
        /\ UNCHANGED <<inGuest, container, unwritten, marshalled, entry, target>>
        /\ failed' \in {failed, failed \cup {d}} /\ files' \subseteq files
    BY <1>3 DEF DeleteUploadedFiles
  <2>2. QED
    BY <2>1
<1>4. ASSUME NEW j \in Jobs, Unlock(j) PROVE TypeInv'
  <2>1. /\ pc[j] = "leave" /\ inGuest' \subseteq inGuest
        /\ UNCHANGED <<failed, files, container, unwritten, marshalled, entry, target>>
    BY <1>4 DEF Unlock, AfterUnlock, Access!Leave
  <2>2. PICK place \in {"error", "done", "write"} :
           /\ pc' = [pc EXCEPT ![j] = place]
           /\ place # "error" => j \notin failed
           /\ place = "write" <=> place # "error" /\ j \in Conditions
    BY <1>4 DEF Unlock, AfterUnlock
  <2>3. TypeOK'
    BY <2>1, <2>2
  <2>4. StoreInv'
    BY <2>1, <2>2
  <2>5. QED
    BY <2>3, <2>4
<1>5. CASE Restart
  BY <1>5 DEF Restart, Blank, Access!Leave
<1>6. QED
  BY <1>1, <1>2, <1>3, <1>4, <1>5

\* Every reachable state is well formed, and whoever is on the way to an entry
\* gets one.
LEMMA TypeInvHolds == Spec => []TypeInv
<1>1. Init => TypeInv
  BY PackagesAssumption
     DEF Init, TypeInv, TypeOK, StoreInv, PcValues, Jobs, Blank, Access!Init, Fields
<1>2. TypeInv /\ [Next]_vars => TypeInv'
  <2> SUFFICES ASSUME TypeInv, [Next]_vars PROVE TypeInv'
    OBVIOUS
  <2>1. CASE Next
    BY <2>1, GuestStepKeepsTypeInv, ContainerStepKeepsTypeInv, OtherStepKeepsTypeInv
       DEF Next
  <2>2. CASE UNCHANGED vars
    BY <2>2 DEF vars, TypeInv, TypeOK, StoreInv, Stored
  <2>3. QED
    BY <2>1, <2>2
<1>3. QED
  BY <1>1, <1>2, PTL DEF Spec

\* Every reachable state is well formed.
THEOREM TypeCorrect == Spec => []TypeOK
<1>1. TypeInv => TypeOK
  BY DEF TypeInv
<1>2. QED
  BY <1>1, TypeInvHolds, PTL

\* A Create that answered has an entry under its identifier, through failures and
\* restarts, for features, injects and conditions alike.
THEOREM Answered == Spec => []AnsweredIsStored
<1>1. TypeInv => AnsweredIsStored
  BY DEF TypeInv, StoreInv, AnsweredIsStored
<1>2. QED
  BY <1>1, TypeInvHolds, PTL

-----------------------------------------------------------------------------
(* Deployments of one machine keep out of each other's entries. *)

\* The deployments whose data may get into the entry of c: its own, those of
\* conditions, which write the Container without the mutex, and those of the other
\* machines.
Sources(c) == {c} \cup Conditions \cup {d \in Deploys : VmOf[d] # VmOf[c]}

Inside(c) == pc[c] \in {"deploy", "write", "marshal", "store", "execute", "leave"}

\* The mutex of a machine has one holder.
OneHolder == \A p, q \in inGuest : p[1] = q[1] => p = q

\* A feature or an inject on its way to the entry holds the mutex.
InsideHolds ==
    \A c \in Deploys \ Conditions : Inside(c) => <<VmOf[c], c>> \in inGuest

\* So what it finds in the Container, where it has written, is from its sources.
FieldsFromSources ==
    \A c \in Deploys \ Conditions :
        /\ pc[c] \in {"start", "deploy"} => unwritten[c] = Fields
        /\ pc[c] = "write" => \A f \in Fields \ unwritten[c] : container[f] \in Sources(c)
        /\ pc[c] = "marshal" => \A f \in Fields : container[f] \in Sources(c)
        /\ \A f \in Fields : marshalled[c][f] \in Sources(c) \cup {NoEntry}
        /\ \A f \in Fields : entry[c][f] \in Sources(c) \cup {NoEntry}

ApartInv == OneHolder /\ InsideHolds /\ FieldsFromSources

\* Two features or injects of one machine are never both on their way.
LEMMA OneInside ==
    ASSUME ApartInv, NEW c \in Deploys \ Conditions, NEW d \in Deploys \ Conditions,
           Inside(c), Inside(d), VmOf[c] = VmOf[d]
    PROVE  c = d
<1>1. <<VmOf[c], c>> \in inGuest /\ <<VmOf[d], d>> \in inGuest
  BY DEF ApartInv, InsideHolds
<1>2. <<VmOf[c], c>> = <<VmOf[d], d>>
  BY <1>1 DEF ApartInv, OneHolder
<1>3. QED
  BY <1>2

\* Getting the mutex keeps it with one holder.
LEMMA EnterKeepsOneHolder ==
    ASSUME TypeOK, OneHolder, NEW p \in Vms \X Jobs, Access!Enter(p)
    PROVE  OneHolder' /\ inGuest \subseteq inGuest' /\ p \in inGuest'
<1>1. \A q \in inGuest : q[1] # p[1]
  BY DEF Access!Enter, TypeOK
<1>2. inGuest' = inGuest \cup {p}
  BY DEF Access!Enter
<1>3. QED
  BY <1>1, <1>2 DEF OneHolder

\* Features and injects of one machine never get into each other's entries: they
\* write and store the shared Container while they hold the mutex of their machine.
THEOREM Apart == Spec => []EntriesApart
<1>1. Init => ApartInv
  BY PackagesAssumption
     DEF Init, ApartInv, OneHolder, InsideHolds, Inside, FieldsFromSources, Jobs, Blank, Access!Init
<1>2. TypeInv /\ ApartInv /\ [Next]_vars => ApartInv'
  <2> SUFFICES ASSUME TypeInv, ApartInv, [Next]_vars PROVE ApartInv'
    OBVIOUS
  <2> USE PackagesAssumption DEF Jobs
  <2>0. TypeOK
    BY DEF TypeInv
  <2>1. ASSUME NEW c \in Deploys, Lock(c) PROVE ApartInv'
    <3>1. <<VmOf[c], c>> \in Vms \X Jobs
      OBVIOUS
    <3>2. OneHolder' /\ inGuest \subseteq inGuest' /\ <<VmOf[c], c>> \in inGuest'
      BY <2>0, <2>1, <3>1, EnterKeepsOneHolder DEF Lock, ApartInv
    <3>3. InsideHolds' /\ FieldsFromSources'
      BY <2>0, <2>1, <3>2 DEF Lock, ApartInv, InsideHolds, Inside, FieldsFromSources, Goes, TypeOK
    <3>4. QED
      BY <3>2, <3>3 DEF ApartInv
  <2>2. ASSUME NEW c \in Deploys, Deploy(c) \/ Execute(c) PROVE ApartInv'
    <3>1. /\ UNCHANGED <<inGuest, container, unwritten, marshalled, entry>>
          /\ \A d \in Deploys \ {c} : pc'[d] = pc[d]
          /\ Inside(c) /\ pc'[c] \in {"write", "leave"}
          /\ pc'[c] = "write" => pc[c] = "deploy"
      BY <2>0, <2>2 DEF Deploy, Execute, Goes, Fails, TypeOK, Inside
    <3>2. QED
      BY <3>1 DEF ApartInv, OneHolder, InsideHolds, Inside, FieldsFromSources
  <2>3. ASSUME NEW c \in Deploys, WriteContainer(c) PROVE ApartInv'
    <3>1. \A d \in Deploys \ Conditions : Inside(d) => c \in Sources(d)
      <4> SUFFICES ASSUME NEW d \in Deploys \ Conditions, Inside(d), c \notin Sources(d)
                   PROVE  FALSE
        OBVIOUS
      <4>1. c \notin Conditions /\ VmOf[c] = VmOf[d] /\ c # d
        BY DEF Sources
      <4>2. Inside(c)
        BY <2>3 DEF WriteContainer, Inside
      <4>3. QED
        BY <4>1, <4>2, OneInside
    <3>2. OneHolder' /\ InsideHolds'
      BY <2>0, <2>3 DEF WriteContainer, ApartInv, OneHolder, InsideHolds, Inside, TypeOK
    <3>3. PICK f \in unwritten[c] :
            /\ container' = [container EXCEPT ![f] = c]
            /\ unwritten' = [unwritten EXCEPT ![c] = @ \ {f}]
            /\ pc' = [pc EXCEPT ![c] = IF unwritten[c] = {f} THEN "marshal" ELSE "write"]
      BY <2>3 DEF WriteContainer
    <3>4. /\ pc[c] = "write" /\ f \in Fields
          /\ UNCHANGED <<marshalled, entry>>
          /\ container'[f] = c /\ \A g \in Fields \ {f} : container'[g] = container[g]
          /\ unwritten'[c] = unwritten[c] \ {f}
          /\ \A d \in Deploys \ {c} : unwritten'[d] = unwritten[d] /\ pc'[d] = pc[d]
          /\ pc'[c] \in {"marshal", "write"}
          /\ pc'[c] = "marshal" => unwritten[c] = {f}
      BY <2>0, <2>3, <3>3 DEF WriteContainer, TypeOK
    <3>5. FieldsFromSources'
      BY <3>1, <3>4 DEF ApartInv, FieldsFromSources, Inside, Sources
    <3>6. QED
      BY <3>2, <3>5 DEF ApartInv
  <2>4. ASSUME NEW c \in Deploys, Marshal(c) PROVE ApartInv'
    <3>1. OneHolder' /\ InsideHolds'
      BY <2>0, <2>4 DEF Marshal, ApartInv, OneHolder, InsideHolds, Inside, TypeOK
    <3>2. FieldsFromSources'
      BY <2>0, <2>4 DEF Marshal, ApartInv, FieldsFromSources, TypeOK, Sources
    <3>3. QED
      BY <3>1, <3>2 DEF ApartInv
  <2>5. ASSUME NEW c \in Deploys, Store(c) PROVE ApartInv'
    <3>1. /\ UNCHANGED <<inGuest, container, unwritten, marshalled>>
          /\ \A d \in Deploys \ {c} : pc'[d] = pc[d] /\ entry'[d] = entry[d]
          /\ pc'[c] \in {"execute", "leave", "done", "error"}
          /\ entry'[c] = marshalled[c] \/ entry'[c] = entry[c]
          /\ Inside(c)
      BY <2>0, <2>5 DEF Store, Succeeds, GivesUp, Goes, Fails, TypeOK, Inside
    <3>2. QED
      BY <3>1 DEF ApartInv, OneHolder, InsideHolds, Inside, FieldsFromSources, Sources
  <2>6. ASSUME NEW d \in Removals, Get(d) \/ DeleteUploadedFiles(d) PROVE ApartInv'
    <3>1. /\ UNCHANGED <<inGuest, container, unwritten, marshalled, entry>>
          /\ \A c \in Deploys : pc'[c] = pc[c]
      BY <2>0, <2>6 DEF Get, DeleteUploadedFiles, Goes, Fails, TypeOK
    <3>2. QED
      BY <3>1 DEF ApartInv, OneHolder, InsideHolds, Inside, FieldsFromSources
  <2>7. ASSUME NEW d \in Removals, LockEntry(d) PROVE ApartInv'
    <3>1. <<VmOf[entry[target[d]]["VMID"]], d>> \in Vms \X Jobs
      BY <2>7 DEF LockEntry, Goes, TypeInv, StoreInv, Stored, TypeOK, Fields
    <3>2. OneHolder' /\ inGuest \subseteq inGuest'
      BY <2>0, <2>7, <3>1, EnterKeepsOneHolder DEF LockEntry, ApartInv
    <3>3. /\ UNCHANGED <<container, unwritten, marshalled, entry>>
          /\ \A c \in Deploys : pc'[c] = pc[c]
      BY <2>0, <2>7 DEF LockEntry, Goes, TypeOK
    <3>4. QED
      BY <3>2, <3>3 DEF ApartInv, InsideHolds, Inside, FieldsFromSources
  <2>8. ASSUME NEW j \in Jobs, Unlock(j) PROVE ApartInv'
    <3>1. /\ inGuest' = inGuest \ {p \in inGuest : p[2] = j}
          /\ UNCHANGED <<container, unwritten, marshalled, entry>>
          /\ \A i \in Jobs \ {j} : pc'[i] = pc[i]
          /\ j \notin Conditions => pc'[j] \in {"done", "error"}
      BY <2>0, <2>8 DEF Unlock, AfterUnlock, Access!Leave, Goes, TypeOK
    <3>2. QED
      BY <3>1 DEF ApartInv, OneHolder, InsideHolds, Inside, FieldsFromSources
  <2>9. CASE Restart
    <3>1. /\ inGuest' = {}
          /\ UNCHANGED <<unwritten, marshalled, entry>>
          /\ \A c \in Deploys : pc'[c] \in {"start", "done", "error", "dead"}
          /\ \A c \in Deploys : pc'[c] = "start" => pc[c] = "start"
      BY <2>0, <2>9 DEF Restart, Access!Leave, TypeOK
    <3>2. QED
      BY <3>1 DEF ApartInv, OneHolder, InsideHolds, Inside, FieldsFromSources
  <2>10. CASE UNCHANGED vars
    BY <2>10 DEF vars, ApartInv, OneHolder, InsideHolds, Inside, FieldsFromSources
  <2>11. QED
    BY <2>1, <2>2, <2>3, <2>4, <2>5, <2>6, <2>7, <2>8, <2>9, <2>10 DEF Next
<1>3. ApartInv => EntriesApart
  BY PackagesAssumption DEF ApartInv, FieldsFromSources, EntriesApart, Sources
<1>4. QED
  BY <1>1, <1>2, <1>3, TypeInvHolds, PTL DEF Spec

-----------------------------------------------------------------------------
(* A good Delete has taken the files. *)

\* A Delete that has begun was asked about a Create that is done and so neither
\* uploads files nor stores an entry any more; once it has taken the files of an
\* entry that is the Create's own, they stay gone.
GoneInv ==
    \A d \in Removals :
        /\ pc[d] \in {"lock", "remove", "leave", "done"} =>
              target[d] \in Deploys /\ pc[target[d]] = "done"
        /\ (pc[d] = "leave" /\ d \notin failed) \/ pc[d] = "done" =>
              (Own(target[d]) => <<VmOf[target[d]], target[d]>> \notin files)

\* Entries and files of a Create that is done keep to what Deletes do to them.
LEMMA CreateStepKeepsGone ==
    ASSUME TypeInv, GoneInv, NEW c \in Deploys,
           \/ Lock(c) \/ Deploy(c) \/ WriteContainer(c) \/ Marshal(c) \/ Store(c)
           \/ Execute(c) \/ Unlock(c)
    PROVE  GoneInv'
<1>1. /\ pc[c] \notin {"done", "error", "dead"} /\ UNCHANGED target
      /\ \A j \in Jobs \ {c} : pc'[j] = pc[j]
      /\ failed \subseteq failed'
      /\ \A e \in Deploys \ {c} : entry'[e] = entry[e]
      /\ files' \subseteq files \cup {<<VmOf[c], c>>}
  BY DEF TypeInv, TypeOK, Jobs, Lock, Deploy, WriteContainer, Marshal, Store, Succeeds, GivesUp,
         Execute, Unlock, AfterUnlock, Goes, Fails
<1>2. \A d \in Removals : d \in Jobs \ {c}
  BY PackagesAssumption DEF Jobs
<1>3. \A e \in Deploys : pc[e] = "done" =>
         /\ e # c /\ pc'[e] = "done" /\ (Own(e)' <=> Own(e))
         /\ <<VmOf[e], e>> \notin files => <<VmOf[e], e>> \notin files'
  BY <1>1 DEF Jobs, Own
<1> SUFFICES ASSUME NEW d \in Removals
             PROVE  /\ pc[d] \in {"lock", "remove", "leave", "done"} =>
                          target[d] \in Deploys /\ pc'[target[d]] = "done"
                    /\ (pc[d] = "leave" /\ d \notin failed') \/ pc[d] = "done" =>
                          (Own(target[d])' => <<VmOf[target[d]], target[d]>> \notin files')
  BY <1>1, <1>2 DEF GoneInv
<1>4. QED
  BY <1>1, <1>3 DEF GoneInv

LEMMA RemovalStepKeepsGone ==
    ASSUME TypeInv, GoneInv, NEW d \in Removals,
           Get(d) \/ LockEntry(d) \/ DeleteUploadedFiles(d) \/ Unlock(d)
    PROVE  GoneInv'
<1>1. /\ UNCHANGED entry /\ files' \subseteq files
      /\ \A j \in Jobs \ {d} : pc'[j] = pc[j] /\ (j \in failed' <=> j \in failed)
      /\ \A e \in Removals \ {d} : target'[e] = target[e]
  BY DEF TypeInv, TypeOK, Jobs, Get, LockEntry, DeleteUploadedFiles, Unlock, AfterUnlock, Goes, Fails
<1>2. /\ d \in Jobs /\ \A c \in Deploys : c \in Jobs \ {d}
      /\ \A e \in Removals : e \in Jobs
  BY PackagesAssumption DEF Jobs
<1>3. ASSUME NEW e \in Removals \ {d}
      PROVE  /\ pc'[e] \in {"lock", "remove", "leave", "done"} =>
                   target'[e] \in Deploys /\ pc'[target'[e]] = "done"
             /\ (pc'[e] = "leave" /\ e \notin failed') \/ pc'[e] = "done" =>
                   (Own(target[e])' => <<VmOf[target'[e]], target'[e]>> \notin files')
  BY <1>1, <1>2 DEF GoneInv, Own
<1>4. /\ pc'[d] \in {"lock", "remove", "leave", "done"} =>
            target'[d] \in Deploys /\ pc'[target'[d]] = "done"
      /\ (pc'[d] = "leave" /\ d \notin failed') \/ pc'[d] = "done" =>
            (Own(target[d])' => <<VmOf[target'[d]], target'[d]>> \notin files')
  <2>1. CASE Get(d)
    <3>1. PICK c \in Deploys : pc[c] = "done" /\ target' = [target EXCEPT ![d] = c]
      BY <2>1 DEF Get
    <3>2. target'[d] = c /\ pc'[c] = "done" /\ pc'[d] \in {"lock", "error"}
      BY <1>1, <1>2, <2>1, <3>1 DEF Get, Goes, TypeInv, TypeOK
    <3>3. QED
      BY <3>2
  <2>2. CASE LockEntry(d)
    <3>1. UNCHANGED target /\ pc[d] = "lock" /\ pc'[d] = "remove"
      BY <1>2, <2>2 DEF LockEntry, Goes, TypeInv, TypeOK
    <3>2. QED
      BY <1>1, <1>2, <3>1 DEF GoneInv
  <2>3. CASE DeleteUploadedFiles(d)
    <3>1. UNCHANGED target /\ pc[d] = "remove" /\ pc'[d] = "leave" /\ target[d] \in Deploys
          /\ \/ files' = files \ {<<VmOf[entry[target[d]]["VMID"]], entry[target[d]]["FilePaths"]>>}
             \/ d \in failed'
      BY <1>2, <2>3 DEF DeleteUploadedFiles, Goes, Fails, TypeInv, TypeOK, GoneInv
    <3>2. QED
      BY <1>1, <1>2, <3>1 DEF GoneInv, Own, Fields
  <2>4. CASE Unlock(d)
    <3>1. /\ UNCHANGED <<target, files, failed>> /\ pc[d] = "leave"
          /\ pc'[d] # "error" => d \notin failed /\ pc'[d] = "done"
      BY <1>2, <2>4, PackagesAssumption DEF Unlock, AfterUnlock, Goes, TypeInv, TypeOK
    <3>2. QED
      BY <1>1, <1>2, <3>1 DEF GoneInv, Own
  <2>5. QED
    BY <2>1, <2>2, <2>3, <2>4
<1>5. QED
  BY <1>3, <1>4 DEF GoneInv

\* A Delete that answered well has taken the files of the deployment it was asked
\* about, if the entry is that deployment's own.
THEOREM Deleted == Spec => []DeletedIsGone
<1>1. Init => GoneInv
  BY DEF Init, GoneInv, Jobs
<1>2. TypeInv /\ GoneInv /\ [Next]_vars => GoneInv'
  <2> SUFFICES ASSUME TypeInv, GoneInv, [Next]_vars PROVE GoneInv'
    OBVIOUS
  <2>1. CASE Restart
    <3>1. /\ UNCHANGED <<failed, files, entry, target>>
          /\ \A j \in Jobs : pc'[j] = pc[j] \/ pc'[j] = "dead"
          /\ \A j \in Jobs : pc[j] = "done" => pc'[j] = "done"
      BY <2>1 DEF Restart, TypeInv, TypeOK
    <3>2. (\A c \in Deploys : c \in Jobs) /\ \A d \in Removals : d \in Jobs
      BY DEF Jobs
    <3>3. QED
      BY <3>1, <3>2 DEF GoneInv, Own
  <2>2. CASE UNCHANGED vars
    BY <2>2 DEF vars, GoneInv, Own
  <2>3. QED
    BY <2>1, <2>2, CreateStepKeepsGone, RemovalStepKeepsGone DEF Next, Jobs
<1>3. GoneInv => DeletedIsGone
  BY DEF GoneInv, DeletedIsGone
<1>4. QED
  BY <1>1, <1>2, <1>3, TypeInvHolds, PTL DEF Spec

-----------------------------------------------------------------------------
(* ExecutePackageAction, with variables and a specification of its own. *)

\* How often the action has taken effect: once per panic while the call goes on, and
\* once more when it has returned.
RunInv ==
    /\ runPc \in [Runs -> RunPcValues]
    /\ executed \in [Runs -> Nat]
    /\ reboots \in [Runs -> 0..MaxReboots]
    /\ panics \in [Runs -> 0..MaxPanics]
    /\ vm \in [Runs -> {"up", "rebooting", "deleted"}]
    /\ \A r \in Runs :
          executed[r] <= IF Returned(r) THEN panics[r] + 1 ELSE panics[r]

LEMMA RunKept ==
    ASSUME RunInv, [RunNext]_runVars
    PROVE  RunInv'
<1> USE PackageActionAssumption DEF RunInv, RunPcValues, Returned, counts
<1>1. ASSUME NEW r \in Runs, RunStep(r), ~RunAction(r) PROVE RunInv'
  <2>1. /\ UNCHANGED <<vm, executed, reboots, panics>>
        /\ runPc[r] \in {"env", "wait", "panicked"}
        /\ \E p \in RunPcValues : runPc' = [runPc EXCEPT ![r] = p]
    BY <1>1 DEF RunStep, OutOfTries, ReadEnvironment, EnvironmentFails,
                ToolsOnline, ToolsNotOnline, Retry, ReturnsWith, RunGoes
  <2>2. QED
    BY <2>1
<1>2. ASSUME NEW r \in Runs, RunAction(r) PROVE RunInv'
  <2>1. /\ UNCHANGED <<vm, reboots, panics>> /\ runPc[r] = "run"
        /\ \E p \in {"ok", "error"} : runPc' = [runPc EXCEPT ![r] = p]
        /\ executed' = executed \/ executed' = [executed EXCEPT ![r] = @ + 1]
    BY <1>2 DEF RunAction, ReturnsWith
  <2>2. QED
    BY <2>1
<1>3. ASSUME NEW r \in Runs, Panic(r) PROVE RunInv'
  <2>1. /\ UNCHANGED <<vm, reboots>> /\ runPc[r] \in {"env", "run"} /\ panics[r] < MaxPanics
        /\ runPc' = [runPc EXCEPT ![r] = "panicked"]
        /\ panics' = [panics EXCEPT ![r] = @ + 1]
        /\ executed' = executed \/ \E n \in 0..1 : executed' = [executed EXCEPT ![r] = @ + n]
    BY <1>3 DEF Panic, RunGoes
  <2>2. panics' \in [Runs -> 0..MaxPanics] /\ executed' \in [Runs -> Nat]
    BY <2>1
  <2>3. executed'[r] <= panics'[r]
    BY <2>1
  <2>4. \A q \in Runs \ {r} : /\ executed'[q] = executed[q] /\ panics'[q] = panics[q]
                              /\ runPc'[q] = runPc[q]
    BY <2>1
  <2>5. QED
    BY <2>1, <2>2, <2>3, <2>4
<1>4. ASSUME NEW r \in Runs, VmChanges(r) PROVE RunInv'
  BY <1>4 DEF VmChanges, code
<1>5. CASE UNCHANGED runVars
  BY <1>5 DEF runVars, code
<1>6. QED
  BY <1>1, <1>2, <1>3, <1>4, <1>5 DEF RunNext

\* Of the loop and the lock: a call that had no error without its action having run
\* has no try left; the flag is FlagMeansRetry.
LoopInv ==
    /\ tries \in [Runs -> 0..MaxTries]
    /\ retrying \in [Runs -> BOOLEAN] /\ flag \in BOOLEAN
    /\ flagLock \in Runs \cup {NoRun}
    /\ FlagMeansRetry
    /\ SilentOnlyWhenExhausted

LEMMA ReturnKeepsLock ==
    ASSUME RunInv, LoopInv,
           NEW r \in Runs, NEW result \in {"ok", "error"}, ReturnsWith(r, result)
    PROVE  /\ UNCHANGED tries /\ runPc' = [runPc EXCEPT ![r] = result]
           /\ retrying' \in [Runs -> BOOLEAN] /\ flag' \in BOOLEAN
           /\ flagLock' \in Runs \cup {NoRun}
           /\ FlagMeansRetry'
BY PackageActionAssumption DEF LoopInv, ReturnsWith, FlagMeansRetry

LEMMA LoopKept ==
    ASSUME RunInv, LoopInv, [RunNext]_runVars
    PROVE  LoopInv'
<1> USE PackageActionAssumption DEF RunInv, counts
<1>1. ASSUME NEW r \in Runs, OutOfTries(r) PROVE LoopInv'
  BY <1>1, ReturnKeepsLock DEF OutOfTries, LoopInv, SilentOnlyWhenExhausted
<1>2. ASSUME NEW r \in Runs, EnvironmentFails(r) \/ ToolsNotOnline(r) PROVE LoopInv'
  BY <1>2, ReturnKeepsLock
     DEF EnvironmentFails, ToolsNotOnline, LoopInv, SilentOnlyWhenExhausted
<1>3. ASSUME NEW r \in Runs, RunAction(r) PROVE LoopInv'
  <2>1. PICK result \in {"ok", "error"} :
           /\ ReturnsWith(r, result)
           /\ \/ result = "ok" /\ executed' = [executed EXCEPT ![r] = @ + 1]
              \/ result = "error" /\ executed' \in {executed, [executed EXCEPT ![r] = @ + 1]}
    BY <1>3 DEF RunAction
  <2>2. result = "ok" => executed'[r] # 0
    BY <2>1
  <2>3. \A q \in Runs \ {r} : executed'[q] = executed[q]
    BY <2>1
  <2>4. SilentOnlyWhenExhausted'
    BY <2>1, <2>2, <2>3, ReturnKeepsLock DEF LoopInv, SilentOnlyWhenExhausted
  <2>5. QED
    BY <2>1, <2>4, ReturnKeepsLock DEF LoopInv
<1>4. ASSUME NEW r \in Runs, ReadEnvironment(r) \/ ToolsOnline(r) PROVE LoopInv'
  BY <1>4 DEF ReadEnvironment, ToolsOnline, RunGoes, LoopInv,
              FlagMeansRetry, SilentOnlyWhenExhausted
<1>5. ASSUME NEW r \in Runs, Panic(r) PROVE LoopInv'
  BY <1>5 DEF Panic, RunGoes, LoopInv,
              FlagMeansRetry, SilentOnlyWhenExhausted
<1>6. ASSUME NEW r \in Runs, Retry(r) PROVE LoopInv'
  BY <1>6 DEF Retry, LoopInv, FlagMeansRetry, SilentOnlyWhenExhausted
<1>7. CASE (\E r \in Runs : VmChanges(r)) \/ UNCHANGED runVars
  <2>1. UNCHANGED <<runPc, tries, retrying, flagLock, flag, executed>>
    BY <1>7 DEF VmChanges, runVars, code
  <2>2. QED
    BY <2>1 DEF LoopInv, FlagMeansRetry, SilentOnlyWhenExhausted
<1>8. QED
  BY <1>1, <1>2, <1>3, <1>4, <1>5, <1>6, <1>7 DEF RunNext, RunStep

LEMMA RunInvariance == RunSpec => [](RunInv /\ LoopInv)
<1>1. RunInit => RunInv /\ LoopInv
  <2> SUFFICES ASSUME RunInit PROVE RunInv /\ LoopInv
    OBVIOUS
  <2> USE PackageActionAssumption DEF RunInit
  <2>1. RunInv
    BY DEF RunInv, RunPcValues, Returned
  <2>2. FlagMeansRetry
    BY DEF FlagMeansRetry
  <2>3. tries \in [Runs -> 0..MaxTries] /\ retrying \in [Runs -> BOOLEAN]
    OBVIOUS
  <2>4. SilentOnlyWhenExhausted
    BY DEF SilentOnlyWhenExhausted
  <2>5. flag \in BOOLEAN /\ flagLock \in Runs \cup {NoRun}
    OBVIOUS
  <2>6. QED
    BY <2>1, <2>2, <2>3, <2>4, <2>5 DEF LoopInv
<1>2. RunInv /\ LoopInv /\ [RunNext]_runVars => (RunInv /\ LoopInv)'
  BY RunKept, LoopKept
<1>3. QED
  BY <1>1, <1>2, PTL DEF RunSpec

\* Every reachable state of ExecutePackageAction is well formed.
THEOREM RunTypeCorrect == RunSpec => []RunTypeOK
<1>1. RunInv /\ LoopInv => RunTypeOK
  BY PackageActionAssumption DEF RunInv, LoopInv, RunTypeOK
<1>2. QED
  BY <1>1, RunInvariance, PTL

\* The flag is set exactly while the handler that holds the lock retries: the branch
\* that reports a repeating panic is never taken.
THEOREM FlagIsRetry == RunSpec => []FlagMeansRetry
<1>1. LoopInv => FlagMeansRetry
  BY DEF LoopInv
<1>2. QED
  BY <1>1, RunInvariance, PTL

\* Reboots and errors never make an action run twice; only panics do.
THEOREM ActionOncePerPanic == RunSpec => []OncePerPanic
<1>1. RunInv /\ LoopInv => OncePerPanic
  BY PackageActionAssumption DEF RunInv, OncePerPanic
<1>2. QED
  BY <1>1, RunInvariance, PTL

\* A call that succeeds for an action that never ran has used up all its tries.
THEOREM SilentExhausted == RunSpec => []SilentOnlyWhenExhausted
<1>1. LoopInv => SilentOnlyWhenExhausted
  BY DEF LoopInv
<1>2. QED
  BY <1>1, RunInvariance, PTL
=============================================================================
