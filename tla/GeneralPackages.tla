--------------------------- MODULE GeneralPackages ---------------------------
(***************************************************************************)
(* The general handler (general/general.go, library/storage.go): Create    *)
(* downloads a package, converts its Markdown into a new HTML file, keeps  *)
(* an entry about the file in Redis under a fresh identifier and answers   *)
(* with it; Stream sends the file of an entry; Delete removes the file and *)
(* then the entry.                                                         *)
(*                                                                         *)
(* The entry goes through one Container that all handlers share, and no    *)
(* lock is taken.  Of its fields only the path is read again; it is a Go   *)
(* string, two words that are written and read one by one, and of a torn   *)
(* one comes the path of no file, or of the file its first word is from.   *)
(*                                                                         *)
(* Files and entries are named here by the Create that made them.          *)
(***************************************************************************)
EXTENDS FiniteSets

CONSTANTS
    Creates,    \* Create calls
    Streams,    \* Stream calls
    Deletes,    \* Delete calls
    Faults      \* "deputy": a download or a conversion may fail; "redis": a command;
                \* "io": a file or the client of a Stream; "crash": the process may end

NoEntry  == "no entry"
NoFile   == "no file"
NoTarget == "no target"
Words    == {"data", "length"}

ASSUME GeneralAssumption ==
    /\ Creates \cap Streams = {} /\ Creates \cap Deletes = {} /\ Streams \cap Deletes = {}
    /\ {NoEntry, NoFile, NoTarget} \cap Creates = {}
    /\ Faults \subseteq {"deputy", "redis", "io", "crash"}

Readers == Streams \cup Deletes
Calls   == Creates \cup Readers

VARIABLES
    pc,         \* pc[c]: where a call is
    files,      \* the HTML files on disk
    container,  \* Storage.Container.Path: the Create each of its words is from
    unwritten,  \* unwritten[c]: the words Create c has still to write
    read,       \* read[c]: the words Create c has copied for MarshalBinary
    entry,      \* entry[c]: the file named by the entry under c's identifier
    target,     \* target[r]: whose identifier Stream or Delete r was given
    path,       \* path[r]: the path r has got from the entry
    crossed,    \* history: the Creates that used the Container at the same time
    unsettled   \* history: the calls a fault or a crash made fail

vars == <<pc, files, container, unwritten, read, entry, target, path, crossed, unsettled>>

InContainer == {"write", "marshal"}
PcValues == {"start", "convert", "store", "open", "send", "remove", "forget", "done", "error"}
                \cup InContainer

TypeOK ==
    /\ pc \in [Calls -> PcValues]
    /\ files \subseteq Creates
    /\ container \in [Words -> Creates \cup {NoFile}]
    /\ unwritten \in [Creates -> SUBSET Words]
    /\ read \in [Creates -> [Words -> Creates \cup {NoEntry, NoFile}]]
    /\ entry \in [Creates -> Creates \cup {NoEntry, NoFile}]
    /\ target \in [Readers -> Creates \cup {NoTarget}]
    /\ path \in [Readers -> Creates \cup {NoFile}]
    /\ crossed \subseteq Creates
    /\ unsettled \subseteq Calls

Empty == [w \in Words |-> NoFile]

Init ==
    /\ pc = [c \in Calls |-> "start"]
    /\ files = {}
    /\ container = Empty
    /\ unwritten = [c \in Creates |-> Words]
    /\ read = [c \in Creates |-> [w \in Words |-> NoEntry]]
    /\ entry = [c \in Creates |-> NoEntry]
    /\ target = [r \in Readers |-> NoTarget]
    /\ path = [r \in Readers |-> NoFile]
    /\ crossed = {}
    /\ unsettled = {}

Goes(c, from, to) == pc[c] = from /\ pc' = [pc EXCEPT ![c] = to]

\* A step that a fault makes fail.
Fault(kind, c, from) ==
    /\ kind \in Faults
    /\ Goes(c, from, "error")
    /\ unsettled' = unsettled \cup {c}

containerVars == <<container, unwritten, read, crossed>>
readerVars    == <<target, path>>

Under(c) == pc[c] \notin {"start", "done", "error"}

-----------------------------------------------------------------------------
(* Create *)

Begin(c) ==
    /\ Goes(c, "start", "convert")
    /\ UNCHANGED <<files, entry, unsettled>> /\ UNCHANGED containerVars

\* History: Create c gets to the Container while others are using it.
Meets(c) ==
    LET others == {d \in Creates : pc[d] \in InContainer}
    IN  crossed' = IF others = {} THEN crossed ELSE crossed \cup others \cup {c}

\* A mutant of Convert: the Container is stored before it is assigned.
ConvertToStored(c) ==
    /\ Goes(c, "convert", "marshal")
    /\ files' = files \cup {c}
    /\ Meets(c)
    /\ UNCHANGED <<container, unwritten, read, entry, unsettled>>

\* GetPackageMetadata and ConvertMarkdownToHtml: the file is new, its directory
\* has a random name.  A failure may leave it behind.
Convert(c) ==
    /\ \/ /\ Goes(c, "convert", "write")
          /\ files' = files \cup {c}
          /\ Meets(c)
          /\ UNCHANGED unsettled
       \/ /\ Fault("deputy", c, "convert")
          /\ files' \in {files, files \cup {c}}
          /\ UNCHANGED crossed
    /\ UNCHANGED <<container, unwritten, read, entry>>

\* The assignment to Storage.Container, a word at a time.
WriteContainer(c) ==
    /\ pc[c] = "write"
    /\ \E w \in unwritten[c] :
          /\ container' = [container EXCEPT ![w] = c]
          /\ unwritten' = [unwritten EXCEPT ![c] = @ \ {w}]
          /\ pc' = [pc EXCEPT ![c] = IF unwritten[c] = {w} THEN "marshal" ELSE "write"]
    /\ UNCHANGED <<files, read, entry, crossed, unsettled>>

\* Storage.Create copies the Container for MarshalBinary, a word at a time.
Marshal(c) ==
    /\ pc[c] = "marshal"
    /\ \E w \in Words :
          /\ read[c][w] = NoEntry
          /\ read' = [read EXCEPT ![c][w] = container[w]]
          /\ pc' = [pc EXCEPT ![c] = IF \A v \in Words \ {w} : read[c][v] # NoEntry
                                     THEN "store" ELSE "marshal"]
    /\ UNCHANGED <<files, container, unwritten, entry, crossed, unsettled>>

\* What the two words are the path of.
Named(words) ==
    IF words["data"] = words["length"] THEN {words["data"]} ELSE {words["data"], NoFile}

\* A mutant of Store: an error of Redis is overlooked.
StoreUnchecked(c) ==
    /\ Goes(c, "store", "done")
    /\ \/ \E f \in Named(read[c]) : entry' = [entry EXCEPT ![c] = f]
       \/ "redis" \in Faults /\ UNCHANGED entry
    /\ UNCHANGED <<files, unsettled>> /\ UNCHANGED containerVars

\* HSetNX under a new UUID, and the answer, which is made of local values.
Store(c) ==
    /\ \/ /\ Goes(c, "store", "done")
          /\ \E f \in Named(read[c]) : entry' = [entry EXCEPT ![c] = f]
          /\ UNCHANGED unsettled
       \/ /\ Fault("redis", c, "store")
          /\ \/ UNCHANGED entry
             \/ \E f \in Named(read[c]) : entry' = [entry EXCEPT ![c] = f]
    /\ UNCHANGED files /\ UNCHANGED containerVars

-----------------------------------------------------------------------------
(* Stream and Delete *)

\* A mutant of Get: what Redis answers is not looked at.
GetUnchecked(r, next) ==
    /\ \E c \in Creates :
          /\ pc[c] = "done"
          /\ target' = [target EXCEPT ![r] = c]
          /\ Goes(r, "start", next)
          /\ path' = [path EXCEPT ![r] = entry[c]]
    /\ UNCHANGED <<files, entry, unsettled>>

\* Storage.Get for the identifier of an answered Create; a missing entry is an error.
Get(r, next) ==
    /\ \E c \in Creates :
          /\ pc[c] = "done"
          /\ target' = [target EXCEPT ![r] = c]
          /\ \/ /\ entry[c] # NoEntry
                /\ Goes(r, "start", next)
                /\ path' = [path EXCEPT ![r] = entry[c]]
                /\ UNCHANGED unsettled
             \/ /\ entry[c] = NoEntry
                /\ Goes(r, "start", "error") /\ UNCHANGED <<path, unsettled>>
             \/ Fault("redis", r, "start") /\ UNCHANGED path
    /\ UNCHANGED <<files, entry>>

\* os.Open.
Open(s) ==
    /\ \/ path[s] \in files /\ Goes(s, "open", "send") /\ UNCHANGED unsettled
       \/ path[s] \notin files /\ Goes(s, "open", "error") /\ UNCHANGED unsettled
       \/ Fault("io", s, "open")
    /\ UNCHANGED <<files, entry, target, path>>

\* The loop that reads chunks and sends them; an open file can be read to its end
\* whether it is removed meanwhile or not.
Send(s) ==
    /\ \/ Goes(s, "send", "done") /\ UNCHANGED unsettled
       \/ Fault("io", s, "send")
    /\ UNCHANGED <<files, entry, target, path>>

\* A mutant of Remove: an error is overlooked.
RemoveUnchecked(d) ==
    /\ Goes(d, "remove", "forget")
    /\ files' \in {files, files \ {path[d]}}
    /\ UNCHANGED <<entry, unsettled, target, path>>

\* os.Remove; when it fails Delete returns, and file and entry stay.
Remove(d) ==
    /\ \/ /\ path[d] \in files
          /\ Goes(d, "remove", "forget")
          /\ files' = files \ {path[d]}
          /\ UNCHANGED unsettled
       \/ /\ path[d] \notin files
          /\ Goes(d, "remove", "error") /\ UNCHANGED <<files, unsettled>>
       \/ Fault("io", d, "remove") /\ UNCHANGED files
    /\ UNCHANGED <<entry, target, path>>

\* A mutant of Forget: an error of Redis is overlooked.
ForgetUnchecked(d) ==
    /\ Goes(d, "forget", "done")
    /\ \/ entry' = [entry EXCEPT ![target[d]] = NoEntry]
       \/ "redis" \in Faults /\ UNCHANGED entry
    /\ UNCHANGED <<files, unsettled, target, path>>

\* Storage.Delete, and the answer.
Forget(d) ==
    /\ \/ /\ Goes(d, "forget", "done")
          /\ entry' = [entry EXCEPT ![target[d]] = NoEntry]
          /\ UNCHANGED unsettled
       \/ /\ Fault("redis", d, "forget")
          /\ entry' \in {entry, [entry EXCEPT ![target[d]] = NoEntry]}
    /\ UNCHANGED <<files, target, path>>

\* The process ends under its calls and is started again: files and entries stay,
\* the Container is empty.  (A command on its way to Redis then is a fault of Redis.)
Restart ==
    /\ "crash" \in Faults
    /\ \E c \in Calls : Under(c)
    /\ unsettled' = unsettled \cup {c \in Calls : Under(c)}
    /\ pc' = [c \in Calls |-> IF Under(c) THEN "error" ELSE pc[c]]
    /\ container' = Empty
    /\ UNCHANGED <<files, unwritten, read, entry, crossed>> /\ UNCHANGED readerVars

CreateStep(c) ==
    /\ Begin(c) \/ Convert(c) \/ WriteContainer(c) \/ Marshal(c) \/ Store(c)
    /\ UNCHANGED readerVars

StreamStep(s) == (Get(s, "open") \/ Open(s) \/ Send(s)) /\ UNCHANGED containerVars

DeleteStep(d) == (Get(d, "remove") \/ Remove(d) \/ Forget(d)) /\ UNCHANGED containerVars

Next ==
    \/ \E c \in Creates : CreateStep(c)
    \/ \E s \in Streams : StreamStep(s)
    \/ \E d \in Deletes : DeleteStep(d)
    \/ Restart

Spec == Init /\ [][Next]_vars

-----------------------------------------------------------------------------
\* A Stream that is answered has sent the file of the Create whose identifier it was
\* given, and one fails only by a fault, or when a Delete of its identifier has begun,
\* unless that Create used the Container at the same time as another: no other
\* Delete or Create gets in its way.
StreamOutcome ==
    \A s \in Streams : target[s] \notin crossed =>
        /\ pc[s] = "done" => path[s] = target[s]
        /\ pc[s] = "error" =>
              s \in unsettled \/ \E d \in Deletes : target[d] = target[s]

\* An entry without its file, which can never be deleted, is there only while a Delete
\* is between the two, after one that failed there, or when Creates crossed.
Stranded ==
    \A c \in Creates : entry[c] # NoEntry /\ entry[c] \notin files =>
        \/ \E d \in Deletes : target[d] = c /\ (pc[d] = "forget" \/ d \in unsettled)
        \/ c \in crossed

\* A file that no entry names is there only while its Create goes on, or after that
\* Create failed or crossed another: Delete never leaves a file behind.
Orphaned ==
    \A c \in files :
        \/ \E d \in Creates : entry[d] = c
        \/ Under(c) \/ c \in unsettled \/ c \in crossed

\* Files and entries match through Creates, Deletes, faults and restarts, except for
\* the causes above (general.go Create and Delete).
FilesMatchEntries == Stranded /\ Orphaned
=============================================================================
