------------------------------ MODULE FilePatch ------------------------------
(***************************************************************************)
(* The tools patch and write: how a patch document is planned in memory,   *)
(* staged beside the files and committed, and how the content of one file  *)
(* is replaced (crates/gestalt-runtime/src/tools/patch.rs, write.rs,       *)
(* common.rs, path.rs).  Others edit the files meanwhile.  A path is one   *)
(* that validate_write_path lets pass, and has one name: links,            *)
(* directories and how a document is cut into lines are left out.          *)
(***************************************************************************)
EXTENDS Naturals, Sequences

CONSTANTS
  FileNames,
  Contents,      \* contents of files; a replacement searches for one and puts another
  Missing,       \* no file; no expected hash
  MaxOperations, \* bound: operations of a document
  MaxEdits       \* bound: edits by others

ASSUME FilePatchAssumption ==
  /\ Missing \notin Contents
  /\ MaxOperations \in Nat /\ MaxEdits \in Nat

PatchOperation ==
  [op : {"Add"}, path : FileNames, content : Contents]
  \cup [op : {"Update"}, path : FileNames, search : Contents, content : Contents]
  \cup [op : {"Delete"}, path : FileNames]
  \cup [op : {"Move"}, path : FileNames, to : FileNames]

VARIABLES
  onFile,      \* [FileNames -> Contents \cup {Missing}]
  temps,       \* temporary files: the path they are for, and what is in them
  job,         \* the tool call: where it is, and its arguments
  operations,  \* operations planned so far
  writes,      \* proposed contents: pairs of a path and a content
  deletes,     \* paths to be removed
  base,        \* ghost: the files when the call began
  edits        \* edits by others since then

filePatchVars == <<onFile, temps, job, operations, writes, deletes, base, edits>>
plan == <<operations, writes, deletes>>

NoJob == [pc |-> "idle", tool |-> "none", dry |-> FALSE]

FilePatchInit ==
  /\ onFile \in [FileNames -> Contents \cup {Missing}]
  /\ temps = {} /\ job = NoJob
  /\ operations = <<>> /\ writes = {} /\ deletes = {}
  /\ base = onFile /\ edits = 0

Exists(n) == onFile[n] # Missing

Written(path) == {w \in writes : w.path = path}
With(path, content) == (writes \ Written(path)) \cup {[path |-> path, content |-> content]}

Goto(pc) == job' = [job EXCEPT !.pc = pc]

-----------------------------------------------------------------------------
(* patch. *)

\* The expected hash is that of the primary file, read on its own.
PatchBegins ==
  /\ job = NoJob
  /\ \E primary \in FileNames, expected \in Contents \cup {Missing}, dry \in BOOLEAN :
       job' = [pc |-> IF expected # Missing /\ onFile[primary] # expected
                      THEN "failed" ELSE "plan",
               tool |-> "patch", dry |-> dry]
  /\ UNCHANGED <<onFile, temps, plan, base, edits>>

Occupied(n) == (Exists(n) /\ n \notin deletes) \/ Written(n) # {}

\* What an operation finds at a name: what the document has put there, or the file.
Found(n) ==
  IF Written(n) # {} THEN (CHOOSE w \in Written(n) : TRUE).content
  ELSE onFile[n]

Plannable(o) ==
  CASE o.op = "Add" -> ~Occupied(o.path)
    [] o.op = "Update" -> o.path \notin deletes /\ Found(o.path) = o.search
    [] o.op = "Delete" -> o.path \notin deletes /\ Found(o.path) # Missing
    [] o.op = "Move" ->
         ~Occupied(o.to) /\ o.path \notin deletes /\ Found(o.path) # Missing

PlannedWrites(o) ==
  CASE o.op \in {"Add", "Update"} -> With(o.path, o.content)
    [] o.op = "Delete" -> writes \ Written(o.path)
    [] o.op = "Move" -> With(o.to, Found(o.path)) \ Written(o.path)

PlanOperation(o) ==
  /\ job.pc = "plan" /\ job.tool = "patch" /\ Len(operations) < MaxOperations
  /\ operations' = Append(operations, o)
  /\ IF Plannable(o)
     THEN /\ writes' = PlannedWrites(o)
          /\ deletes' =
               IF o.op \in {"Delete", "Move"} THEN deletes \cup {o.path} ELSE deletes
          /\ UNCHANGED job
     ELSE Goto("failed") /\ UNCHANGED <<writes, deletes>>
  /\ UNCHANGED <<onFile, temps, base, edits>>

\* The last operation is planned; a dry run ends here.
Planned ==
  /\ job.pc = "plan" /\ operations # <<>>
  /\ Goto(IF job.dry THEN "succeeded" ELSE "stage")
  /\ UNCHANGED <<onFile, temps, plan, base, edits>>

-----------------------------------------------------------------------------
(* write. *)

WriteBegins ==
  /\ job = NoJob
  /\ \E n \in FileNames, content \in Contents, expected \in Contents \cup {Missing},
        dry \in BOOLEAN :
       LET conflict == expected # Missing /\ onFile[n] # expected
           unchanged == onFile[n] = content
       IN /\ job' = [pc |-> CASE conflict -> "failed"
                              [] ~conflict /\ (dry \/ unchanged) -> "succeeded"
                              [] OTHER -> "stage",
                     tool |-> "write", dry |-> dry]
          /\ writes' = With(n, content)
  /\ UNCHANGED <<onFile, temps, operations, deletes, base, edits>>

-----------------------------------------------------------------------------
(* Staging and committing, in the order of a hash map.  Any step may fail. *)

\* A write that fails may leave its temporary file; those before it are removed.
Stage ==
  /\ job.pc = "stage"
  /\ \/ \E w \in writes \ temps :
          \/ temps' = temps \cup {w} /\ UNCHANGED job
          \/ temps' \in {{}, {w}} /\ Goto("failed")
     \/ writes \subseteq temps /\ Goto("commit") /\ UNCHANGED temps
  /\ UNCHANGED <<onFile, plan, base, edits>>

\* A bug: a file that is written again is removed after it was.
RenameAtOnce == TRUE

\* Deletions come first.
RenameIsDue == deletes = {}

\* A deletion that fails leaves the temporary files, and what was deleted before.
CommitDelete ==
  /\ job.pc = "commit"
  /\ \E path \in deletes :
       \/ /\ onFile' = [onFile EXCEPT ![path] = Missing]
          /\ deletes' = deletes \ {path} /\ UNCHANGED job
       \/ Goto("torn") /\ UNCHANGED <<onFile, deletes>>
  /\ UNCHANGED <<temps, operations, writes, base, edits>>

\* So does a rename; the tool write removes its own.
CommitRename ==
  /\ job.pc = "commit" /\ RenameIsDue
  /\ \E w \in temps :
       \/ /\ onFile' = [onFile EXCEPT ![w.path] = w.content]
          /\ temps' = temps \ {w} /\ UNCHANGED job
       \/ /\ IF job.tool = "write" THEN temps' = {} /\ Goto("failed")
             ELSE UNCHANGED temps /\ Goto("torn")
          /\ UNCHANGED onFile
  /\ UNCHANGED <<plan, base, edits>>

Committed ==
  /\ job.pc = "commit" /\ deletes = {} /\ temps = {}
  /\ Goto("succeeded")
  /\ UNCHANGED <<onFile, temps, plan, base, edits>>

\* Somebody else writes or removes a file.
EditByOther ==
  /\ job # NoJob /\ edits < MaxEdits
  /\ \E f \in FileNames, content \in Contents \cup {Missing} :
       onFile' = [onFile EXCEPT ![f] = content]
  /\ edits' = edits + 1
  /\ UNCHANGED <<temps, job, plan, base>>

FilePatchNext ==
  \/ PatchBegins \/ WriteBegins
  \/ \E o \in PatchOperation : PlanOperation(o)
  \/ Planned \/ Stage \/ CommitDelete \/ CommitRename \/ Committed
  \/ EditByOther

FilePatchSpec == FilePatchInit /\ [][FilePatchNext]_filePatchVars

-----------------------------------------------------------------------------
(* What a document says: its operations, one after the other. *)

Applies(files, o) ==
  LET at == files[o.path]
  IN CASE o.op = "Add" -> at = Missing
       [] o.op = "Update" -> at = o.search
       [] o.op = "Delete" -> at # Missing
       [] o.op = "Move" -> at # Missing /\ files[o.to] = Missing

After(files, o) ==
  LET from == o.path
  IN IF ~Applies(files, o) THEN files
     ELSE CASE o.op \in {"Add", "Update"} -> [files EXCEPT ![from] = o.content]
            [] o.op = "Delete" -> [files EXCEPT ![from] = Missing]
            [] o.op = "Move" -> [files EXCEPT ![from] = Missing, ![o.to] = files[from]]

\* The files after the first operations.
FilesAfter[i \in 0..Len(operations)] ==
  IF i = 0 THEN base ELSE After(FilesAfter[i - 1], operations[i])

Meaning == FilesAfter[Len(operations)]

\* If nobody else edits the files, a patch that succeeds has done what its operations say one
\* after the other, a patch that fails before it is committed has changed nothing, and one that
\* fails within leaves in each file what was there, what there should be, or nothing where the
\* file was to be moved or removed.
PatchAsWritten ==
  job.tool = "patch" /\ edits = 0 =>
    /\ job.pc = "succeeded" => onFile = IF job.dry THEN base ELSE Meaning
    /\ job.pc = "failed" => onFile = base
    /\ \A f \in FileNames :
         onFile[f] \in {base[f], Meaning[f]}
           \cup IF \E i \in DOMAIN operations :
                     operations[i].op \in {"Delete", "Move"} /\ operations[i].path = f
                THEN {Missing} ELSE {}
=============================================================================
