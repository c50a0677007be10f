------------------------------- MODULE Templates -------------------------------
(***************************************************************************)
(* workflow_runner.templates: a directory of workflow templates, one file  *)
(* for each workflow id, that several runners create, replace and read.    *)
(*                                                                         *)
(* create_workflow tests for the file, and writes it later: write_text     *)
(* truncates the file and then writes the text, a block at a time.  There  *)
(* is no lock, no temporary file and no rename.                            *)
(***************************************************************************)
EXTENDS Naturals, Sequences

CONSTANTS
  Runners,    \* processes that create templates
  Ids,        \* workflow ids
  Documents,  \* what they are asked to write
  NoFile,
  Hole,       \* a block of a file that nobody has written
  Nobody      \* no document

\* A document: the rules that its fields break, its steps, each with an id and the
\* rules it breaks, and the number of blocks of its text.
IsDocument(d) ==
  /\ DOMAIN d = {"id", "breaks", "steps", "size"}
  /\ d.id \in Ids /\ d.size \in Nat \ {0}
  /\ \A k \in DOMAIN d.steps : DOMAIN d.steps[k] = {"id", "breaks"}

Text(d) == [k \in 1..d.size |-> d]

ASSUME TemplatesAssumption == \A d \in Documents : IsDocument(d) /\ Text(d) # NoFile

VARIABLES
  file,       \* id -> the blocks of its file, or NoFile
  stage,      \* runner -> where its create_workflow is
  writes,     \* runner -> the document it writes
  done,       \* runner -> blocks written so far
  acked,      \* history: id -> the documents whose creation was confirmed, since the
              \* file was last replaced on request
  contended,  \* history: ids for which two creations have overlapped
  broken      \* history: ids one of whose creations was cut short

templates == <<file, stage, writes, done, acked, contended, broken>>

TemplatesTypeOK ==
  /\ file \in [Ids -> Seq(Documents \cup {Hole}) \cup {NoFile}]
  /\ stage \in [Runners -> {"idle", "tested", "writing"}]
  /\ writes \in [Runners -> Documents \cup {Nobody}]
  /\ \A r \in Runners : stage[r] # "idle" => writes[r] \in Documents
  /\ done \in [Runners -> Nat]
  /\ acked \in [Ids -> SUBSET Documents]
  /\ contended \subseteq Ids /\ broken \subseteq Ids

\* validate_workflow and _validate_step
Valid(d) ==
  /\ d.breaks = {}
  /\ d.steps # <<>>
  /\ \A k \in DOMAIN d.steps : d.steps[k].breaks = {}
  /\ \A j, k \in DOMAIN d.steps : d.steps[j].id = d.steps[k].id => j = k

\* load_workflow: what is not the whole text of a valid document is an error.
Loads(id, d) == d \in Documents /\ Valid(d) /\ file[id] = Text(d)

\* list_workflows skips what it cannot load.
Listed == {id \in Ids : \E d \in Documents : Loads(id, d)}

\* The directory as it is found.
TemplatesInit ==
  /\ file \in [Ids -> {NoFile} \cup {Text(d) : d \in Documents}]
  /\ stage = [r \in Runners |-> "idle"]
  /\ writes = [r \in Runners |-> Nobody]
  /\ done = [r \in Runners |-> 0]
  /\ acked = [id \in Ids |-> {}]
  /\ contended = {} /\ broken = {}

-----------------------------------------------------------------------------
Busy(id) == {r \in Runners : stage[r] # "idle" /\ writes[r].id = id}

Exists(id) == file[id] # NoFile

\* Faulty variant of Free: the file is not tested for.
FreeAlways(d, overwrite) == TRUE

\* not path.exists() or overwrite
Free(d, overwrite) == overwrite \/ ~Exists(d.id)

\* Validation and the test; a document or a test that fails is an error.
Create(r, d, overwrite) ==
  /\ stage[r] = "idle"
  /\ Valid(d) /\ Free(d, overwrite)
  /\ stage' = [stage EXCEPT ![r] = "tested"]
  /\ writes' = [writes EXCEPT ![r] = d]
  /\ contended' = IF Busy(d.id) = {} THEN contended ELSE contended \cup {d.id}
  /\ acked' = IF overwrite THEN [acked EXCEPT ![d.id] = {}] ELSE acked
  /\ UNCHANGED <<file, done, broken>>

\* open(..., "w"); it ends what crashes have left, unless others still write.
Truncate(r) ==
  LET id == writes[r].id IN
  /\ stage[r] = "tested"
  /\ stage' = [stage EXCEPT ![r] = "writing"]
  /\ file' = [file EXCEPT ![id] = <<>>]
  /\ done' = [done EXCEPT ![r] = 0]
  /\ broken' = broken \ {id}
  /\ UNCHANGED <<writes, acked, contended>>

\* The next block goes to its place, past the end of the file if need be.
WriteBlock(r) ==
  LET id == writes[r].id
      at == done[r] + 1
      old == file[id]
      length == IF Len(old) < at THEN at ELSE Len(old) IN
  /\ stage[r] = "writing" /\ done[r] < writes[r].size
  /\ file' = [file EXCEPT ![id] =
       [k \in 1..length |-> IF k = at THEN writes[r]
                            ELSE IF k <= Len(old) THEN old[k] ELSE Hole]]
  /\ done' = [done EXCEPT ![r] = at]
  /\ UNCHANGED <<stage, writes, acked, contended, broken>>

\* Faulty variant of Written: the last block is left in a buffer.
WrittenButOne(r) == done[r] + 1 = writes[r].size

Written(r) == done[r] = writes[r].size

\* The file is closed and the creation confirmed.
Confirm(r) ==
  LET d == writes[r] IN
  /\ stage[r] = "writing" /\ Written(r)
  /\ stage' = [stage EXCEPT ![r] = "idle"]
  /\ writes' = [writes EXCEPT ![r] = Nobody]
  /\ done' = [done EXCEPT ![r] = 0]
  /\ acked' = [acked EXCEPT ![d.id] = @ \cup {d}]
  /\ UNCHANGED <<file, contended, broken>>

\* The process dies or its disk is full.
Breaks(r) ==
  /\ stage[r] # "idle"
  /\ stage' = [stage EXCEPT ![r] = "idle"]
  /\ writes' = [writes EXCEPT ![r] = Nobody]
  /\ done' = [done EXCEPT ![r] = 0]
  /\ broken' = broken \cup {writes[r].id}
  /\ UNCHANGED <<file, acked, contended>>

TemplatesNext ==
  \E r \in Runners :
    \/ \E d \in Documents, overwrite \in BOOLEAN : Create(r, d, overwrite)
    \/ Truncate(r) \/ WriteBlock(r) \/ Confirm(r) \/ Breaks(r)

TemplatesSpec == TemplatesInit /\ [][TemplatesNext]_templates

-----------------------------------------------------------------------------
(* A template whose creation was confirmed is loaded as it was submitted,   *)
(* and no other creation of its id is confirmed, until somebody asks to     *)
(* overwrite it; or two creations of the id overlapped, between the test    *)
(* for the file and the end of its writing.                                 *)
CreatedTemplateStands ==
  \A id \in Ids \ contended : \A d \in acked[id] :
    Loads(id, d) /\ acked[id] = {d}

(* A file that list_workflows leaves out holds a document that does not      *)
(* validate, or is being written, or was left by a creation that was cut     *)
(* short or by creations that overlapped: nothing that was confirmed alone   *)
(* is left out.                                                              *)
TornFilesExplained ==
  \A id \in Ids : Exists(id) /\ id \notin Listed =>
    \/ \E d \in Documents : file[id] = Text(d)
    \/ Busy(id) # {} \/ id \in broken \cup contended
=============================================================================
