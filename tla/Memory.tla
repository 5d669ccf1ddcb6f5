-------------------------------- MODULE Memory --------------------------------
(***************************************************************************)
(* The memory of a workspace, .gestalt/memory.md: how a session loads and  *)
(* selects its entries, and how an accepted proposal is written back, with *)
(* people editing the file meanwhile                                       *)
(* (crates/gestalt-runtime/src/workspace_context.rs).  An entry is a first *)
(* line and, perhaps, further lines.                                       *)
(***************************************************************************)
EXTENDS Subsequences, SequencesExt

CONSTANTS
  Readers,          \* sessions that load the memory
  Lines,            \* first lines of entries
  FirstEntries,     \* entries of the file to begin with
  NoMark,           \* an entry without a gestalt-memory-id
  MemoryStrategy, MemoryRequired, MemoryTokens, MemoryBytes,  \* of MemoryContextConfig
  NoMemory,         \* there is no memory.md
  MaxMemory, MaxMemoryOps, MaxChanges

MemorySections == {"Facts", "General"}   \* Facts is the pinned one

\* The further lines of an entry in the file are indented, or they are not part of it.
Tails == {"none", "indented", "loose"}

\* extract_or_generate_id: the id of an entry without a mark is a hash of its section and text.
GeneratedId(section, line, tail) == <<section, line, tail>>

\* The ids that a file may have, each with a section it stands in: those that are generated
\* and those that people have written.
GeneratedMarks ==
  {<<GeneratedId(section, line, more), section>> :
     section \in MemorySections, line \in Lines, more \in BOOLEAN}
Marks ==
  GeneratedMarks \cup
  UNION {{<<es[i].mark, es[i].section>> : i \in {j \in DOMAIN es : es[j].mark # NoMark}} :
           es \in FirstEntries}

FileEntries ==
  {e \in [mark : {NoMark} \cup {m[1] : m \in Marks}, section : MemorySections,
          line : Lines, tail : Tails] : e.mark = NoMark \/ <<e.mark, e.section>> \in Marks}
MemoryFiles == [entries : Seq(FileEntries), notes : BOOLEAN]

ASSUME MemoryAssumption ==
  /\ MemoryStrategy \in {"Full", "Budgeted"} /\ MemoryRequired \in BOOLEAN
  /\ MemoryTokens \in Nat /\ MemoryBytes \in Nat
  /\ \A m \in GeneratedMarks : m[1] # NoMark
  /\ NoMemory \notin MemoryFiles /\ FirstEntries \subseteq Seq(FileEntries)

\* People do not move an id to another section: a Replace or a Remove by it would be of
\* whichever entry comes first.
MarksTellSections == \A m, n \in Marks : m[1] = n[1] => m[2] = n[2]

VARIABLES
  memory,    \* memory.md: its entries and whether it has other text
  loaded,    \* [Readers -> what the session has of the memory]
  proposal,  \* [Readers -> the proposal of the session and how far it is]
  meant,     \* what people and accepted proposals mean the memory to hold: what is written
             \* between the check and the rename of a proposal is overwritten, and not meant
  changes

memoryVars == <<memory, loaded, proposal, meant, changes>>

NotLoaded == [at |-> "new"]
NoProposal == [at |-> "none"]

-----------------------------------------------------------------------------
(* Reading and writing the file. *)

\* parse_memory_markdown
Parse(file) ==
  IF file = NoMemory THEN <<>>
  ELSE [i \in DOMAIN file.entries |->
         LET e == file.entries[i]  more == e.tail = "indented"
         IN [id |-> IF e.mark = NoMark THEN GeneratedId(e.section, e.line, more) ELSE e.mark,
             section |-> e.section, line |-> e.line, more |-> more]]

\* The sections in the order in which they first appear.
SectionOrder(entries) ==
  IF entries # <<>> /\ entries[1].section = "General" THEN <<"General", "Facts">>
  ELSE <<"Facts", "General">>

InSection(entries, section) ==
  Subsequence(entries, {i \in DOMAIN entries : entries[i].section = section})

SectionBySection(entries) ==
  LET order == SectionOrder(entries)
  IN InSection(entries, order[1]) \o InSection(entries, order[2])

\* A bug: the ids are not written.
FormatUnmarked(entries) ==
  LET sorted == SectionBySection(entries)
  IN [entries |-> [i \in DOMAIN sorted |->
        [mark |-> NoMark, section |-> sorted[i].section, line |-> sorted[i].line,
         tail |-> IF sorted[i].more THEN "loose" ELSE "none"]], notes |-> FALSE]

\* format_memory_markdown: section by section, each entry with its id, further lines as
\* they are, and nothing else of the file.
FormatMemory(entries) ==
  LET sorted == SectionBySection(entries)
  IN [entries |-> [i \in DOMAIN sorted |->
        [mark |-> sorted[i].id, section |-> sorted[i].section, line |-> sorted[i].line,
         tail |-> IF sorted[i].more THEN "loose" ELSE "none"]], notes |-> FALSE]

-----------------------------------------------------------------------------
(* Loading. *)

EntrySize(e) == IF e.more THEN 2 ELSE 1

TokensOf(entries) == Len(entries) + Cardinality({i \in DOMAIN entries : entries[i].more})

Pinned(entries) == InSection(entries, "Facts")
Unpinned(entries) ==
  Subsequence(entries, {i \in DOMAIN entries : entries[i].section # "Facts"})

\* select_memory_entries: all that is pinned, then what fits.
SelectEntries(entries) ==
  LET rest == Unpinned(entries)
      kept[n \in 0..Len(rest)] ==
        IF n = 0 THEN Pinned(entries)
        ELSE LET before == kept[n - 1]
             IN IF TokensOf(before) + EntrySize(rest[n]) <= MemoryTokens
                THEN Append(before, rest[n]) ELSE before
  IN IF MemoryStrategy = "Full" THEN entries ELSE kept[Len(rest)]

\* load_memory
Loadable ==
  IF memory = NoMemory THEN ~MemoryRequired ELSE Len(memory.entries) <= MemoryBytes

\* load_and_snapshot_workspace_context, when a runtime is built.
LoadMemory(s) ==
  /\ loaded[s].at = "new"
  /\ loaded' = [loaded EXCEPT ![s] =
       IF Loadable
       THEN [at |-> "loaded", file |-> memory, selected |-> SelectEntries(Parse(memory))]
       ELSE [at |-> "failed"]]
  /\ UNCHANGED <<memory, proposal, meant, changes>>

-----------------------------------------------------------------------------
(* Proposals. *)

MemoryOperations(ids) ==
  [kind : {"Add"}, section : MemorySections, line : Lines, more : BOOLEAN]
    \cup [kind : {"Replace"}, id : ids, line : Lines, more : BOOLEAN]
    \cup [kind : {"Remove"}, id : ids]

\* What a proposal does to one entry, and to the list.
Applied(entries, op) ==
  LET found == {i \in DOMAIN entries : entries[i].id = op.id}
      first == CHOOSE i \in found : \A j \in found : i <= j
  IN CASE op.kind = "Add" ->
            Append(entries, [id |-> GeneratedId(op.section, op.line, op.more),
                             section |-> op.section, line |-> op.line, more |-> op.more])
       [] op.kind = "Replace" ->
            IF found = {} THEN entries
            ELSE [entries EXCEPT ![first] = [@ EXCEPT !.line = op.line, !.more = op.more]]
       [] op.kind = "Remove" -> Subsequence(entries, {i \in DOMAIN entries : entries[i].id # op.id})

\* The accepted operations in the order of the decision, which may repeat or name none.
ApplyAccepted(entries, operations, accepted) ==
  LET after[n \in 0..Len(accepted)] ==
        IF n = 0 THEN entries
        ELSE IF accepted[n] \in DOMAIN operations
             THEN Applied(after[n - 1], operations[accepted[n]]) ELSE after[n - 1]
  IN after[Len(accepted)]

\* A session proposes on what it has loaded, and somebody decides.
Propose(s) ==
  /\ loaded[s].at = "loaded" /\ proposal[s].at = "none"
  /\ changes < MaxChanges /\ changes' = changes + 1
  /\ \E operations \in SeqOf(MemoryOperations({e.id : e \in ToSet(loaded[s].selected)}), MaxMemoryOps) :
       /\ operations # <<>>
       /\ \E accepted \in {[i \in DOMAIN operations |-> i], <<Len(operations)>>, <<>>} :
            proposal' = [proposal EXCEPT ![s] =
              [at |-> IF accepted = <<>> THEN "rejected" ELSE "decided",
               operations |-> operations, accepted |-> accepted]]
  /\ UNCHANGED <<memory, loaded, meant>>

\* apply_memory_proposal until the new content is made: the hash of the file must be that
\* of the proposal.
PlanWrite(s) ==
  /\ proposal[s].at = "decided"
  /\ proposal' = [proposal EXCEPT ![s] =
       IF memory # loaded[s].file THEN [at |-> "conflict"]
       ELSE [at |-> "planned",
             content |-> FormatMemory(ApplyAccepted(Parse(memory), @.operations, @.accepted)),
             meant |-> ApplyAccepted(meant, @.operations, @.accepted)]]
  /\ UNCHANGED <<memory, loaded, meant, changes>>

\* The rename of the temporary file, over whatever is there by then.
CommitMemory(s) ==
  /\ proposal[s].at = "planned"
  /\ memory' = proposal[s].content
  /\ meant' = proposal[s].meant
  /\ proposal' = [proposal EXCEPT ![s] = [at |-> "written"]]
  /\ UNCHANGED <<loaded, changes>>

MemoryWriteFails(s) ==
  /\ proposal[s].at = "planned"
  /\ proposal' = [proposal EXCEPT ![s] = [at |-> "failed"]]
  /\ UNCHANGED <<memory, loaded, meant, changes>>

-----------------------------------------------------------------------------
(* People edit the file: what they mean is what the file then says. *)

Edited(file) ==
  /\ changes < MaxChanges /\ changes' = changes + 1
  /\ memory' = file
  /\ meant' = Parse(file)
  /\ UNCHANGED <<loaded, proposal>>

EditMemory ==
  LET old == IF memory = NoMemory THEN [entries |-> <<>>, notes |-> FALSE] ELSE memory IN
  \/ /\ Len(old.entries) < MaxMemory
     /\ \E section \in MemorySections, line \in Lines, tail \in {"none", "indented"} :
          Edited([old EXCEPT !.entries = Append(@,
                   [mark |-> NoMark, section |-> section, line |-> line, tail |-> tail])])
  \/ \E i \in DOMAIN old.entries : \E line \in Lines \ {old.entries[i].line} :
       Edited([old EXCEPT !.entries[i].line = line])
  \/ \E i \in DOMAIN old.entries : Edited([old EXCEPT !.entries = RemoveAt(@, i)])
  \/ memory # NoMemory /\ ~memory.notes /\ Edited([memory EXCEPT !.notes = TRUE])

-----------------------------------------------------------------------------
MemoryInit ==
  /\ memory \in {NoMemory} \cup {[entries |-> es, notes |-> FALSE] : es \in FirstEntries}
  /\ meant = Parse(memory)
  /\ loaded = [s \in Readers |-> NotLoaded]
  /\ proposal = [s \in Readers |-> NoProposal]
  /\ changes = 0

MemoryNext ==
  \/ EditMemory
  \/ \E s \in Readers : \/ LoadMemory(s) \/ Propose(s) \/ PlanWrite(s)
                        \/ CommitMemory(s) \/ MemoryWriteFails(s)

MemorySpec == MemoryInit /\ [][MemoryNext]_memoryVars

-----------------------------------------------------------------------------
(* Properties. *)

FirstLines(entries) == [i \in DOMAIN entries |->
  [id |-> entries[i].id, section |-> entries[i].section, line |-> entries[i].line]]

TimesHeld(entries, e) == Cardinality({i \in DOMAIN entries : entries[i] = e})

\* The memory holds what was meant, entry by entry, with its id, whatever the number of
\* rewritings, of ids that are made up and of entries that say the same (their further
\* lines apart, which a rewriting loses); an entry that a session left out of its context
\* for the budget is not lost by a proposal of that session; and what a session has is all
\* that is pinned and of the rest only what fits.
MemoryAsMeant ==
  /\ LET held == FirstLines(Parse(memory))  wanted == FirstLines(meant) IN
     \A e \in ToSet(held) \cup ToSet(wanted) : TimesHeld(held, e) = TimesHeld(wanted, e)
  /\ \A s \in Readers : loaded[s].at = "loaded" =>
       LET all == Parse(loaded[s].file)  selected == loaded[s].selected IN
       /\ ToSet(selected) \subseteq ToSet(all) /\ ToSet(Pinned(all)) \subseteq ToSet(selected)
       /\ MemoryStrategy = "Budgeted" /\ Unpinned(selected) # <<>> => TokensOf(selected) <= MemoryTokens
       /\ \A e \in ToSet(all) \ ToSet(selected) : TokensOf(selected) + EntrySize(e) > MemoryTokens
  /\ \A s \in Readers : proposal[s].at = "planned" =>
       \A e \in ToSet(FirstLines(Parse(loaded[s].file))) :
         e.id \notin {x.id : x \in ToSet(loaded[s].selected)} =>
           e \in ToSet(FirstLines(Parse(proposal[s].content)))
=============================================================================
