----------------------------- MODULE SessionFiles -----------------------------
(* The Claude Code session behind a thread of the proxy, read from Claude's files while Claude
   writes them (adapters/src/proxy/sessionContext.ts): the head of a transcript of lines, a journal
   for each workflow, a meta file and a transcript for each of its agents.  The reader takes no
   lock; every file is read at a moment of its own.                                               *)
EXTENDS Naturals, Sequences, FiniteSets, SequencesExt

CONSTANTS
    Agent,        \* agents of workflows
    Workflows,    \* the directories under subagents/workflows, in the order readdir gives them
    WorkflowOf,   \* the workflow of each agent
    None,
    HeadLines,    \* maxTranscriptBytes, in lines
    MaxAgents,    \* maxAgents
    MaxLines,     \* bound on the transcript
    MaxRecords,   \* bound on the records of all journals
    MaxReads      \* bound on the reads of the session

VARIABLES
    lines,    \* the transcript's whole lines: "prompt" or "other"
    half,     \* a line is being written: the transcript ends in a piece of one
    journal,  \* each workflow's records: [agent, type]
    metas,    \* agents whose meta file is there
    reader,   \* the read under way: its step, the lines it kept, the workflow it is at, its agents
    context   \* the last context read, or None

vars == <<lines, half, journal, metas, reader, context>>

Idle == [pc |-> "idle", head |-> <<>>, at |-> 0, records |-> <<>>, agents |-> <<>>, reads |-> 0]

Init ==
    /\ lines = <<>> /\ half = FALSE /\ metas = {} /\ context = None /\ reader = Idle
    /\ journal = [w \in ToSet(Workflows) |-> <<>>]

Written == FoldFunction(LAMBDA j, n : Len(j) + n, 0, journal)

TypeOK ==
    /\ Len(lines) <= MaxLines /\ half \in BOOLEAN /\ metas \subseteq Agent
    /\ Written <= MaxRecords
    /\ reader.pc \in {"idle", "journal", "metas"} /\ reader.reads \in 0..MaxReads
-----------------------------------------------------------------------------
(* Claude writes *)

\* A line reaches the file in two pieces, or whole.
WriteHalf == ~half /\ Len(lines) < MaxLines /\ half' = TRUE /\ UNCHANGED <<lines, journal, metas, reader, context>>
WriteLine ==
    /\ half /\ half' = FALSE /\ \E l \in {"prompt", "other"} : lines' = Append(lines, l)
    /\ UNCHANGED <<journal, metas, reader, context>>

\* An agent starts, again after a failure, or ends; its meta file is a write of its own.
Journal(a) ==
    /\ Written < MaxRecords
    /\ \E type \in {"started", "result"} :
        /\ type = "result" => \E r \in ToSet(journal[WorkflowOf[a]]) : r.agent = a
        /\ journal' = [journal EXCEPT ![WorkflowOf[a]] = Append(@, [agent |-> a, type |-> type])]
    /\ UNCHANGED <<lines, half, metas, reader, context>>
WriteMeta(a) == metas' = metas \cup {a} /\ UNCHANGED <<lines, half, journal, reader, context>>
-----------------------------------------------------------------------------
(* The read *)

\* readFileHead(), and the loop over its lines: at most the cap, and a line that does not parse
\* (the piece at the end of a cut or a growing file) counts for nothing; without a whole line
\* there is no context.
ReadHead ==
    /\ reader.pc = "idle" /\ reader.reads < MaxReads /\ lines # <<>>
    /\ reader' = [Idle EXCEPT !.reads = reader.reads + 1, !.pc = "journal", !.at = 1,
                              !.head = SubSeq(lines, 1, IF Len(lines) < HeadLines THEN Len(lines) ELSE HeadLines)]
    /\ UNCHANGED <<lines, half, journal, metas, context>>

Known(known, a) == \E i \in DOMAIN known : known[i].agent = a

\* A started record: the agent is known from now on.
Started(known, a) == IF Known(known, a) THEN known ELSE Append(known, [agent |-> a, finished |-> FALSE])

\* A result record, with or without its start.
Finished(known, a) ==
    IF Known(known, a) THEN [i \in DOMAIN known |-> IF known[i].agent = a THEN [known[i] EXCEPT !.finished = TRUE]
                                                    ELSE known[i]]
    ELSE Append(known, [agent |-> a, finished |-> TRUE])

\* readWorkflowDir(), the journal: one entry for each agent, in the order of their first record.
JournalAgents(records) ==
    FoldLeft(LAMBDA known, r : IF r.type = "started" THEN Started(known, r.agent) ELSE Finished(known, r.agent),
             <<>>, records)

ReadJournal ==
    /\ reader.pc = "journal"
    /\ reader' = [reader EXCEPT !.pc = "metas", !.records = JournalAgents(journal[Workflows[reader.at]])]
    /\ UNCHANGED <<lines, half, journal, metas, context>>

\* What the agents found so far leave of maxAgents.
Room(agents) == MaxAgents - Len(agents)

Prompts(head) == SelectSeq(head, LAMBDA l : l = "prompt")

\* readWorkflowDir(), the rest, and the loop over the workflows: without a journal the meta files
\* name the agents; no further workflow once the list is full.
ReadMetas ==
    LET w == Workflows[reader.at]
        ids == IF reader.records # <<>> THEN reader.records
               ELSE SetToSeq({[agent |-> a, finished |-> FALSE] : a \in {m \in metas : WorkflowOf[m] = w}})
        agents == reader.agents \o SubSeq(ids, 1, IF Len(ids) < Room(reader.agents) THEN Len(ids) ELSE Room(reader.agents))
    IN /\ reader.pc = "metas"
       /\ IF Len(agents) >= MaxAgents \/ reader.at = Len(Workflows)
          THEN /\ context' = [entries |-> Len(reader.head), prompts |-> Len(Prompts(reader.head)), agents |-> agents]
               /\ reader' = [Idle EXCEPT !.reads = reader.reads]
          ELSE /\ reader' = [reader EXCEPT !.pc = "journal", !.at = @ + 1, !.agents = agents]
               /\ UNCHANGED context
       /\ UNCHANGED <<lines, half, journal, metas>>

Next ==
    \/ WriteHalf \/ WriteLine \/ \E a \in Agent : Journal(a) \/ WriteMeta(a)
    \/ ReadHead \/ ReadJournal \/ ReadMetas

Spec == Init /\ [][Next]_vars
-----------------------------------------------------------------------------
(* A context says only what is on disk, and no more of it than the caps allow: whole lines, agents
   that some file names, each once, at most maxAgents over all workflows, and an agent as finished
   only with its result in the journal.                                                          *)
ContextIsOnDisk ==
    context # None =>
        /\ context.entries <= HeadLines /\ context.entries <= Len(lines)
        /\ Len(context.agents) <= MaxAgents
        /\ \A i, j \in DOMAIN context.agents : context.agents[i].agent = context.agents[j].agent => i = j
        /\ \A i \in DOMAIN context.agents :
            LET a == context.agents[i].agent
            IN IF context.agents[i].finished
               THEN [agent |-> a, type |-> "result"] \in ToSet(journal[WorkflowOf[a]])
               ELSE a \in metas \/ \E r \in ToSet(journal[WorkflowOf[a]]) : r.agent = a

(* As Claude only appends, a later context takes nothing back: its counts do not shrink and an
   agent that it lists and that was finished before stays finished, whatever Claude writes between
   the reads.                                                                                     *)
TakesNothingBack ==
    context # None /\ context' # None =>
        /\ context'.entries >= context.entries /\ context'.prompts >= context.prompts
        /\ \A i \in DOMAIN context.agents, j \in DOMAIN context'.agents :
            context.agents[i].agent = context'.agents[j].agent /\ context.agents[i].finished
            => context'.agents[j].finished
=============================================================================
