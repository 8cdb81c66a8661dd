------------------------------ MODULE Recovery ------------------------------
(***************************************************************************)
(* What a session keeps in memory and what it keeps on disk, a crash, and  *)
(* the resume from what is left: the message server with its database      *)
(* (core/server.py), the agents' conversations (core/agent/loop.py), and   *)
(* the checkpoint written file by file (core/checkpoint.py, core/session.py*)
(* flush_checkpoint to _apply_resume_payload).                             *)
(*                                                                         *)
(* A message carries the id and the seq the server gives it and, as        *)
(* history, n, its number since the session was created, which tells       *)
(* messages apart when ids and seqs do not.  A conversation is the         *)
(* messages an agent has read and those whose send it knows has returned;  *)
(* the protocol is the messages its subscribers have heard.  A step sends  *)
(* at most one message, and rosters do not change here.                    *)
(***************************************************************************)
EXTENDS Naturals, Sequences, FiniteSets, FiniteSetsExt

CONSTANTS Agents,
          Human,
          Attention,    \* agents have an attention policy
          LlmSummary,   \* checkpoint.compact.llm_summary
          Audiences,    \* bound: whom messages are addressed to
          MaxMessages,  \* bound: messages and notices ever
          MaxSaves,     \* bound: checkpoints ever begun
          MaxCrashes    \* bound: crashes

ASSUME RecoveryConstants ==
    /\ IsFiniteSet(Agents) /\ Human \notin Agents
    /\ Audiences \subseteq SUBSET Agents
    /\ Attention \in BOOLEAN /\ LlmSummary \in BOOLEAN
    /\ MaxMessages \in Nat /\ MaxSaves \in Nat /\ MaxCrashes \in Nat

VARIABLES
    up,         \* the process runs
    log,        \* _messages and _message_index
    nextId,     \* _message_ids
    inbox,      \* per agent, the ids of unread messages
    inflight,   \* messages whose send awaits its INSERT
    conv,       \* per agent, its conversation
    pc,         \* per agent, where its step is
    heard,      \* what the gates and the protocol have taken in
    summary,    \* a conversation being summarised by a model, or Nothing
    saving,     \* the checkpoint being written, or NoSave
    rows,       \* INSERTs the database thread has not committed
    db,         \* the messages table
    files,      \* the session directory
    sent, saves, crashes,  \* bounded counters
    kept,       \* history: per agent, what the last whole checkpoint held
    torn,       \* history: a resume met files of different checkpoints
    blurred     \* history: a restart forgot a notice

memory == <<log, nextId, inbox, inflight, conv, pc, heard, summary>>
disk == <<rows, db, files>>
history == <<kept, torn, blurred>>
vars == <<up, memory, saving, disk, sent, saves, crashes, history>>

Number == 1..MaxMessages
Message == [n : Number, id : Nat, seq : Nat, author : Agents \cup {Human},
            to : SUBSET Agents, notice : BOOLEAN]
Conversation == [read : SUBSET Number, said : SUBSET Number]
FileNames == {"conversations", "protocol", "inbox", "meta"}

Nothing == [agent |-> Human, left |-> {}, conv |-> [read |-> {}, said |-> {}]]
NoSave == [left |-> <<>>]

\* Unread ids name messages the index holds: drain_inbox drops others silently.
TypeOK ==
    /\ up \in BOOLEAN
    /\ log \subseteq Message /\ db \subseteq Message
    /\ nextId \in Nat
    /\ inbox \in [Agents -> SUBSET {m.id : m \in log}]
    /\ inflight \subseteq log
    /\ conv \in [Agents -> Conversation]
    /\ pc \in [Agents -> {"idle", "model", "sending"}]
    /\ heard \subseteq Number
    /\ summary \in [agent : Agents \cup {Human}, left : SUBSET Agents,
                    conv : Conversation]
    /\ saving.left \in Seq(FileNames)
    /\ rows \in Seq(Message)
    /\ DOMAIN files = FileNames
    /\ sent \in 0..MaxMessages /\ saves \in 0..MaxSaves
    /\ crashes \in 0..MaxCrashes
    /\ kept \in [Agents -> SUBSET Number]
    /\ torn \in BOOLEAN /\ blurred \in BOOLEAN

Blank == [a \in Agents |-> [read |-> {}, said |-> {}]]

\* A session of its own directory; version 0 of a file is its absence.
Init ==
    /\ up = TRUE
    /\ log = {} /\ nextId = 1
    /\ inbox = [a \in Agents |-> {}]
    /\ inflight = {}
    /\ conv = Blank
    /\ pc = [a \in Agents |-> "idle"]
    /\ heard = {}
    /\ summary = Nothing
    /\ saving = NoSave
    /\ rows = <<>> /\ db = {}
    /\ files = [conversations |-> [version |-> 0, data |-> Blank],
                protocol |-> [version |-> 0, data |-> {}],
                inbox |-> [version |-> 0, data |-> [a \in Agents |-> {}]],
                meta |-> [version |-> 0]]
    /\ sent = 0 /\ saves = 0 /\ crashes = 0
    /\ kept = [a \in Agents |-> {}]
    /\ torn = FALSE /\ blurred = FALSE

\* The writing of a checkpoint awaits nothing: the loop runs nothing else.
Running == up /\ saving = NoSave

Unread(a) == {m.n : m \in {x \in log : x.id \in inbox[a]}}
Known(a) == conv[a].read \cup Unread(a)

\* A notice that is unread has no row to be restored from.
Saved(a) == conv[a].read \cup {m.n : m \in {x \in log : x.id \in inbox[a] /\ ~x.notice}}
----------------------------------------------------------------------------
(* The message server. *)

NextSeq == Cardinality(log)

Stamped(author, to, notice) ==
    [n |-> sent + 1, id |-> nextId, seq |-> NextSeq, author |-> author,
     to |-> to, notice |-> notice]

\* send_message and human_send up to the INSERT.
Post(author, to) ==
    LET m == Stamped(author, to, FALSE)
    IN  /\ sent < MaxMessages
        /\ sent' = sent + 1
        /\ nextId' = nextId + 1
        /\ log' = log \cup {m}
        /\ inflight' = inflight \cup {m}
        /\ rows' = Append(rows, m)
        /\ UNCHANGED <<up, inbox, heard, summary, saving, db, files, saves,
                       crashes, history>>

\* The database thread; commits are in the order of the INSERTs.
CommitRow ==
    /\ up /\ rows # <<>>
    /\ db' = db \cup {Head(rows)}
    /\ rows' = Tail(rows)
    /\ UNCHANGED <<up, memory, saving, files, sent, saves, crashes, history>>

\* The rest of send_message: inboxes, subscribers, the result of the tool.
Publish(m) ==
    /\ Running
    /\ m \in inflight /\ m \in db
    /\ \A x \in inflight : m.n <= x.n
    /\ inflight' = inflight \ {m}
    /\ inbox' = [a \in Agents |-> IF a \in m.to THEN inbox[a] \cup {m.id}
                                  ELSE inbox[a]]
    /\ heard' = heard \cup {m.n}
    /\ conv' = [a \in Agents |-> IF a = m.author
                                 THEN [conv[a] EXCEPT !.said = @ \cup {m.n}]
                                 ELSE conv[a]]
    /\ pc' = [a \in Agents |-> IF a = m.author THEN "idle" ELSE pc[a]]
    /\ UNCHANGED <<up, log, nextId, summary, saving, disk, sent, saves,
                   crashes, history>>

HumanSend(to) ==
    /\ Running
    /\ Post(Human, to)
    /\ UNCHANGED <<conv, pc>>

\* inject_agent_notice: no await, no row, no subscriber.
Notice(a) ==
    LET m == Stamped(Human, {a}, TRUE)
    IN  /\ Running
        /\ sent < MaxMessages
        /\ sent' = sent + 1
        /\ nextId' = nextId + 1
        /\ log' = log \cup {m}
        /\ inbox' = [inbox EXCEPT ![a] = @ \cup {m.id}]
        /\ UNCHANGED <<up, inflight, conv, pc, heard, summary, saving, disk,
                       saves, crashes, history>>
----------------------------------------------------------------------------
(* An agent's step. *)

\* Draining and appending to the conversation, up to the model call; an
\* attention policy may ignore what was drained (T0), and an agent done at its
\* gate reads without a model call.
Drain(a) ==
    /\ Running /\ pc[a] = "idle"
    /\ inbox' = [inbox EXCEPT ![a] = {}]
    /\ \/ /\ conv' = [conv EXCEPT ![a].read = Known(a)]
          /\ pc' = [pc EXCEPT ![a] = "model"]
       \/ /\ inbox[a] # {}
          /\ conv' = [conv EXCEPT ![a].read = Known(a)]
          /\ UNCHANGED pc
       \/ /\ Attention /\ inbox[a] # {}
          /\ UNCHANGED <<conv, pc>>
    /\ UNCHANGED <<up, log, nextId, inflight, heard, summary, saving, disk,
                   sent, saves, crashes, history>>

\* An answer that sends nothing, or an error, which leaves no trace.
AnswerQuietly(a) ==
    /\ Running /\ pc[a] = "model"
    /\ pc' = [pc EXCEPT ![a] = "idle"]
    /\ UNCHANGED <<up, log, nextId, inbox, inflight, conv, heard, summary,
                   saving, disk, sent, saves, crashes, history>>

AnswerWithSend(a, to) ==
    /\ Running /\ pc[a] = "model"
    /\ pc' = [pc EXCEPT ![a] = "sending"]
    /\ Post(a, to)
    /\ UNCHANGED conv
----------------------------------------------------------------------------
(* The checkpoint. *)

\* Mutated form of FileOrder: the inbox goes first.
InboxFirst == <<"inbox", "conversations", "protocol", "meta">>

FileOrder == <<"conversations", "protocol", "inbox", "meta">>

\* What save() is given: the state of one moment.
Snapshot == [left |-> FileOrder, version |-> saves + 1,
             conversations |-> conv, protocol |-> heard, inbox |-> inbox]

\* flush_checkpoint waits its turn behind a summary (_checkpoint_lock); when
\* it is called does not matter here.
Flush ==
    /\ Running /\ summary = Nothing
    /\ saves < MaxSaves
    /\ saves' = saves + 1
    /\ saving' = Snapshot
    /\ UNCHANGED <<up, memory, disk, sent, crashes, history>>

\* One os.replace.
WriteFile ==
    /\ up /\ saving # NoSave
    /\ LET f == Head(saving.left)
       IN  files' = [files EXCEPT ![f] =
                        IF f = "meta" THEN [version |-> saving.version]
                        ELSE [version |-> saving.version, data |-> saving[f]]]
    /\ saving' = IF Len(saving.left) = 1 THEN NoSave
                 ELSE [saving EXCEPT !.left = Tail(@)]
    /\ kept' = IF Len(saving.left) = 1 THEN [a \in Agents |-> Saved(a)] ELSE kept
    /\ UNCHANGED <<up, memory, rows, db, sent, saves, crashes, torn, blurred>>

\* compact_conversation_async works on a copy while a model summarises it, and
\* flush_checkpoint then puts the copy in the place of the conversation, goes
\* on to the next agent whose conversation is too long, and saves at the end.
\* Without a model nothing is awaited and this is part of Flush.
Summarise(a, left, convs) ==
    summary' = [agent |-> a, left |-> left \ {a}, conv |-> convs[a]]

SummaryStarts ==
    /\ Running /\ LlmSummary
    /\ summary = Nothing
    /\ \E a \in Agents : Summarise(a, Agents, conv)
    /\ UNCHANGED <<up, log, nextId, inbox, inflight, conv, pc, heard, saving,
                   disk, sent, saves, crashes, history>>

SummaryEnds ==
    /\ Running /\ summary # Nothing
    /\ conv' = [conv EXCEPT ![summary.agent] = summary.conv]
    /\ \/ /\ \E a \in summary.left : Summarise(a, summary.left, conv)
          /\ UNCHANGED <<saving, saves>>
       \/ /\ summary' = Nothing
          /\ saves < MaxSaves
          /\ saves' = saves + 1
          /\ saving' = [Snapshot EXCEPT !.conversations = conv']
    /\ UNCHANGED <<up, log, nextId, inbox, inflight, pc, heard, disk, sent,
                   crashes, history>>

\* A step that ends restarts the debounce, which cancels a flush at work.
SummaryCancelled ==
    /\ Running /\ summary # Nothing
    /\ summary' = Nothing
    /\ UNCHANGED <<up, log, nextId, inbox, inflight, conv, pc, heard, saving,
                   disk, sent, saves, crashes, history>>

\* request_interrupt: the steps are cancelled wherever they wait, a send
\* during its INSERT included, and a checkpoint is written on the spot.
Interrupt ==
    /\ Running
    /\ saves < MaxSaves
    /\ \E a \in Agents : pc[a] # "idle"
    /\ pc' = [a \in Agents |-> "idle"]
    /\ inflight' = {m \in inflight : m.author = Human}
    /\ saves' = saves + 1
    /\ saving' = Snapshot
    /\ UNCHANGED <<up, log, nextId, inbox, conv, heard, summary, disk, sent,
                   crashes, history>>
----------------------------------------------------------------------------
(* Crash and resume. *)

\* The memory left as it was is history: nothing reads it until the resume.
Crash ==
    /\ up
    /\ crashes < MaxCrashes
    /\ crashes' = crashes + 1
    /\ up' = FALSE
    /\ UNCHANGED <<memory, saving, disk, sent, saves, history>>

\* Mutated form of RestoredInbox: ids the index lacks are kept.
RestoredInboxAll(a) == files.inbox.data[a]

\* restore_inbox_ids.
RestoredInbox(a) == files.inbox.data[a] \cap {m.id : m \in db}

RestoredHeard == files.protocol.data

\* Mutated form of RestoredId: the last id is given again.
RestoredIdLast == Max({1} \cup {m.id : m \in db})

\* The id after the last one in the table (_load_from_db).
RestoredId == Max({0} \cup {m.id : m \in db}) + 1

\* open_from_config: the tables are read whether there is a checkpoint or not.
Reopen ==
    /\ ~up
    /\ up' = TRUE
    /\ log' = db /\ nextId' = RestoredId
    /\ inflight' = {} /\ rows' = <<>>
    /\ pc' = [a \in Agents |-> "idle"]
    /\ summary' = Nothing /\ saving' = NoSave
    /\ blurred' = (blurred \/ \E m \in log : m.notice)
    /\ UNCHANGED <<db, files, sent, saves, crashes, kept>>

\* _apply_resume_payload, from what bootstrap_session loaded.
Resume ==
    /\ Reopen
    /\ files.meta.version > 0
    /\ inbox' = [a \in Agents |-> RestoredInbox(a)]
    /\ conv' = files.conversations.data
    /\ heard' = RestoredHeard
    /\ torn' = (torn \/ \E f \in FileNames :
                           files[f].version # files.meta.version)

\* A session asked for by its id that has no meta file starts over, in the
\* same directory.
StartOver ==
    /\ Reopen
    /\ files.meta.version = 0
    /\ inbox' = [a \in Agents |-> {}]
    /\ conv' = Blank
    /\ heard' = {}
    /\ UNCHANGED torn

Next ==
    \/ \E a \in Agents :
          \/ Drain(a) \/ AnswerQuietly(a) \/ Notice(a)
          \/ \E to \in Audiences : AnswerWithSend(a, to \ {a})
    \/ \E to \in Audiences : HumanSend(to)
    \/ \E m \in inflight : Publish(m)
    \/ CommitRow
    \/ Flush \/ WriteFile \/ SummaryStarts \/ SummaryEnds \/ SummaryCancelled
    \/ Interrupt
    \/ Crash \/ Resume \/ StartOver

Spec == Init /\ [][Next]_vars
----------------------------------------------------------------------------
(* What makes a resume correct. *)

OnDisk(a) ==
    files.conversations.data[a].read
    \cup {m.n : m \in {x \in db : x.id \in files.inbox.data[a]}}

\* A crash at any moment, in the middle of a checkpoint too, loses no message
\* that the last whole checkpoint held, read or unread (notices: read), and
\* that the agent has not forgotten since: save() writes the conversations,
\* into which the inboxes are drained, before the inboxes.
TornSaveLosesNothing ==
    \A a \in Agents : kept[a] \cap Known(a) \subseteq OnDisk(a)

\* After a resume no agent is given a message it has already read, and what it
\* knows it has said (its vote) has been heard by the gates and the protocol,
\* which counted it, unless a crash left files of different checkpoints.
NothingReadTwice == \A a \in Agents : conv[a].read \cap Unread(a) = {}
WhatWasSaidWasHeard == \A a \in Agents : conv[a].said \subseteq heard
ResumedInStep == ~torn => NothingReadTwice /\ WhatWasSaidWasHeard

\* A resume loses and repeats nothing.
ResumeIsFaithful == TornSaveLosesNothing /\ ResumedInStep

\* server.py: each message carries an int seq for ordering.  It orders the log
\* as long as no restart has forgotten a notice, which took a place in it; an
\* id names one message of the log, whatever was forgotten.
SeqOrdersTheLog == ~blurred => \A x, y \in log : x.n < y.n => x.seq < y.seq
IdsNameOneMessage == \A x, y \in log : x.id = y.id => x = y
LogIsNumbered == SeqOrdersTheLog /\ IdsNameOneMessage

\* SESSION_RESUME_DESIGN.md:177: a resume finds one whole checkpoint.  The code
\* does not keep this: save() replaces the files one by one.
ResumesOneCheckpoint == ~torn
============================================================================
