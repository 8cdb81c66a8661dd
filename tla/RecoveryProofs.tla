--------------------------- MODULE RecoveryProofs ---------------------------
(* Proofs about crash and resume, for every team, every attention policy   *)
(* and summary, and any number of messages, checkpoints and crashes.       *)
EXTENDS Recovery, FiniteSetTheorems, TLAPS

\* A bounded set of numbers has a greatest: as many numbers as are no greater
\* than one of its own, less one.
LEMMA GreatestExists ==
  ASSUME NEW S, S \subseteq Nat, S # {}, NEW n \in Nat, \A x \in S : x <= n
  PROVE  Max(S) \in S /\ \A y \in S : y <= Max(S)
<1> DEFINE T == {y \in 0..n : \E x \in S : y <= x}
           c == Cardinality(T)
<1>1. IsFiniteSet(T) /\ c \in Nat
  <2>1. T \in SUBSET (0..n)
    OBVIOUS
  <2>2. IsFiniteSet(0..n)
    BY FS_Interval
  <2>3. IsFiniteSet(T)
    BY <2>1, <2>2, FS_Subset
  <2>4. QED
    BY <2>3, FS_CardinalityType
<1>2. \A x \in T : x < c
  <2>1. TAKE x \in T
  <2>2. (0..x) \in SUBSET T
    OBVIOUS
  <2>3. Cardinality(0..x) <= c
    BY <1>1, <2>2, FS_Subset
  <2>4. x \in Int /\ 0 \in Int /\ ~(0 > x)
    OBVIOUS
  <2>5. Cardinality(0..x) = IF 0 > x THEN 0 ELSE x - 0 + 1
    BY <2>4, FS_Interval
  <2>6. QED
    BY <1>1, <2>3, <2>4, <2>5
<1>3. T = 0..(c - 1)
  <2>1. T \in SUBSET (0..(c - 1))
    BY <1>1, <1>2
  <2>2. 0 \in Int /\ c - 1 \in Int
    BY <1>1
  <2>3. /\ IsFiniteSet(0..(c - 1))
        /\ Cardinality(0..(c - 1)) = IF 0 > c - 1 THEN 0 ELSE c - 1 - 0 + 1
    BY <2>2, FS_Interval
  <2>4. Cardinality(0..(c - 1)) = c
    BY <1>1, <2>3
  <2>5. QED
    BY <2>1, <2>3, <2>4, FS_Subset
<1>4. S \subseteq T
  OBVIOUS
<1>5. PICK z \in S : TRUE
  OBVIOUS
<1>6. z \in 0..(c - 1)
  BY <1>3, <1>4
<1>7. c - 1 \in 0..(c - 1)
  <2> HIDE DEF c
  <2> QED
    BY <1>1, <1>6
<1>8. PICK x \in S : c - 1 <= x
  BY <1>3, <1>7
<1>9. \A y \in S : y <= x
  BY <1>1, <1>2, <1>4, <1>8
<1>10. \E y \in S : \A w \in S : y >= w
  BY <1>9
<1>11. QED
  BY <1>10 DEF Max

-----------------------------------------------------------------------------
(* The invariant. *)

ByAgent == [Agents -> Conversation]
Inboxes == [Agents -> SUBSET Nat]

\* What is left to write: FileOrder from one of its files on.
Lefts == {FileOrder, <<"protocol", "inbox", "meta">>, <<"inbox", "meta">>, <<"meta">>}

Saves == [left : Lefts, version : Nat, conversations : ByAgent,
          protocol : SUBSET Number, inbox : Inboxes]

Files == [conversations : [version : Nat, data : ByAgent],
          protocol : [version : Nat, data : SUBSET Number],
          inbox : [version : Nat, data : Inboxes],
          meta : [version : Nat]]

\* The files a checkpoint at work has still to write.
FilesOf(l) == {l[i] : i \in DOMAIN l}
Unwritten == FilesOf(saving.left)

\* A message whose send has not reached the inboxes, or will never.
Pending == inflight \cup {m \in log : ~m.notice /\ m \notin db}

Typed ==
    /\ saving = NoSave \/ saving \in Saves
    /\ files \in Files
    /\ db \subseteq log /\ IsFiniteSet(log)
    /\ \A i \in DOMAIN rows : rows[i] \in log

TypeInv == TypeOK /\ Typed

\* Ids are given once, and none above the last.
Numbered ==
    /\ nextId \in 1..(sent + 1)
    /\ \A m \in log : m.n <= sent /\ m.id < nextId
    /\ \A x, y \in log : x.id = y.id \/ x.n = y.n => x = y

\* What is on its way to the table comes after what is in it, and is in order.
Queued ==
    /\ \A m \in log : m \in db \/ m.notice \/ \E i \in DOMAIN rows : rows[i] = m
    /\ \A i \in DOMAIN rows : rows[i] \notin db /\ ~rows[i].notice
    /\ \A i \in DOMAIN rows : \A x \in db : x.n < rows[i].n
    /\ \A i, j \in DOMAIN rows : i < j => rows[i].n < rows[j].n
    /\ \A m \in db : ~m.notice

\* A seq is a place in the log.
Ranked ==
    ~blurred => \A x \in log : x.seq = Cardinality({y \in log : y.n < x.n})

\* Nothing is known before it was sent or, the human's own notices aside, heard.
NotYet ==
    /\ \A a \in Agents :
          /\ kept[a] \subseteq 1..sent
          /\ conv[a].read \subseteq 1..sent
          /\ files.conversations.data[a].read \subseteq 1..sent
    /\ \A m \in Pending, a \in Agents :
          /\ m.id \notin inbox[a]
          /\ m.n \notin kept[a] \cup conv[a].read
          /\ m.n \notin files.conversations.data[a].read
    /\ \A m \in log, a \in Agents :
          m.notice /\ m.id \in inbox[a] => m.n \notin conv[a].read

\* A summary is of a conversation that has only grown since.
Behind ==
    \A a \in Agents :
        summary.agent = a =>
            /\ a \notin summary.left
            /\ summary.conv.read \subseteq conv[a].read
            /\ summary.conv.said \subseteq conv[a].said

\* While a checkpoint is written it holds what the memory holds, and the files
\* it has written are its own and newer than the others.
Written ==
    /\ \A f \in FileNames : files[f].version <= saves
    /\ saving # NoSave =>
          /\ saving.version = saves
          /\ saving.conversations = conv
          /\ saving.protocol = heard /\ saving.inbox = inbox
          /\ \A f \in Unwritten : files[f].version < saves
          /\ \A f \in FileNames \ Unwritten :
                /\ files[f].version = saves
                /\ f # "meta" => files[f].data = saving[f]

\* What a resume would find unread.
InboxOnDisk(a) == {m.n : m \in {x \in db : x.id \in files.inbox.data[a]}}

\* What was kept and is still unread is in the inbox file.
KeptUnread == \A a \in Agents : kept[a] \cap Unread(a) \subseteq InboxOnDisk(a)

\* Files of one checkpoint fit together.
Whole == \A f \in FileNames : files[f].version = files.meta.version
FitTogether ==
    ~torn /\ Whole =>
        \A a \in Agents :
            /\ files.conversations.data[a].read \cap InboxOnDisk(a) = {}
            /\ files.conversations.data[a].said \subseteq files.protocol.data

----------------------------------------------------------------------------
(* Types. *)

LEMMA Bounds ==
  /\ MaxMessages \in Nat /\ MaxSaves \in Nat /\ MaxCrashes \in Nat
  /\ Human \notin Agents /\ \A to \in Audiences : to \subseteq Agents
BY RecoveryConstants

\* What is stamped is a message.
LEMMA StampedIsMessage ==
  ASSUME TypeInv, sent < MaxMessages,
         NEW author \in Agents \cup {Human}, NEW to \in SUBSET Agents,
         NEW notice \in BOOLEAN
  PROVE  /\ Stamped(author, to, notice) \in Message
         /\ Cardinality(log) \in Nat
<1>1. Cardinality(log) \in Nat
  BY FS_CardinalityType DEF TypeInv, Typed
<1>2. sent + 1 \in Number
  BY Bounds DEF TypeInv, TypeOK, Number
<1>3. QED
  BY <1>1, <1>2 DEF TypeInv, TypeOK, Message, Stamped, NextSeq

LEMMA LogTyped ==
  ASSUME TypeInv, sent < MaxMessages, NEW m \in Message,
         log' = log \cup {m}, sent' = sent + 1, nextId' = nextId + 1,
         inbox' \in [Agents -> SUBSET {x.id : x \in log'}],
         UNCHANGED <<up, heard, summary, saving, db, files, saves, crashes, history>>,
         conv' = conv, pc' \in [Agents -> {"idle", "model", "sending"}],
         inflight' \subseteq log', rows' = rows \/ rows' = Append(rows, m)
  PROVE  TypeInv'
<1>1. sent' \in 0..MaxMessages /\ nextId' \in Nat
  BY Bounds DEF TypeInv, TypeOK
<1>2. log' \subseteq Message /\ IsFiniteSet(log') /\ db' \subseteq log'
  BY FS_AddElement DEF TypeInv, TypeOK, Typed
<1>3. rows' \in Seq(Message) /\ \A i \in DOMAIN rows' : rows'[i] \in log'
  <2>1. rows \in Seq(Message) /\ \A i \in DOMAIN rows : rows[i] \in log
    BY DEF TypeInv, TypeOK, Typed
  <2>2. CASE rows' = rows
    BY <2>1, <2>2
  <2>3. CASE rows' = Append(rows, m)
    <3>1. /\ rows' \in Seq(Message) /\ DOMAIN rows' = 1..(Len(rows) + 1)
          /\ \A i \in 1..(Len(rows) + 1) : rows'[i] = IF i = Len(rows) + 1 THEN m ELSE rows[i]
      BY <2>1, <2>3
    <3>2. DOMAIN rows = 1..Len(rows) /\ Len(rows) \in Nat
      BY <2>1
    <3>3. QED
      BY <2>1, <3>1, <3>2
  <2>4. QED
    BY <2>2, <2>3
<1>4. TypeOK'
  BY <1>1, <1>2, <1>3 DEF TypeInv, TypeOK, history
<1>5. QED
  BY <1>2, <1>3, <1>4 DEF TypeInv, Typed

LEMMA PostTyped ==
  ASSUME TypeInv, NEW author \in Agents \cup {Human}, NEW to \in SUBSET Agents,
         Post(author, to), conv' = conv,
         pc' \in [Agents -> {"idle", "model", "sending"}]
  PROVE  TypeInv'
<1> DEFINE m == Stamped(author, to, FALSE)
<1>1. m \in Message
  BY StampedIsMessage DEF Post
<1>2. /\ log' = log \cup {m} /\ inflight' = inflight \cup {m}
      /\ rows' = Append(rows, m) /\ inbox' = inbox
  BY DEF Post
<1> HIDE DEF m
<1>3. inbox' \in [Agents -> SUBSET {x.id : x \in log'}]
  BY <1>2 DEF TypeInv, TypeOK
<1>4. inflight' \subseteq log'
  BY <1>1, <1>2 DEF TypeInv, TypeOK
<1>5. QED
  BY <1>1, <1>2, <1>3, <1>4, LogTyped DEF Post

LEMMA NoticeTyped == ASSUME TypeInv, NEW a \in Agents, Notice(a) PROVE TypeInv'
<1> DEFINE m == Stamped(Human, {a}, TRUE)
<1>1. m \in Message
  BY StampedIsMessage DEF Notice
<1>2. /\ log' = log \cup {m}
      /\ inbox' = [inbox EXCEPT ![a] = @ \cup {m.id}]
  BY DEF Notice
<1> HIDE DEF m
<1>3. inbox' \in [Agents -> SUBSET {x.id : x \in log'}]
  BY <1>2 DEF TypeInv, TypeOK
<1>4. inflight' \subseteq log' /\ rows' = rows /\ conv' = conv /\ pc' = pc
  BY <1>2 DEF Notice, TypeInv, TypeOK, disk
<1>5. QED
  BY <1>1, <1>2, <1>3, <1>4, LogTyped DEF Notice, TypeInv, TypeOK, disk

LEMMA PublishTyped == ASSUME TypeInv, NEW m \in inflight, Publish(m) PROVE TypeInv'
<1>1. m \in log /\ m.n \in Number
  BY DEF TypeInv, TypeOK, Message
<1>2. inbox' \in [Agents -> SUBSET {x.id : x \in log'}]
  BY <1>1 DEF Publish, TypeInv, TypeOK
<1>3. conv' \in ByAgent
  BY <1>1 DEF Publish, TypeInv, TypeOK, Conversation, ByAgent
<1>4. inflight' \subseteq log' /\ heard' \subseteq Number
      /\ pc' \in [Agents -> {"idle", "model", "sending"}]
  BY <1>1 DEF Publish, TypeInv, TypeOK
<1>5. QED
  BY <1>2, <1>3, <1>4 DEF Publish, TypeInv, TypeOK, Typed, disk, history, ByAgent

LEMMA KnownTyped ==
  ASSUME TypeInv, NEW a \in Agents
  PROVE  Known(a) \subseteq Number /\ Saved(a) \subseteq Number
BY DEF TypeInv, TypeOK, Known, Saved, Unread, Conversation, Message

\* What an update of a record changes.
LEMMA WithRead ==
  ASSUME NEW c \in Conversation, NEW r
  PROVE  [c EXCEPT !.read = r] = [read |-> r, said |-> c.said]
BY DEF Conversation

LEMMA WithSaid ==
  ASSUME NEW c \in Conversation, NEW s
  PROVE  [c EXCEPT !.said = s] = [read |-> c.read, said |-> s]
BY DEF Conversation

\* A step that drains keeps what was read or adds what was unread.
LEMMA Drained ==
  ASSUME TypeInv, NEW a \in Agents, Drain(a)
  PROVE  \/ conv' = conv
         \/ conv' = [b \in Agents |-> IF b = a THEN [read |-> Known(a), said |-> conv[a].said]
                                      ELSE conv[b]]
<1>1. conv \in [Agents -> Conversation] /\ conv[a] \in Conversation
  BY DEF TypeInv, TypeOK
<1>2. [conv[a] EXCEPT !.read = Known(a)] = [read |-> Known(a), said |-> conv[a].said]
  BY <1>1, WithRead
<1>3. conv' = conv \/ conv' = [conv EXCEPT ![a] = [conv[a] EXCEPT !.read = Known(a)]]
  BY DEF Drain
<1>4. QED
  BY <1>1, <1>2, <1>3

LEMMA DrainTyped == ASSUME TypeInv, NEW a \in Agents, Drain(a) PROVE TypeInv'
<1>1. inbox' \in [Agents -> SUBSET {x.id : x \in log'}]
  BY DEF Drain, TypeInv, TypeOK
<1>2. conv' \in ByAgent
  BY KnownTyped, Drained DEF TypeInv, TypeOK, Conversation, ByAgent
<1>3. pc' \in [Agents -> {"idle", "model", "sending"}]
  BY DEF Drain, TypeInv, TypeOK
<1>4. QED
  BY <1>1, <1>2, <1>3 DEF Drain, TypeInv, TypeOK, Typed, disk, history, ByAgent

LEMMA SnapshotIsSave ==
  ASSUME TypeInv, NEW c \in ByAgent
  PROVE  /\ [Snapshot EXCEPT !.conversations = c] \in Saves
         /\ Snapshot \in Saves
         /\ (Snapshot.left) \in Seq(FileNames)
<1>1. saves + 1 \in Nat /\ heard \in SUBSET Number /\ conv \in ByAgent
  BY Bounds DEF TypeInv, TypeOK, ByAgent
<1>2. inbox \in Inboxes
  BY DEF TypeInv, TypeOK, Inboxes, Message
<1>3. FileOrder \in Lefts /\ FileOrder \in Seq(FileNames)
  BY DEF Lefts, FileOrder, FileNames
<1>4. QED
  BY <1>1, <1>2, <1>3 DEF Snapshot, Saves

LEMMA FlushTyped == ASSUME TypeInv, Flush PROVE TypeInv'
<1>1. saving' \in Saves /\ saving'.left \in Seq(FileNames)
  BY SnapshotIsSave DEF Flush, TypeInv, TypeOK, ByAgent
<1>2. saves' \in 0..MaxSaves
  BY Bounds DEF Flush, TypeInv, TypeOK
<1>3. QED
  BY <1>1, <1>2 DEF Flush, TypeInv, TypeOK, Typed, memory, disk, history

\* The files that are left to write, one by one.
LEMMA FromFirst ==
  /\ Head(FileOrder) = "conversations" /\ Len(FileOrder) = 4
  /\ Tail(FileOrder) = <<"protocol", "inbox", "meta">>
  /\ FilesOf(FileOrder) = FileNames
  /\ FileOrder \in Seq(FileNames)
BY DEF FileOrder, FilesOf, FileNames

LEMMA FromSecond ==
  LET l == <<"protocol", "inbox", "meta">>
  IN  /\ Head(l) = "protocol" /\ Len(l) = 3 /\ Tail(l) = <<"inbox", "meta">>
      /\ FilesOf(l) = FileNames \ {"conversations"} /\ l \in Seq(FileNames)
BY DEF FilesOf, FileNames

LEMMA FromThird ==
  LET l == <<"inbox", "meta">>
  IN  /\ Head(l) = "inbox" /\ Len(l) = 2 /\ Tail(l) = <<"meta">>
      /\ FilesOf(l) = {"inbox", "meta"} /\ l \in Seq(FileNames)
BY DEF FilesOf, FileNames

LEMMA FromLast ==
  LET l == <<"meta">>
  IN  /\ Head(l) = "meta" /\ Len(l) = 1
      /\ FilesOf(l) = {"meta"} /\ l \in Seq(FileNames)
BY DEF FilesOf, FileNames

\* One by one: what is written next, and what is then left.
LEMMA OneByOne ==
  ASSUME NEW l \in Lefts
  PROVE  /\ l \in Seq(FileNames) /\ Head(l) \in FileNames /\ "meta" \in FilesOf(l)
         /\ Len(l) # 1 => /\ Tail(l) \in Lefts /\ Head(l) # "meta"
                          /\ FilesOf(Tail(l)) = FilesOf(l) \ {Head(l)}
         /\ Len(l) = 1 => Head(l) = "meta" /\ FilesOf(l) = {"meta"}
<1>1. CASE l = FileOrder
  <2>1. /\ Tail(l) = <<"protocol", "inbox", "meta">>
        /\ FilesOf(Tail(l)) = FileNames \ {"conversations"}
    BY <1>1, FromFirst, FromSecond
  <2>2. FilesOf(l) = FileNames /\ Head(l) = "conversations" /\ Len(l) = 4
        /\ l \in Seq(FileNames)
    BY <1>1, FromFirst
  <2>3. QED
    BY <2>1, <2>2 DEF Lefts, FileNames
<1>2. CASE l = <<"protocol", "inbox", "meta">>
  BY <1>2, FromSecond, FromThird DEF Lefts, FileNames
<1>3. CASE l = <<"inbox", "meta">>
  BY <1>3, FromThird, FromLast DEF Lefts, FileNames
<1>4. CASE l = <<"meta">>
  BY <1>4, FromLast DEF Lefts, FileNames
<1>5. QED
  BY <1>1, <1>2, <1>3, <1>4 DEF Lefts

\* The checkpoint at work, and the file it writes.
LEMMA AtWork ==
  ASSUME TypeInv, saving # NoSave
  PROVE  /\ saving \in Saves
         /\ Head(saving.left) \in FileNames
         /\ Len(saving.left) # 1 =>
                [saving EXCEPT !.left = Tail(@)] \in Saves
<1>1. saving \in Saves /\ saving.left \in Lefts
  BY DEF TypeInv, Typed, Saves
<1>2. /\ Head(saving.left) \in FileNames
      /\ Len(saving.left) # 1 => Tail(saving.left) \in Lefts
  BY <1>1, OneByOne
<1>3. QED
  BY <1>1, <1>2 DEF Saves

\* The new value of a file.
NewFile(f) == IF f = "meta" THEN [version |-> saving.version]
              ELSE [version |-> saving.version, data |-> saving[f]]

LEMMA WriteFileTyped == ASSUME TypeInv, WriteFile PROVE TypeInv'
<1> DEFINE f == Head(saving.left)
<1>1. saving # NoSave /\ files' = [files EXCEPT ![f] = NewFile(f)]
  BY DEF WriteFile, NewFile
<1>2. saving \in Saves /\ f \in FileNames
  BY <1>1, AtWork
<1>3. files' \in Files
  <2> HIDE DEF f
  <2>1. CASE f = "conversations"
    BY <1>1, <1>2, <2>1 DEF Files, Saves, NewFile, TypeInv, Typed
  <2>2. CASE f = "protocol"
    BY <1>1, <1>2, <2>2 DEF Files, Saves, NewFile, TypeInv, Typed
  <2>3. CASE f = "inbox"
    BY <1>1, <1>2, <2>3 DEF Files, Saves, NewFile, TypeInv, Typed
  <2>4. CASE f = "meta"
    BY <1>1, <1>2, <2>4 DEF Files, Saves, NewFile, TypeInv, Typed
  <2>5. QED
    BY <1>2, <2>1, <2>2, <2>3, <2>4 DEF FileNames
<1>4. saving' = NoSave \/ saving' \in Saves
  BY <1>1, AtWork DEF WriteFile
<1>5. saving'.left \in Seq(FileNames)
  <2>1. CASE saving' = NoSave
    BY <2>1 DEF NoSave
  <2>2. CASE saving' \in Saves
    BY <2>2, OneByOne DEF Saves
  <2>3. QED
    BY <1>4, <2>1, <2>2
<1>6. kept' \in [Agents -> SUBSET Number]
  BY KnownTyped DEF WriteFile, TypeInv, TypeOK
<1>7. DOMAIN files' = FileNames
  BY <1>1 DEF TypeInv, TypeOK
<1>8. QED
  BY <1>3, <1>4, <1>5, <1>6, <1>7 DEF WriteFile, TypeInv, TypeOK, Typed, memory

LEMMA SummariseTyped ==
  ASSUME TypeInv, NEW a \in Agents, NEW left \in SUBSET Agents,
         NEW c \in ByAgent, Summarise(a, left, c)
  PROVE  summary' \in [agent : Agents \cup {Human}, left : SUBSET Agents,
                      conv : Conversation]
BY DEF Summarise, ByAgent

LEMMA NothingTyped ==
  Nothing \in [agent : Agents \cup {Human}, left : SUBSET Agents, conv : Conversation]
BY DEF Nothing, Conversation

LEMMA SummaryTyped ==
  ASSUME TypeInv, SummaryStarts \/ SummaryEnds \/ SummaryCancelled
  PROVE  TypeInv'
<1> USE DEF memory, disk, history
<1>1. conv \in ByAgent /\ summary.left \in SUBSET Agents /\ summary.conv \in Conversation
  BY DEF TypeInv, TypeOK, ByAgent
<1>2. CASE SummaryStarts
  BY <1>1, <1>2, SummariseTyped DEF SummaryStarts, TypeInv, TypeOK, Typed
<1>3. CASE SummaryCancelled
  BY <1>3, NothingTyped DEF SummaryCancelled, TypeInv, TypeOK, Typed
<1>4. CASE SummaryEnds
  <2>1. conv' \in ByAgent
    BY <1>1, <1>4 DEF SummaryEnds, ByAgent
  <2>2. summary' \in [agent : Agents \cup {Human}, left : SUBSET Agents,
                     conv : Conversation]
    BY <1>1, <1>4, SummariseTyped, NothingTyped DEF SummaryEnds
  <2>3. /\ saves' \in 0..MaxSaves
        /\ saving' = saving \/ saving' = [Snapshot EXCEPT !.conversations = conv']
    BY <1>4, Bounds DEF SummaryEnds, TypeInv, TypeOK
  <2>4. /\ saving' = NoSave \/ saving' \in Saves
        /\ saving'.left \in Seq(FileNames)
    <3>1. CASE saving' = saving
      BY <3>1 DEF TypeInv, TypeOK, Typed
    <3>2. CASE saving' = [Snapshot EXCEPT !.conversations = conv']
      BY <2>1, <3>2, SnapshotIsSave, OneByOne DEF Saves
    <3>3. QED
      BY <2>3, <3>1, <3>2
  <2>5. QED
    BY <1>4, <2>1, <2>2, <2>3, <2>4 DEF SummaryEnds, TypeInv, TypeOK, Typed, ByAgent
<1>5. QED
  BY <1>2, <1>3, <1>4

LEMMA InterruptTyped == ASSUME TypeInv, Interrupt PROVE TypeInv'
<1>1. saving' \in Saves /\ saving'.left \in Seq(FileNames)
  BY SnapshotIsSave DEF Interrupt, TypeInv, TypeOK, ByAgent
<1>2. saves' \in 0..MaxSaves
  BY Bounds DEF Interrupt, TypeInv, TypeOK
<1>3. inflight' \subseteq log'
  BY DEF Interrupt, TypeInv, TypeOK
<1>4. QED
  BY <1>1, <1>2, <1>3 DEF Interrupt, TypeInv, TypeOK, Typed, disk, history

LEMMA CommitTyped == ASSUME TypeInv, CommitRow PROVE TypeInv'
<1>1. Head(rows) \in log /\ \A i \in DOMAIN Tail(rows) : Tail(rows)[i] \in log
  BY DEF CommitRow, TypeInv, TypeOK, Typed
<1>2. Tail(rows) \in Seq(Message) /\ log \subseteq Message
  BY DEF CommitRow, TypeInv, TypeOK
<1>3. TypeOK'
  BY <1>1, <1>2 DEF CommitRow, TypeInv, TypeOK, memory, history
<1>4. QED
  BY <1>1, <1>3 DEF CommitRow, TypeInv, Typed, memory

\* The id after the last one of the table.
LEMMA RestoredIds ==
  ASSUME TypeInv, Numbered
  PROVE  /\ RestoredId \in 1..(sent + 1)
         /\ \A m \in db : m.id < RestoredId
<1> DEFINE S == {0} \cup {m.id : m \in db}
<1>1. S \subseteq Nat /\ S # {} /\ nextId \in Nat /\ sent \in Nat
  BY Bounds DEF TypeInv, TypeOK, Message
<1>2. \A x \in S : x <= nextId - 1
  BY DEF TypeInv, TypeOK, Typed, Numbered, Message
<1>3. nextId - 1 \in Nat /\ nextId - 1 <= sent
  BY <1>1 DEF Numbered
<1>4. Max(S) \in S /\ \A y \in S : y <= Max(S)
  <2> HIDE DEF S
  <2> QED
    BY <1>1, <1>2, <1>3, GreatestExists
<1>5. RestoredId = Max(S) + 1
  BY DEF RestoredId
<1>6. \A m \in db : m.id \in S
  OBVIOUS
<1> HIDE DEF S
<1>7. Max(S) \in 0..sent
  <2>1. Max(S) \in Nat /\ Max(S) <= nextId - 1
    BY <1>1, <1>2, <1>4
  <2>2. QED
    BY <1>1, <1>3, <2>1
<1>8. \A m \in db : m.id <= Max(S) /\ m.id \in Nat
  BY <1>1, <1>4, <1>6
<1>9. QED
  BY <1>1, <1>5, <1>7, <1>8

LEMMA ReopenTyped ==
  ASSUME TypeInv, Numbered, Reopen, conv' \in ByAgent, heard' \subseteq Number,
         inbox' \in [Agents -> SUBSET {m.id : m \in db}], torn' \in BOOLEAN
  PROVE  TypeInv'
<1>1. nextId' \in Nat
  BY RestoredIds, Bounds DEF Reopen, TypeInv, TypeOK
<1>2. IsFiniteSet(log')
  BY FS_Subset DEF Reopen, TypeInv, Typed
<1>3. log' \subseteq Message /\ inbox' \in [Agents -> SUBSET {m.id : m \in log'}]
  BY DEF Reopen, TypeInv, TypeOK
<1>4. rows' = <<>> /\ NoSave.left \in Seq(FileNames)
  BY DEF Reopen, NoSave
<1>5. blurred' \in BOOLEAN
  BY DEF Reopen, TypeInv, TypeOK
<1>6. QED
  BY <1>1, <1>2, <1>3, <1>4, <1>5, NothingTyped DEF Reopen, TypeInv, TypeOK, Typed, ByAgent

LEMMA ResumeTyped == ASSUME TypeInv, Numbered, Resume \/ StartOver PROVE TypeInv'
<1>1. CASE Resume
  <2>1. conv' \in ByAgent /\ heard' \subseteq Number
    BY <1>1 DEF Resume, RestoredHeard, TypeInv, Typed, Files
  <2>2. inbox' \in [Agents -> SUBSET {m.id : m \in db}]
    BY <1>1 DEF Resume, RestoredInbox
  <2>3. torn' \in BOOLEAN
    BY <1>1 DEF Resume, TypeInv, TypeOK
  <2>4. QED
    BY <1>1, <2>1, <2>2, <2>3, ReopenTyped DEF Resume
<1>2. CASE StartOver
  <2>1. conv' \in ByAgent
    BY <1>2 DEF StartOver, Blank, ByAgent, Conversation
  <2>2. QED
    BY <1>2, <2>1, ReopenTyped DEF StartOver, TypeInv, TypeOK
<1>3. QED
  BY <1>1, <1>2

LEMMA InitTyped == Init => TypeInv
<1> SUFFICES ASSUME Init PROVE TypeInv
  OBVIOUS
<1>1. Blank \in ByAgent
  BY DEF Blank, ByAgent, Conversation
<1>2. files \in Files /\ DOMAIN files = FileNames
  BY <1>1 DEF Init, Files, Inboxes, FileNames
<1>3. saving.left \in Seq(FileNames)
  BY DEF Init, NoSave
<1>4. /\ saves \in 0..MaxSaves /\ sent \in 0..MaxMessages /\ crashes \in 0..MaxCrashes
      /\ conv \in [Agents -> Conversation]
      /\ inbox \in [Agents -> SUBSET {m.id : m \in log}]
      /\ kept \in [Agents -> SUBSET Number] /\ rows \in Seq(Message)
  BY <1>1, Bounds DEF Init, ByAgent
<1>5. TypeOK
  BY <1>2, <1>3, <1>4, NothingTyped DEF Init, TypeOK
<1>6. Typed
  BY <1>2, FS_EmptySet DEF Init, Typed
<1>7. QED
  BY <1>5, <1>6 DEF TypeInv

LEMMA NextTyped == TypeInv /\ Numbered /\ [Next]_vars => TypeInv'
<1> SUFFICES ASSUME TypeInv, Numbered, [Next]_vars PROVE TypeInv'
  OBVIOUS
<1>1. ASSUME NEW a \in Agents, Drain(a) \/ AnswerQuietly(a) \/ Notice(a)
      PROVE  TypeInv'
  BY <1>1, DrainTyped, NoticeTyped
  DEF AnswerQuietly, TypeInv, TypeOK, Typed, disk, history
<1>2. ASSUME NEW a \in Agents, NEW to \in Audiences, AnswerWithSend(a, to \ {a})
      PROVE  TypeInv'
  <2>1. pc' \in [Agents -> {"idle", "model", "sending"}]
    BY <1>2 DEF AnswerWithSend, TypeInv, TypeOK
  <2>2. QED
    BY <1>2, <2>1, PostTyped, Bounds DEF AnswerWithSend
<1>3. ASSUME NEW to \in Audiences, HumanSend(to) PROVE TypeInv'
  BY <1>3, PostTyped, Bounds DEF HumanSend, TypeInv, TypeOK
<1>4. CASE Crash
  <2>1. crashes' \in 0..MaxCrashes
    BY <1>4, Bounds DEF Crash, TypeInv, TypeOK
  <2>2. TypeOK'
    BY <1>4, <2>1 DEF Crash, TypeInv, TypeOK, memory, disk, history
  <2>3. QED
    BY <1>4, <2>2 DEF Crash, TypeInv, Typed, memory, disk
<1>5. CASE UNCHANGED vars
  BY <1>5 DEF vars, TypeInv, TypeOK, Typed, memory, disk, history
<1>6. QED
  BY <1>1, <1>2, <1>3, <1>4, <1>5, PublishTyped, CommitTyped, FlushTyped, WriteFileTyped,
     SummaryTyped, InterruptTyped, ResumeTyped DEF Next

----------------------------------------------------------------------------
(* The log, its table, and the numbers of messages. *)

LogInv == TypeInv /\ Numbered /\ Queued /\ Ranked

logged == <<log, nextId, rows, db, sent, blurred>>

LEMMA MessageTyped ==
  ASSUME TypeInv
  PROVE  /\ \A m \in log : m.n \in Nat /\ m.id \in Nat /\ m.seq \in Nat /\ m.notice \in BOOLEAN
         /\ db \subseteq log /\ sent \in Nat /\ nextId \in Nat /\ rows \in Seq(Message)
         /\ DOMAIN rows = 1..Len(rows) /\ Len(rows) \in Nat
         /\ \A i \in 1..Len(rows) : rows[i] \in log
<1>1. \A m \in log : m.n \in Nat /\ m.id \in Nat /\ m.seq \in Nat /\ m.notice \in BOOLEAN
  BY DEF TypeInv, TypeOK, Message, Number
<1>2. rows \in Seq(Message) /\ sent \in Nat /\ nextId \in Nat
  BY Bounds DEF TypeInv, TypeOK
<1>3. DOMAIN rows = 1..Len(rows) /\ Len(rows) \in Nat
  BY <1>2
<1>4. QED
  BY <1>1, <1>2, <1>3 DEF TypeInv, Typed

\* A message that is sent, or given as a notice, is the last.
LEMMA LogGrows ==
  ASSUME LogInv, NEW m \in Message,
         m.n = sent + 1, m.id = nextId, m.seq = Cardinality(log),
         log' = log \cup {m}, sent' = sent + 1, nextId' = nextId + 1,
         db' = db, blurred' = blurred,
         IF m.notice THEN rows' = rows ELSE rows' = Append(rows, m)
  PROVE  Numbered' /\ Queued' /\ Ranked'
<1>1. TypeInv /\ Numbered
  BY DEF LogInv
<1>2. \A x \in log : x.n < m.n /\ x.id < m.id
  BY <1>1, MessageTyped DEF Numbered
<1>3. Numbered'
  <2>1. nextId' \in 1..(sent' + 1)
    BY <1>1, MessageTyped DEF Numbered
  <2>2. \A x \in log' : x.n <= sent' /\ x.id < nextId'
    BY <1>1, MessageTyped DEF Numbered
  <2>3. \A x, y \in log' : x.id = y.id \/ x.n = y.n => x = y
    BY <1>1, <1>2, MessageTyped DEF Numbered
  <2>4. QED
    BY <2>1, <2>2, <2>3 DEF Numbered
<1>4. Queued'
  <2>1. Queued /\ m \notin log
    BY <1>1, <1>2, MessageTyped DEF LogInv
  <2>2. CASE m.notice
    BY <2>1, <2>2 DEF Queued
  <2>3. CASE ~m.notice
    <3>1. /\ DOMAIN rows' = 1..(Len(rows) + 1)
          /\ \A i \in 1..Len(rows) : rows'[i] = rows[i]
          /\ rows'[Len(rows) + 1] = m
      BY <1>1, <2>3, MessageTyped
    <3>2. \A i \in DOMAIN rows' : rows'[i] \notin db /\ ~rows'[i].notice
      BY <1>1, <2>1, <2>3, <3>1, MessageTyped DEF Queued
    <3>3. \A i \in DOMAIN rows' : \A x \in db : x.n < rows'[i].n
      BY <1>1, <1>2, <2>1, <3>1, MessageTyped DEF Queued
    <3>4. \A i, j \in DOMAIN rows' : i < j => rows'[i].n < rows'[j].n
      BY <1>1, <1>2, <2>1, <3>1, MessageTyped DEF Queued
    <3>5. \A x \in log' : x \in db \/ x.notice \/ \E i \in DOMAIN rows' : rows'[i] = x
      BY <1>1, <2>1, <3>1, MessageTyped DEF Queued
    <3>6. QED
      BY <2>1, <3>2, <3>3, <3>4, <3>5 DEF Queued
  <2>4. QED
    BY <2>2, <2>3
<1>5. Ranked'
  <2>1. SUFFICES ASSUME ~blurred, NEW x \in log'
                 PROVE  x.seq = Cardinality({y \in log' : y.n < x.n})
    BY DEF Ranked
  <2>2. CASE x \in log
    <3>1. {y \in log' : y.n < x.n} = {y \in log : y.n < x.n}
      BY <1>1, <1>2, <2>2, MessageTyped
    <3>2. QED
      BY <2>1, <2>2, <3>1 DEF LogInv, Ranked
  <2>3. CASE x = m
    <3>1. {y \in log' : y.n < x.n} = log
      BY <1>1, <1>2, <2>3, MessageTyped
    <3>2. QED
      BY <2>3, <3>1
  <2>4. QED
    BY <2>2, <2>3
<1>6. QED
  BY <1>3, <1>4, <1>5

LEMMA PostLogs ==
  ASSUME LogInv, NEW author \in Agents \cup {Human}, NEW to \in SUBSET Agents,
         Post(author, to)
  PROVE  Numbered' /\ Queued' /\ Ranked'
<1> DEFINE m == Stamped(author, to, FALSE)
<1>1. m \in Message
  BY StampedIsMessage DEF Post, LogInv
<1>2. /\ log' = log \cup {m} /\ sent' = sent + 1 /\ nextId' = nextId + 1
      /\ db' = db /\ blurred' = blurred /\ rows' = Append(rows, m)
  BY DEF Post, history
<1>3. m.n = sent + 1 /\ m.id = nextId /\ m.seq = Cardinality(log) /\ ~m.notice
  BY DEF Stamped, NextSeq
<1> HIDE DEF m
<1>4. QED
  BY <1>1, <1>2, <1>3, LogGrows

LEMMA NoticeLogs ==
  ASSUME LogInv, NEW a \in Agents, Notice(a)
  PROVE  Numbered' /\ Queued' /\ Ranked'
<1> DEFINE m == Stamped(Human, {a}, TRUE)
<1>1. m \in Message
  BY StampedIsMessage DEF Notice, LogInv
<1>2. /\ log' = log \cup {m} /\ sent' = sent + 1 /\ nextId' = nextId + 1
      /\ db' = db /\ blurred' = blurred /\ rows' = rows
  BY DEF Notice, disk, history
<1>3. m.n = sent + 1 /\ m.id = nextId /\ m.seq = Cardinality(log) /\ m.notice
  BY DEF Stamped, NextSeq
<1> HIDE DEF m
<1>4. QED
  BY <1>1, <1>2, <1>3, LogGrows

LEMMA CommitLogs == ASSUME LogInv, CommitRow PROVE Numbered' /\ Queued' /\ Ranked'
<1>1. /\ db' = db \cup {rows[1]} /\ Len(rows) # 0
      /\ UNCHANGED <<log, nextId, sent, blurred>>
  BY DEF CommitRow, memory, history
<1>2. /\ DOMAIN rows' = 1..(Len(rows) - 1)
      /\ \A i \in 1..(Len(rows) - 1) : rows'[i] = rows[i + 1]
  BY MessageTyped DEF CommitRow, LogInv
<1>3. TypeInv /\ Queued
  BY DEF LogInv
<1>4. \A i \in DOMAIN rows' : /\ i + 1 \in DOMAIN rows /\ 1 \in DOMAIN rows
                              /\ i \in Nat /\ 1 < i + 1 /\ rows'[i] = rows[i + 1]
  BY <1>1, <1>2, <1>3, MessageTyped
<1>5. Queued'
  <2>1. \A x \in log : x \in db' \/ x.notice \/ \E i \in DOMAIN rows' : rows'[i] = x
    <3>1. SUFFICES ASSUME NEW x \in log, ~x.notice, x \notin db'
                   PROVE  \E i \in DOMAIN rows' : rows'[i] = x
      OBVIOUS
    <3>2. PICK i \in 1..Len(rows) : rows[i] = x
      BY <1>1, <1>3, <3>1, MessageTyped DEF Queued
    <3>3. i - 1 \in 1..(Len(rows) - 1) /\ rows'[i - 1] = rows[i]
      BY <1>1, <1>2, <1>3, <3>1, <3>2, MessageTyped
    <3>4. QED
      BY <1>2, <3>2, <3>3
  <2>2. \A i \in DOMAIN rows' : /\ rows[1].n < rows'[i].n /\ ~rows'[i].notice
                                /\ rows'[i] \notin db
    BY <1>3, <1>4 DEF Queued
  <2>3. \A i \in DOMAIN rows' : rows'[i] \notin db'
    BY <1>1, <1>3, <2>2, MessageTyped
  <2>4. \A i \in DOMAIN rows' : \A x \in db' : x.n < rows'[i].n
    BY <1>1, <1>2, <1>3, <1>4, <2>2, MessageTyped DEF Queued
  <2>5. \A i, j \in DOMAIN rows' : i < j => rows'[i].n < rows'[j].n
    <3>1. TAKE i, j \in DOMAIN rows'
    <3>2. HAVE i < j
    <3>3. i + 1 < j + 1
      BY <1>4, <3>2
    <3>4. QED
      BY <1>3, <1>4, <3>3 DEF Queued
  <2>6. \A x \in db' : ~x.notice
    BY <1>1, <1>3, MessageTyped DEF Queued
  <2>7. QED
    BY <1>1, <2>1, <2>2, <2>3, <2>4, <2>5, <2>6 DEF Queued
<1>6. QED
  BY <1>1, <1>5 DEF LogInv, Numbered, Ranked

\* What a restart keeps of the log is a beginning of it, but for notices.
LEMMA ReopenLogs == ASSUME LogInv, Reopen PROVE Numbered' /\ Queued' /\ Ranked'
<1>1. TypeInv /\ Numbered /\ Queued /\ Ranked
  BY DEF LogInv
<1>2. /\ log' = db /\ db' = db /\ rows' = <<>> /\ sent' = sent /\ nextId' = RestoredId
      /\ blurred' = (blurred \/ \E m \in log : m.notice)
  BY DEF Reopen
<1>3. Numbered'
  BY <1>1, <1>2, RestoredIds, MessageTyped DEF Numbered
<1>4. Queued'
  BY <1>1, <1>2 DEF Queued
<1>5. Ranked'
  <2>1. SUFFICES ASSUME ~blurred', NEW x \in db
                 PROVE  x.seq = Cardinality({y \in db : y.n < x.n})
    BY <1>2 DEF Ranked
  <2>2. {y \in db : y.n < x.n} = {y \in log : y.n < x.n}
    <3>1. SUFFICES ASSUME NEW y \in log, y.n < x.n PROVE y \in db
      BY <1>1, MessageTyped
    <3>2. ~y.notice
      BY <1>2, <2>1
    <3>3. \A i \in DOMAIN rows : rows[i] # y
      BY <1>1, <3>1, MessageTyped DEF Queued
    <3>4. QED
      BY <1>1, <3>2, <3>3 DEF Queued
  <2>3. QED
    BY <1>1, <1>2, <2>1, <2>2, MessageTyped DEF Ranked
<1>6. QED
  BY <1>3, <1>4, <1>5

LEMMA InitLogs == Init => LogInv
<1> SUFFICES ASSUME Init PROVE LogInv
  OBVIOUS
<1>1. Numbered /\ Ranked
  BY DEF Init, Numbered, Ranked
<1>2. Queued
  BY DEF Init, Queued
<1>3. QED
  BY <1>1, <1>2, InitTyped DEF LogInv

LEMMA NextLogs == LogInv /\ [Next]_vars => LogInv'
<1> SUFFICES ASSUME LogInv, [Next]_vars PROVE LogInv'
  OBVIOUS
<1>1. TypeInv'
  BY NextTyped DEF LogInv
<1>2. CASE UNCHANGED logged
  BY <1>1, <1>2 DEF LogInv, logged, Numbered, Queued, Ranked
<1>3. ASSUME NEW a \in Agents, Notice(a) PROVE LogInv'
  BY <1>1, <1>3, NoticeLogs DEF LogInv
<1>4. ASSUME NEW a \in Agents, NEW to \in Audiences, AnswerWithSend(a, to \ {a})
      PROVE  LogInv'
  BY <1>1, <1>4, PostLogs, Bounds DEF LogInv, AnswerWithSend
<1>5. ASSUME NEW to \in Audiences, HumanSend(to) PROVE LogInv'
  BY <1>1, <1>5, PostLogs, Bounds DEF LogInv, HumanSend
<1>6. CASE CommitRow
  BY <1>1, <1>6, CommitLogs DEF LogInv
<1>7. CASE Resume \/ StartOver
  BY <1>1, <1>7, ReopenLogs DEF LogInv, Resume, StartOver
<1>8. ASSUME NEW a \in Agents, Drain(a) \/ AnswerQuietly(a) PROVE UNCHANGED logged
  BY <1>8 DEF Drain, AnswerQuietly, logged, disk, history
<1>9. ASSUME NEW m \in inflight, Publish(m) PROVE UNCHANGED logged
  BY <1>9 DEF Publish, logged, disk, history
<1>10. CASE Flush \/ WriteFile \/ SummaryStarts \/ SummaryEnds \/ SummaryCancelled \/ Interrupt
  BY <1>2, <1>10 DEF Flush, WriteFile, SummaryStarts, SummaryEnds, SummaryCancelled,
     Interrupt, logged, memory, disk, history
<1>11. CASE Crash \/ UNCHANGED vars
  BY <1>2, <1>11 DEF Crash, vars, logged, memory, disk, history
<1>12. QED
  BY <1>2, <1>3, <1>4, <1>5, <1>6, <1>7, <1>8, <1>9, <1>10, <1>11 DEF Next

\* The log is finite, so what is before a message is less than what is before a later one.
LEMMA RanksOrder == LogInv => LogIsNumbered
<1> SUFFICES ASSUME LogInv PROVE LogIsNumbered
  OBVIOUS
<1>1. TypeInv /\ Numbered /\ Ranked /\ IsFiniteSet(log)
  BY DEF LogInv, TypeInv, Typed
<1>2. IdsNameOneMessage
  BY <1>1 DEF IdsNameOneMessage, Numbered
<1>3. ASSUME ~blurred, NEW x \in log, NEW y \in log, x.n < y.n
      PROVE  x.seq < y.seq
  <2> DEFINE X == {z \in log : z.n < x.n}
             Y == {z \in log : z.n < y.n}
  <2>1. X \in SUBSET Y /\ Y \in SUBSET log /\ x \in Y /\ x \notin X
    BY <1>1, <1>3, MessageTyped
  <2>2. IsFiniteSet(Y) /\ IsFiniteSet(X)
    BY <1>1, <2>1, FS_Subset
  <2>3. Cardinality(X) <= Cardinality(Y) /\ Cardinality(X) # Cardinality(Y)
    BY <2>1, <2>2, FS_Subset
  <2>4. Cardinality(X) \in Nat /\ Cardinality(Y) \in Nat
    BY <2>2, FS_CardinalityType
  <2>5. x.seq = Cardinality(X) /\ y.seq = Cardinality(Y)
    BY <1>1, <1>3 DEF Ranked
  <2> HIDE DEF X, Y
  <2>6. QED
    BY <2>3, <2>4, <2>5
<1>4. QED
  BY <1>2, <1>3 DEF LogIsNumbered, SeqOrdersTheLog

----------------------------------------------------------------------------
(* What a crash may and may not lose. *)

Faithful == KeptUnread /\ FitTogether /\ ResumeIsFaithful
RecoveryInv == LogInv /\ NotYet /\ Behind /\ Written /\ Faithful

LEMMA Parts ==
  ASSUME RecoveryInv
  PROVE  /\ LogInv /\ TypeInv /\ Numbered /\ Queued /\ NotYet /\ Behind /\ Written
         /\ KeptUnread /\ FitTogether /\ TornSaveLosesNothing /\ ResumedInStep
BY DEF RecoveryInv, LogInv, Faithful, ResumeIsFaithful

\* A message is unread where its id is.
LEMMA UnreadById ==
  ASSUME TypeInv, Numbered, NEW a \in Agents, NEW m \in log
  PROVE  m.n \in Unread(a) <=> m.id \in inbox[a]
BY DEF Numbered, Unread

\* What the invariant is about.
recovered == <<log, db, inbox, inflight, conv, heard, summary, saving, files, sent, saves,
               kept, torn>>

LEMMA NothingToRecover == ASSUME RecoveryInv, LogInv', UNCHANGED recovered PROVE RecoveryInv'
<1>1. (NotYet /\ Behind /\ Written)'
  BY Parts DEF recovered, NotYet, Pending, Behind, Written, Unwritten
<1>2. (KeptUnread /\ FitTogether)'
  BY Parts DEF recovered, KeptUnread, FitTogether, Unread, InboxOnDisk, Whole
<1>3. ResumeIsFaithful'
  BY Parts DEF recovered, ResumeIsFaithful, TornSaveLosesNothing, ResumedInStep, OnDisk,
     Known, Unread, NothingReadTwice, WhatWasSaidWasHeard
<1>4. QED
  BY <1>1, <1>2, <1>3 DEF RecoveryInv, Faithful

\* A new message, sent or put into an inbox as a notice.
LEMMA NewMessageKeeps ==
  ASSUME RecoveryInv, LogInv', NEW m, m \notin log,
         m.n = sent + 1, m.id = nextId, m.notice \in BOOLEAN,
         saving = NoSave, log' = log \cup {m}, sent' = sent + 1,
         inflight' = IF m.notice THEN inflight ELSE inflight \cup {m},
         \A a \in Agents : \/ inbox'[a] = inbox[a]
                           \/ m.notice /\ inbox'[a] = inbox[a] \cup {m.id},
         UNCHANGED <<db, conv, heard, summary, saving, files, saves, kept, torn>>
  PROVE  RecoveryInv'
<1>1. TypeInv /\ Numbered /\ NotYet /\ sent \in Nat
  BY Parts, MessageTyped
<1>2. \A x \in log : x.n # m.n /\ x.id # m.id
  BY <1>1, MessageTyped DEF Numbered
<1>3. \A a \in Agents : m.id \notin inbox[a]
  BY <1>1, <1>2 DEF TypeInv, TypeOK
<1>4. \A a \in Agents : m.n \notin kept[a] \cup conv[a].read \cup files.conversations.data[a].read
  BY <1>1 DEF NotYet
<1>5. \A a \in Agents : \A x \in log : x.id \in inbox'[a] <=> x.id \in inbox[a]
  BY <1>2
<1>6. NotYet'
  <2>1. \A a \in Agents : /\ kept[a] \subseteq 1..sent'
                          /\ conv[a].read \subseteq 1..sent'
                          /\ files.conversations.data[a].read \subseteq 1..sent'
    BY <1>1 DEF NotYet
  <2>2. \A x \in Pending', a \in Agents :
            /\ x.id \notin inbox'[a]
            /\ x.n \notin kept[a] \cup conv[a].read
            /\ x.n \notin files.conversations.data[a].read
    <3>1. TAKE x \in Pending', a \in Agents
    <3>2. CASE x = m
      <4>1. ~m.notice
        BY <1>1, <3>1, <3>2 DEF Pending, TypeInv, TypeOK
      <4>2. QED
        BY <1>3, <1>4, <3>2, <4>1
    <3>3. CASE x # m
      <4>1. x \in Pending /\ x \in log
        BY <1>1, <3>1, <3>3 DEF Pending, TypeInv, TypeOK
      <4>2. QED
        BY <1>1, <1>5, <4>1 DEF NotYet
    <3>4. QED
      BY <3>2, <3>3
  <2>3. \A x \in log', a \in Agents : x.notice /\ x.id \in inbox'[a] => x.n \notin conv[a].read
    BY <1>1, <1>4, <1>5 DEF NotYet
  <2>4. QED
    BY <2>1, <2>2, <2>3 DEF NotYet
<1>7. (Behind /\ Written)'
  BY Parts DEF Behind, Written
<1>8. \A a \in Agents : Unread(a)' \subseteq Unread(a) \cup {m.n}
  BY <1>5 DEF Unread
<1>9. (KeptUnread /\ FitTogether)'
  BY <1>4, <1>8, Parts DEF KeptUnread, FitTogether, InboxOnDisk, Whole
<1>10. ResumeIsFaithful'
  <2>1. TornSaveLosesNothing'
    BY <1>4, <1>8, Parts DEF TornSaveLosesNothing, OnDisk, Known
  <2>2. ResumedInStep'
    BY <1>4, <1>8, Parts DEF ResumedInStep, NothingReadTwice, WhatWasSaidWasHeard
  <2>3. QED
    BY <2>1, <2>2 DEF ResumeIsFaithful
<1>11. QED
  BY <1>6, <1>7, <1>9, <1>10 DEF RecoveryInv, Faithful

LEMMA PostKeeps ==
  ASSUME RecoveryInv, LogInv', Running, NEW author, NEW to, Post(author, to), conv' = conv
  PROVE  RecoveryInv'
<1> DEFINE m == Stamped(author, to, FALSE)
<1>1. m.n = sent + 1 /\ m.id = nextId /\ m.notice = FALSE
  BY DEF Stamped
<1>2. /\ log' = log \cup {m} /\ inflight' = inflight \cup {m} /\ sent' = sent + 1
      /\ UNCHANGED <<inbox, db, heard, summary, saving, files, saves, kept, torn>>
  BY DEF Post, history
<1> HIDE DEF m
<1>3. m \notin log
  BY <1>1, Parts, MessageTyped DEF Numbered
<1>4. QED
  BY <1>1, <1>2, <1>3, NewMessageKeeps DEF Running

LEMMA NoticeKeeps == ASSUME RecoveryInv, LogInv', NEW a \in Agents, Notice(a) PROVE RecoveryInv'
<1> DEFINE m == Stamped(Human, {a}, TRUE)
<1>1. m.n = sent + 1 /\ m.id = nextId /\ m.notice = TRUE
  BY DEF Stamped
<1>2. /\ log' = log \cup {m} /\ sent' = sent + 1 /\ saving = NoSave
      /\ inbox' = [inbox EXCEPT ![a] = @ \cup {m.id}]
      /\ UNCHANGED <<inflight, db, conv, heard, summary, saving, files, saves, kept, torn>>
  BY DEF Notice, Running, disk, history
<1> HIDE DEF m
<1>3. m \notin log
  BY <1>1, Parts, MessageTyped DEF Numbered
<1>4. \A b \in Agents : inbox'[b] = inbox[b] \/ inbox'[b] = inbox[b] \cup {m.id}
  <2>1. inbox \in [Agents -> SUBSET {x.id : x \in log}]
    BY Parts DEF TypeInv, TypeOK
  <2>2. QED
    BY <1>2, <2>1
<1>5. QED
  BY <1>1, <1>2, <1>3, <1>4, NewMessageKeeps

\* What was sent reaches the inboxes, for the first time.
LEMMA PublishKeeps ==
  ASSUME RecoveryInv, LogInv', NEW m \in inflight, Publish(m)
  PROVE  RecoveryInv'
<1>1. TypeInv /\ Numbered /\ Queued /\ NotYet
  BY Parts
<1>2. /\ m \in db /\ m \in log /\ m \in Pending /\ ~m.notice /\ saving = NoSave
      /\ inflight' = inflight \ {m} /\ heard' = heard \cup {m.n}
      /\ UNCHANGED <<log, db, summary, saving, files, sent, saves, kept, torn>>
  BY <1>1 DEF Publish, Running, Pending, Queued, TypeInv, TypeOK, disk, history
<1>3. \A a \in Agents : inbox'[a] = inbox[a] \/ inbox'[a] = inbox[a] \cup {m.id}
  BY DEF Publish
<1>4. \A a \in Agents : /\ conv'[a].read = conv[a].read
                        /\ conv'[a].said = conv[a].said \/ conv'[a].said = conv[a].said \cup {m.n}
  <2>1. TAKE a \in Agents
  <2>2. conv[a] \in Conversation
    BY <1>1 DEF TypeInv, TypeOK
  <2>3. conv'[a] = IF a = m.author THEN [conv[a] EXCEPT !.said = @ \cup {m.n}] ELSE conv[a]
    BY DEF Publish
  <2>4. [conv[a] EXCEPT !.said = conv[a].said \cup {m.n}]
            = [read |-> conv[a].read, said |-> conv[a].said \cup {m.n}]
    BY <2>2, WithSaid
  <2>5. QED
    BY <2>3, <2>4
<1>5. \A x \in log : x # m => x.id # m.id
  BY <1>1, <1>2 DEF Numbered
<1>6. Pending' \subseteq Pending \ {m} /\ Pending \subseteq log
  BY <1>1, <1>2 DEF Pending, TypeInv, TypeOK
<1>7. NotYet'
  <2>1. \A x \in Pending', a \in Agents : x.id \notin inbox'[a]
    BY <1>1, <1>3, <1>5, <1>6 DEF NotYet
  <2>2. \A x \in log, a \in Agents : x.notice /\ x.id \in inbox'[a] => x.n \notin conv[a].read
    BY <1>1, <1>2, <1>3, <1>5 DEF NotYet
  <2>3. QED
    BY <1>1, <1>2, <1>4, <1>6, <2>1, <2>2 DEF NotYet
<1>8. (Behind /\ Written)'
  BY <1>2, <1>4, Parts DEF Behind, Written
<1>9. \A a \in Agents : Unread(a)' \subseteq Unread(a) \cup {m.n}
  BY <1>1, <1>2, <1>3, <1>5 DEF Unread
<1>10. \A a \in Agents : m.n \notin kept[a] \cup conv[a].read
  BY <1>1, <1>2 DEF NotYet
<1>11. (KeptUnread /\ FitTogether)'
  BY <1>2, <1>9, <1>10, Parts DEF KeptUnread, FitTogether, InboxOnDisk, Whole
<1>12. TornSaveLosesNothing'
  BY <1>2, <1>4, <1>9, <1>10, Parts DEF TornSaveLosesNothing, OnDisk, Known
<1>13. ResumedInStep'
  BY <1>2, <1>4, <1>9, <1>10, Parts DEF ResumedInStep, NothingReadTwice, WhatWasSaidWasHeard
<1>14. QED
  BY <1>7, <1>8, <1>11, <1>12, <1>13 DEF RecoveryInv, Faithful, ResumeIsFaithful

\* What is drained is read, or by an attention policy forgotten.
LEMMA DrainKeeps == ASSUME RecoveryInv, LogInv', NEW a \in Agents, Drain(a) PROVE RecoveryInv'
<1>1. TypeInv /\ Numbered /\ NotYet
  BY Parts
<1>2. /\ saving = NoSave
      /\ UNCHANGED <<log, db, inflight, heard, summary, saving, files, sent, saves, kept, torn>>
  BY DEF Drain, Running, disk, history
<1>3. inbox' = [inbox EXCEPT ![a] = {}] /\ inbox \in [Agents -> SUBSET {m.id : m \in log}]
  BY <1>1 DEF Drain, TypeInv, TypeOK
<1>4. \A b \in Agents : Unread(b)' = IF b = a THEN {} ELSE Unread(b)
  BY <1>2, <1>3 DEF Unread
<1>5. \A b \in Agents : /\ conv'[b].said = conv[b].said
                        /\ conv[b].read \subseteq conv'[b].read
                        /\ conv'[b].read \subseteq IF b = a THEN Known(a) ELSE conv[b].read
  BY <1>1, Drained DEF Known
<1>6. \A m \in Pending, b \in Agents : m.n \notin Unread(b)
  BY <1>1, UnreadById DEF NotYet, Pending, TypeInv, TypeOK
<1>7. \A b \in Agents : Unread(b) \subseteq 1..sent
  BY <1>1, MessageTyped DEF Unread, Numbered, TypeInv, TypeOK, Message, Number
<1>8. Pending' = Pending
  BY <1>2 DEF Pending
<1>9. NotYet'
  <2>1. \A b \in Agents : conv'[b].read \subseteq 1..sent
    BY <1>1, <1>5, <1>7 DEF NotYet, Known
  <2>2. \A m \in Pending, b \in Agents : m.id \notin inbox'[b] /\ m.n \notin conv'[b].read
    BY <1>1, <1>3, <1>5, <1>6 DEF NotYet, Known
  <2>3. \A m \in log, b \in Agents : m.notice /\ m.id \in inbox'[b] => m.n \notin conv'[b].read
    BY <1>1, <1>3, <1>5 DEF NotYet
  <2>4. QED
    BY <1>1, <1>2, <1>8, <2>1, <2>2, <2>3 DEF NotYet
<1>10. (Behind /\ Written)'
  BY <1>2, <1>5, Parts DEF Behind, Written
<1>11. (KeptUnread /\ FitTogether)'
  BY <1>2, <1>4, Parts DEF KeptUnread, FitTogether, InboxOnDisk, Whole
<1>12. \A b \in Agents : Known(b)' \subseteq Known(b)
  BY <1>4, <1>5 DEF Known
<1>13. TornSaveLosesNothing'
  BY <1>2, <1>12, Parts DEF TornSaveLosesNothing, OnDisk
<1>14. ResumedInStep'
  BY <1>2, <1>4, <1>5, Parts DEF ResumedInStep, NothingReadTwice, WhatWasSaidWasHeard
<1>15. QED
  BY <1>9, <1>10, <1>11, <1>13, <1>14 DEF RecoveryInv, Faithful, ResumeIsFaithful

LEMMA CommitKeeps == ASSUME RecoveryInv, LogInv', CommitRow PROVE RecoveryInv'
<1> DEFINE r == Head(rows)
<1>1. TypeInv /\ Numbered /\ Queued /\ NotYet
  BY Parts
<1>2. /\ db' = db \cup {r}
      /\ UNCHANGED <<log, inbox, inflight, conv, heard, summary, saving, files, sent, saves,
                     kept, torn>>
  BY DEF CommitRow, memory, history
<1>3. 1 \in DOMAIN rows /\ r = rows[1]
  BY <1>1 DEF CommitRow, TypeInv, TypeOK
<1>4. r \in log /\ r \in Pending
  BY <1>1, <1>3 DEF Queued, TypeInv, Typed, Pending
<1> HIDE DEF r
<1>5. Pending' \subseteq Pending
  BY <1>2 DEF Pending
<1>6. NotYet'
  BY <1>1, <1>2, <1>5 DEF NotYet
<1>7. (Behind /\ Written)'
  BY <1>2, Parts DEF Behind, Written, Unwritten
<1>8. \A a \in Agents : /\ Unread(a)' = Unread(a) /\ Known(a)' = Known(a)
                        /\ InboxOnDisk(a) \subseteq InboxOnDisk(a)'
                        /\ InboxOnDisk(a)' \subseteq InboxOnDisk(a) \cup {r.n}
  BY <1>2 DEF Unread, Known, InboxOnDisk
<1>9. \A a \in Agents : r.n \notin files.conversations.data[a].read
  BY <1>1, <1>4 DEF NotYet
<1>10. KeptUnread'
  BY <1>2, <1>8, Parts DEF KeptUnread
<1>11. FitTogether'
  BY <1>2, <1>8, <1>9, Parts DEF FitTogether, Whole
<1>12. TornSaveLosesNothing'
  BY <1>2, <1>8, Parts DEF TornSaveLosesNothing, OnDisk, InboxOnDisk
<1>13. ResumedInStep'
  BY <1>2, <1>8, Parts DEF ResumedInStep, NothingReadTwice, WhatWasSaidWasHeard
<1>14. QED
  BY <1>6, <1>7, <1>10, <1>11, <1>12, <1>13 DEF RecoveryInv, Faithful, ResumeIsFaithful

\* A step that may only forget, and may begin a checkpoint.
LEMMA ForgettingKeeps ==
  ASSUME RecoveryInv, LogInv', saving = NoSave,
         UNCHANGED <<log, db, inbox, heard, files, sent, kept, torn>>,
         inflight' \subseteq inflight, Behind',
         \A a \in Agents : /\ conv'[a].read \subseteq conv[a].read
                           /\ conv'[a].said \subseteq conv[a].said,
         \/ saving' = saving /\ saves' = saves
         \/ saving' = [Snapshot EXCEPT !.conversations = conv'] /\ saves' = saves + 1
  PROVE  RecoveryInv'
<1>1. Pending' \subseteq Pending
  BY DEF Pending
<1>2. NotYet'
  BY <1>1, Parts DEF NotYet
<1>3. Written'
  <2>1. saves \in Nat /\ \A f \in FileNames : files[f].version \in Nat /\ files[f].version <= saves
    <3>1. saves \in Nat /\ files \in Files
      BY Parts, Bounds DEF TypeInv, TypeOK, Typed
    <3>2. QED
      BY <3>1, Parts DEF Files, FileNames, Written
  <2>2. CASE saving' = saving /\ saves' = saves
    BY <2>1, <2>2 DEF Written
  <2>3. CASE saving' = [Snapshot EXCEPT !.conversations = conv'] /\ saves' = saves + 1
    <3>1. /\ saving'.version = saves + 1 /\ saving'.conversations = conv'
          /\ saving'.protocol = heard /\ saving'.inbox = inbox /\ saving'.left = FileOrder
      BY <2>3 DEF Snapshot
    <3>2. Unwritten' = FileNames
      BY <3>1, FromFirst DEF Unwritten
    <3>3. QED
      BY <2>1, <2>3, <3>1, <3>2 DEF Written
  <2>4. QED
    BY <2>2, <2>3
<1>4. \A a \in Agents : Unread(a)' = Unread(a) /\ Known(a)' \subseteq Known(a)
  BY DEF Unread, Known
<1>5. (KeptUnread /\ FitTogether)'
  BY <1>4, Parts DEF KeptUnread, FitTogether, InboxOnDisk, Whole
<1>6. TornSaveLosesNothing'
  BY <1>4, Parts DEF TornSaveLosesNothing, OnDisk
<1>7. ResumedInStep'
  BY <1>4, Parts DEF ResumedInStep, NothingReadTwice, WhatWasSaidWasHeard
<1>8. QED
  BY <1>2, <1>3, <1>5, <1>6, <1>7 DEF RecoveryInv, Faithful, ResumeIsFaithful

LEMMA SnapshotOfNow ==
  ASSUME conv' = conv
  PROVE  Snapshot = [Snapshot EXCEPT !.conversations = conv']
BY DEF Snapshot

LEMMA FlushKeeps == ASSUME RecoveryInv, LogInv', Flush \/ Interrupt PROVE RecoveryInv'
<1>1. /\ saving = NoSave /\ conv' = conv /\ inflight' \subseteq inflight
      /\ saving' = Snapshot /\ saves' = saves + 1
      /\ UNCHANGED <<log, db, inbox, heard, summary, files, sent, kept, torn>>
  BY DEF Flush, Interrupt, Running, memory, disk, history
<1>2. Behind'
  BY <1>1, Parts DEF Behind
<1>3. QED
  BY <1>1, <1>2, SnapshotOfNow, ForgettingKeeps

LEMMA SummaryKeeps ==
  ASSUME RecoveryInv, LogInv', SummaryStarts \/ SummaryEnds \/ SummaryCancelled
  PROVE  RecoveryInv'
<1>1. Behind /\ conv \in [Agents -> Conversation] /\ Human \notin Agents
  BY Parts, Bounds DEF TypeInv, TypeOK
<1>2. CASE SummaryStarts
  <2>1. /\ saving = NoSave /\ saving' = saving /\ saves' = saves
        /\ UNCHANGED <<log, db, inbox, inflight, conv, heard, files, sent, kept, torn>>
    BY <1>2 DEF SummaryStarts, Running, disk, history
  <2>2. Behind'
    BY <1>2, <2>1 DEF SummaryStarts, Summarise, Behind
  <2>3. QED
    BY <2>1, <2>2, ForgettingKeeps
<1>3. CASE SummaryCancelled
  <2>1. /\ saving = NoSave /\ saving' = saving /\ saves' = saves
        /\ UNCHANGED <<log, db, inbox, inflight, conv, heard, files, sent, kept, torn>>
    BY <1>3 DEF SummaryCancelled, Running, disk, history
  <2>2. Behind'
    BY <1>1, <1>3 DEF SummaryCancelled, Nothing, Behind
  <2>3. QED
    BY <2>1, <2>2, ForgettingKeeps
<1>4. CASE SummaryEnds
  <2>1. /\ saving = NoSave
        /\ UNCHANGED <<log, db, inbox, inflight, heard, files, sent, kept, torn>>
    BY <1>4 DEF SummaryEnds, Running, disk, history
  <2>2. \A a \in Agents : conv'[a] = IF a = summary.agent THEN summary.conv ELSE conv[a]
    BY <1>1, <1>4 DEF SummaryEnds
  <2>3. \A a \in Agents : /\ conv'[a].read \subseteq conv[a].read
                          /\ conv'[a].said \subseteq conv[a].said
    BY <1>1, <2>2 DEF Behind
  <2>4. \/ saving' = saving /\ saves' = saves
        \/ saving' = [Snapshot EXCEPT !.conversations = conv'] /\ saves' = saves + 1
    BY <1>4 DEF SummaryEnds
  <2>5. Behind'
    <3>1. CASE summary' = Nothing
      BY <1>1, <3>1 DEF Nothing, Behind
    <3>2. ASSUME NEW b \in summary.left, Summarise(b, summary.left, conv) PROVE Behind'
      <4>1. /\ summary'.agent = b /\ summary'.left = summary.left \ {b}
            /\ summary'.conv = conv[b]
        BY <3>2 DEF Summarise
      <4>2. b \in Agents /\ b # summary.agent
        BY <1>1, <3>2, Parts DEF Behind, TypeInv, TypeOK
      <4>3. conv'[b] = conv[b]
        BY <2>2, <4>2
      <4>4. QED
        BY <4>1, <4>3 DEF Behind
    <3>3. QED
      BY <1>4, <3>1, <3>2 DEF SummaryEnds
  <2>6. QED
    BY <2>1, <2>3, <2>4, <2>5, ForgettingKeeps
<1>5. QED
  BY <1>2, <1>3, <1>4

\* One file is replaced; the memory stands still.
LEMMA WriteFileKeeps == ASSUME RecoveryInv, LogInv', WriteFile PROVE RecoveryInv'
<1> DEFINE f == Head(saving.left)
<1>1. TypeInv /\ Numbered /\ NotYet /\ Written /\ TypeInv'
  BY Parts DEF LogInv
<1>2. /\ saving # NoSave
      /\ files' = [files EXCEPT ![f] = NewFile(f)]
      /\ saving' = IF Len(saving.left) = 1 THEN NoSave ELSE [saving EXCEPT !.left = Tail(@)]
      /\ kept' = IF Len(saving.left) = 1 THEN [a \in Agents |-> Saved(a)] ELSE kept
      /\ UNCHANGED <<log, db, inbox, inflight, conv, heard, summary, sent, saves, torn>>
  BY DEF WriteFile, NewFile, memory
<1>3. /\ saving \in Saves /\ saving.left \in Lefts /\ f \in FileNames
      /\ DOMAIN files = FileNames /\ saves \in Nat
  BY <1>1, <1>2, AtWork, Bounds DEF Saves, TypeInv, TypeOK
<1>4. /\ "meta" \in Unwritten
      /\ Len(saving.left) # 1 => f # "meta" /\ FilesOf(Tail(saving.left)) = Unwritten \ {f}
      /\ Len(saving.left) = 1 => f = "meta" /\ Unwritten = {"meta"}
  BY <1>3, OneByOne DEF Unwritten
<1>5. /\ saving.version = saves /\ saving.conversations = conv
      /\ saving.protocol = heard /\ saving.inbox = inbox
      /\ \A g \in FileNames : files[g].version <= saves
      /\ \A g \in Unwritten : files[g].version < saves
      /\ \A g \in FileNames \ Unwritten : /\ files[g].version = saves
                                          /\ g # "meta" => files[g].data = saving[g]
  BY <1>1, <1>2 DEF Written
<1>6. /\ files'[f] = NewFile(f)
      /\ \A g \in FileNames : g # f => files'[g] = files[g]
  BY <1>2, <1>3
<1>7. NewFile(f).version = saves /\ (f # "meta" => NewFile(f).data = saving[f])
  BY <1>5 DEF NewFile
<1> HIDE DEF f
<1>8. \A g \in FileNames : files'[g].version <= saves
  BY <1>3, <1>5, <1>6, <1>7
<1>9. \A g \in FileNames \ (Unwritten \ {f}) :
          files'[g].version = saves /\ (g # "meta" => files'[g].data = saving[g])
  <2>1. TAKE g \in FileNames \ (Unwritten \ {f})
  <2>2. CASE g = f
    BY <1>6, <1>7, <2>2
  <2>3. CASE g # f
    <3>1. g \in FileNames \ Unwritten /\ files'[g] = files[g]
      BY <1>6, <2>3
    <3>2. files[g].version = saves /\ (g # "meta" => files[g].data = saving[g])
      BY <1>5, <3>1
    <3>3. QED
      BY <3>1, <3>2
  <2>4. QED
    BY <2>2, <2>3
<1>10. Written'
  <2>1. CASE Len(saving.left) = 1
    BY <1>2, <1>8, <2>1 DEF Written
  <2>2. CASE Len(saving.left) # 1
    <3>1. /\ saving'.left = Tail(saving.left) /\ saving'.version = saving.version
          /\ saving'.conversations = saving.conversations
          /\ saving'.protocol = saving.protocol /\ saving'.inbox = saving.inbox
      BY <1>2, <1>3, <2>2 DEF Saves
    <3>2. Unwritten' = Unwritten \ {f}
      BY <1>4, <2>2, <3>1 DEF Unwritten
    <3>3. \A g \in FileNames : g # "meta" => saving'[g] = saving[g]
      BY <3>1 DEF FileNames
    <3>4. \A g \in Unwritten' : files'[g].version < saves
      <4>1. Unwritten \subseteq FileNames
        BY <1>3, OneByOne DEF Unwritten, FilesOf
      <4>2. QED
        BY <1>5, <1>6, <3>2, <4>1
    <3>5. \A g \in FileNames \ Unwritten' :
              files'[g].version = saves /\ (g # "meta" => files'[g].data = saving'[g])
      BY <1>9, <3>2, <3>3
    <3>6. QED
      BY <1>2, <1>5, <1>8, <3>1, <3>4, <3>5 DEF Written
  <2>3. QED
    BY <2>1, <2>2
<1>11. files'.conversations.data = conv
  <2>1. "conversations" \notin Unwritten \ {f}
    <3>1. CASE saving.left = FileOrder
      BY <3>1, FromFirst DEF f
    <3>2. CASE saving.left # FileOrder
      BY <1>3, <3>2, FromSecond, FromThird, FromLast DEF Lefts, Unwritten
    <3>3. QED
      BY <3>1, <3>2
  <2>2. QED
    BY <1>5, <1>9, <2>1 DEF FileNames
<1>12. \A a \in Agents : Unread(a)' = Unread(a) /\ Known(a)' = Known(a)
  BY <1>2 DEF Unread, Known
<1>13. \A a \in Agents, m \in log :
           m.id \in inbox[a] /\ ~m.notice => m \in db
  BY <1>1 DEF NotYet, Pending
<1>14. ASSUME f = "meta" PROVE NotYet' /\ KeptUnread' /\ FitTogether'
  <2>1. Len(saving.left) = 1 /\ Unwritten = {"meta"}
    BY <1>4, <1>14
  <2>2. /\ files'.inbox.data = inbox /\ files'.protocol.data = heard
        /\ kept' = [a \in Agents |-> Saved(a)]
    BY <1>2, <1>5, <1>9, <2>1 DEF FileNames
  <2>3. \A a \in Agents : Saved(a) \subseteq Known(a)
    BY DEF Saved, Known, Unread
  <2>4. \A a \in Agents : Known(a) \subseteq 1..sent
    BY <1>1, MessageTyped DEF Known, Unread, NotYet, Numbered, TypeInv, TypeOK, Message, Number
  <2>5. \A m \in Pending, a \in Agents : m.n \notin Known(a)
    BY <1>1, UnreadById DEF NotYet, Pending, Known, TypeInv, TypeOK
  <2>6. NotYet'
    BY <1>1, <1>2, <1>11, <2>2, <2>3, <2>4, <2>5 DEF NotYet, Pending
  <2>7. KeptUnread'
    <3>1. SUFFICES ASSUME NEW a \in Agents, NEW n \in Saved(a) \cap Unread(a)
                   PROVE  n \in InboxOnDisk(a)'
      BY <1>12, <2>2 DEF KeptUnread
    <3>2. PICK m \in log : m.id \in inbox[a] /\ m.n = n
      BY <3>1 DEF Unread
    <3>3. ~m.notice
      <4>1. n \notin conv[a].read \/ ~m.notice
        BY <1>1, <3>2 DEF NotYet
      <4>2. CASE n \in {x.n : x \in {y \in log : y.id \in inbox[a] /\ ~y.notice}}
        BY <1>1, <3>2, <4>2 DEF Numbered
      <4>3. QED
        BY <3>1, <4>1, <4>2 DEF Saved
    <3>4. m \in db
      BY <1>13, <3>2, <3>3
    <3>5. QED
      BY <1>2, <2>2, <3>2, <3>4 DEF InboxOnDisk
  <2>8. FitTogether'
    <3>1. \A a \in Agents : InboxOnDisk(a)' \subseteq Unread(a)
      BY <1>1, <1>2, <2>2 DEF InboxOnDisk, Unread, TypeInv, Typed
    <3>2. QED
      BY <1>2, <1>11, <2>2, <3>1, Parts
      DEF FitTogether, ResumedInStep, NothingReadTwice, WhatWasSaidWasHeard
  <2>9. QED
    BY <2>6, <2>7, <2>8
<1>15. ASSUME f # "meta" PROVE NotYet' /\ KeptUnread' /\ FitTogether'
  <2>1. kept' = kept
    BY <1>2, <1>4, <1>15
  <2>2. NotYet'
    BY <1>1, <1>2, <1>11, <2>1 DEF NotYet, Pending
  <2>3. KeptUnread'
    <3>1. SUFFICES ASSUME NEW a \in Agents, NEW n \in kept[a] \cap Unread(a)
                   PROVE  n \in InboxOnDisk(a)'
      BY <1>12, <2>1 DEF KeptUnread
    <3>2. PICK x \in db : x.id \in files.inbox.data[a] /\ x.n = n
      BY <3>1, Parts DEF KeptUnread, InboxOnDisk
    <3>3. CASE f = "inbox"
      <4>1. x \in log /\ x.id \in inbox[a]
        BY <1>1, <3>1, <3>2, UnreadById DEF TypeInv, Typed
      <4>2. files'.inbox.data = inbox
        BY <1>5, <1>6, <1>7, <3>3
      <4>3. QED
        BY <1>2, <3>2, <4>1, <4>2 DEF InboxOnDisk
    <3>4. CASE f # "inbox"
      <4>1. files'.inbox = files.inbox
        BY <1>6, <3>4 DEF FileNames
      <4>2. QED
        BY <1>2, <3>2, <4>1 DEF InboxOnDisk
    <3>5. QED
      BY <3>3, <3>4
  <2>4. ~Whole'
    <3>1. files'["meta"].version < saves /\ files'[f].version = saves
      BY <1>4, <1>5, <1>6, <1>7, <1>15 DEF FileNames
    <3>2. files'["meta"].version # files'[f].version
      <4>1. files'["meta"].version \in Nat
        BY <1>1 DEF TypeInv, Typed, Files
      <4>2. QED
        BY <1>3, <3>1, <4>1
    <3>3. QED
      BY <1>3, <3>2 DEF Whole
  <2>5. FitTogether'
    BY <2>4 DEF FitTogether
  <2>6. QED
    BY <2>2, <2>3, <2>5
<1>16. TornSaveLosesNothing'
  <2>1. KeptUnread'
    BY <1>14, <1>15
  <2>2. QED
    BY <1>2, <1>11, <2>1
    DEF KeptUnread, TornSaveLosesNothing, OnDisk, InboxOnDisk, Known
<1>17. Behind' /\ ResumedInStep'
  BY <1>2, <1>12, Parts DEF Behind, ResumedInStep, NothingReadTwice, WhatWasSaidWasHeard
<1>18. QED
  BY <1>10, <1>14, <1>15, <1>16, <1>17 DEF RecoveryInv, Faithful, ResumeIsFaithful

\* What both restarts share: only what the table holds is left of the log.
LEMMA ReopenKeeps ==
  ASSUME RecoveryInv, LogInv', Reopen,
         \A a \in Agents : conv'[a].read \subseteq 1..sent
  PROVE  NotYet' /\ Behind' /\ Written'
<1>1. /\ log' = db /\ db' = db /\ files' = files /\ kept' = kept /\ sent' = sent
      /\ inflight' = {} /\ summary' = Nothing /\ saving' = NoSave /\ saves' = saves
  BY DEF Reopen
<1>2. Pending' = {} /\ \A m \in log' : ~m.notice
  BY <1>1, Parts DEF Pending, Queued
<1>3. NotYet'
  BY <1>1, <1>2, Parts DEF NotYet
<1>4. Behind'
  BY <1>1, Bounds DEF Behind, Nothing
<1>5. Written'
  BY <1>1, Parts DEF Written
<1>6. QED
  BY <1>3, <1>4, <1>5

LEMMA ResumeKeeps == ASSUME RecoveryInv, LogInv', Resume PROVE RecoveryInv'
<1>1. /\ log' = db /\ db' = db /\ files' = files /\ kept' = kept /\ Reopen
      /\ conv' = files.conversations.data /\ heard' = files.protocol.data
      /\ torn' = (torn \/ \E f \in FileNames : files[f].version # files.meta.version)
      /\ \A a \in Agents : inbox'[a] \subseteq files.inbox.data[a]
  BY DEF Resume, Reopen, RestoredInbox, RestoredHeard
<1>2. NotYet' /\ Behind' /\ Written'
  BY <1>1, ReopenKeeps, Parts DEF NotYet
<1>3. \A a \in Agents : /\ InboxOnDisk(a)' = InboxOnDisk(a)
                        /\ Unread(a)' \subseteq InboxOnDisk(a)
  BY <1>1 DEF Unread, InboxOnDisk
<1>4. KeptUnread'
  BY <1>3 DEF KeptUnread
<1>5. ~torn' => ~torn /\ Whole
  BY <1>1 DEF Whole
<1>6. FitTogether'
  BY <1>1, <1>3, <1>5, Parts DEF FitTogether
<1>7. TornSaveLosesNothing'
  BY <1>1, <1>3, <1>4
  DEF TornSaveLosesNothing, KeptUnread, OnDisk, InboxOnDisk, Known
<1>8. ResumedInStep'
  BY <1>1, <1>3, <1>5, Parts DEF FitTogether, ResumedInStep, NothingReadTwice,
     WhatWasSaidWasHeard
<1>9. QED
  BY <1>2, <1>4, <1>6, <1>7, <1>8 DEF RecoveryInv, Faithful, ResumeIsFaithful

LEMMA StartOverKeeps == ASSUME RecoveryInv, LogInv', StartOver PROVE RecoveryInv'
<1>1. /\ db' = db /\ files' = files /\ torn' = torn /\ Reopen /\ heard' = {}
      /\ \A a \in Agents : inbox'[a] = {} /\ conv'[a].read = {} /\ conv'[a].said = {}
  BY DEF StartOver, Reopen, Blank
<1>2. NotYet' /\ Behind' /\ Written'
  BY <1>1, ReopenKeeps
<1>3. \A a \in Agents : Unread(a)' = {} /\ Known(a)' = {}
  BY <1>1 DEF Unread, Known
<1>4. KeptUnread' /\ FitTogether'
  BY <1>1, <1>3, Parts DEF KeptUnread, FitTogether, Whole, InboxOnDisk
<1>5. ResumeIsFaithful'
  BY <1>1, <1>3 DEF ResumeIsFaithful, TornSaveLosesNothing, ResumedInStep, NothingReadTwice,
     WhatWasSaidWasHeard
<1>6. QED
  BY <1>2, <1>4, <1>5 DEF RecoveryInv, Faithful

LEMMA InitKeeps == Init => RecoveryInv
<1> SUFFICES ASSUME Init PROVE RecoveryInv
  OBVIOUS
<1>1. /\ log = {} /\ db = {} /\ inflight = {} /\ saving = NoSave /\ summary = Nothing
      /\ \A a \in Agents : /\ kept[a] = {} /\ conv[a].read = {} /\ conv[a].said = {}
                           /\ files.conversations.data[a].read = {}
                           /\ files.conversations.data[a].said = {}
  BY DEF Init, Blank
<1>2. Pending = {} /\ \A a \in Agents : Unread(a) = {} /\ InboxOnDisk(a) = {}
  BY <1>1 DEF Pending, Unread, InboxOnDisk
<1>3. NotYet
  BY <1>1, <1>2 DEF NotYet
<1>4. Behind
  BY <1>1, Bounds DEF Behind, Nothing
<1>5. Written
  BY DEF Init, Written, FileNames
<1>6. Faithful
  BY <1>1, <1>2 DEF Faithful, KeptUnread, FitTogether, ResumeIsFaithful,
     TornSaveLosesNothing, ResumedInStep, NothingReadTwice, WhatWasSaidWasHeard
<1>7. QED
  BY <1>3, <1>4, <1>5, <1>6, InitLogs DEF RecoveryInv

LEMMA NextKeeps == RecoveryInv /\ [Next]_vars => RecoveryInv'
<1> SUFFICES ASSUME RecoveryInv, [Next]_vars PROVE RecoveryInv'
  OBVIOUS
<1>1. LogInv'
  BY NextLogs DEF RecoveryInv
<1>2. ASSUME NEW a \in Agents, AnswerQuietly(a) PROVE RecoveryInv'
  BY <1>1, <1>2, NothingToRecover DEF AnswerQuietly, recovered, disk, history
<1>3. ASSUME NEW a \in Agents, NEW to \in Audiences, AnswerWithSend(a, to \ {a})
      PROVE  RecoveryInv'
  BY <1>1, <1>3, PostKeeps DEF AnswerWithSend
<1>4. ASSUME NEW to \in Audiences, HumanSend(to) PROVE RecoveryInv'
  BY <1>1, <1>4, PostKeeps DEF HumanSend
<1>5. CASE Crash \/ UNCHANGED vars
  BY <1>1, <1>5, NothingToRecover DEF Crash, vars, recovered, memory, disk, history
<1>6. QED
  BY <1>1, <1>2, <1>3, <1>4, <1>5, DrainKeeps, NoticeKeeps, PublishKeeps, CommitKeeps,
     FlushKeeps, WriteFileKeeps, SummaryKeeps, ResumeKeeps, StartOverKeeps DEF Next

LEMMA RecoveryInvariant == Spec => []RecoveryInv
<1>1. QED
  BY InitKeeps, NextKeeps, PTL DEF Spec

----------------------------------------------------------------------------
\* Type correctness of memory, table and files; every unread id names a
\* message of the log.
THEOREM RecoveryTyped == Spec => []TypeOK
<1>1. RecoveryInv => TypeOK
  BY DEF RecoveryInv, LogInv, TypeInv
<1>2. QED
  BY <1>1, RecoveryInvariant, PTL

\* An id names one message of the log, however often the process crashes, and
\* seqs order the log as long as no restart has forgotten a notice
\* (_load_from_db, inject_agent_notice).
THEOREM LogStaysNumbered == Spec => []LogIsNumbered
<1>1. RecoveryInv => LogIsNumbered
  BY RanksOrder DEF RecoveryInv
<1>2. QED
  BY <1>1, RecoveryInvariant, PTL

\* A crash at any moment, in the middle of a checkpoint or of a summary too,
\* loses nothing the last whole checkpoint held and the agent has not forgotten
\* since, and a resume from one checkpoint repeats nothing (save(),
\* _apply_resume_payload).
THEOREM CrashesLoseNothing == Spec => []ResumeIsFaithful
<1>1. RecoveryInv => ResumeIsFaithful
  BY DEF RecoveryInv, Faithful
<1>2. QED
  BY <1>1, RecoveryInvariant, PTL

=============================================================================
