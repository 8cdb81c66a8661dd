------------------------------ MODULE Gateway -------------------------------
(***************************************************************************)
(* The process around a session: the loop that runs one turn after another *)
(* (gateway/session_stdio.py, gateway/headless.py), and the bridge that    *)
(* takes the commands of the human's surfaces to it while turns come and   *)
(* go (gateway/bridge.py, channels/discord/inbound.py).  Before there is a *)
(* session, a stdio process may plan its team (plan_first, planner.py).    *)
(*                                                                         *)
(* A message of the human is its number; 0 stands for the configured task. *)
(* Which thread a message is routed to makes no difference here, only that *)
(* one is known, which it is once the session is set up.  What an agent    *)
(* does with a message is SessionRun's subject: a turn reads its inboxes   *)
(* as long as it runs.                                                     *)
(***************************************************************************)
EXTENDS Naturals, Sequences, FiniteSets

CONSTANTS
    Fronts,         \* of {"stdio", "headless"}
    Stop,           \* the sentinel that ends the loop
    MaxSaid,        \* bound: messages of the human
    MaxAsked,       \* bound: questions of the agents
    MaxStarts,      \* bound: session.start commands
    MaxInterrupts   \* bound: interrupts

ASSUME GatewayConstants ==
    /\ Fronts \subseteq {"stdio", "headless"}
    /\ {MaxSaid, MaxAsked, MaxStarts, MaxInterrupts} \subseteq Nat
    /\ Stop \notin Nat

VARIABLES
    front,      \* which of the two runners
    at,         \* where its loop is, see Place
    prompt,     \* the prompt of the turn being set up or run
    queue,      \* _next_turn
    running,    \* bridge._running
    setUp,      \* _setup has completed
    interrupted,\* session._interrupt
    quit,       \* _quit
    input,      \* stdin is read, stdio only
    pending,    \* the bridge's unanswered questions
    tasks,      \* messages scheduled by the bridge and not yet sent
    mail,       \* messages in inboxes
    said, asked, starts, interrupts,    \* bounded counters
    accepted,   \* history: messages whose command was answered "queued"
    heard,      \* history: messages that reached a turn's agents or the planner
    deaf        \* history: a turn began by clearing an interrupt meant for it

PlannerPlace == {
          "task",       \* stdio only: the planner waits for a task
          "planning",   \* its model works
          "confirm"}    \* it waits for a yes
Place == PlannerPlace \cup {
          "setup",      \* headless only: _setup before the loop
          "waiting",    \* _next_turn.get()
          "starting",   \* in the first run, in _setup
          "running",    \* in _run_impl
          "after",      \* flush_observers
          "ended", "closed"}

loop == <<at, prompt, running, setUp, interrupted>>
bridge == <<pending, tasks, mail>>
counters == <<said, asked, starts, interrupts>>
history == <<accepted, heard, deaf>>
vars == <<front, loop, queue, quit, input, bridge, counters, history>>

-----------------------------------------------------------------------------
\* The team planner, which reads stdin itself while there is no session.

\* next_content: the next text of the human, which the planner takes, or a
\* skip, which stands for "no".  Lines typed while its model works wait in the
\* pipe.
NextContent ==
    /\ said < MaxSaid
    /\ said' = said + 1
    /\ accepted' = accepted \cup {said + 1}
    /\ heard' = heard \cup {said + 1}

Skipped == UNCHANGED <<said, accepted, heard>>

\* The planner goes on to its next place, and nothing else moves.
PlannerGoes(place) ==
    /\ at' = place
    /\ UNCHANGED <<front, prompt, setUp, interrupted, queue, quit, input, bridge, asked, starts,
                   interrupts, deaf>>

DescribeTask ==
    /\ at = "task"
    /\ NextContent \/ Skipped
    /\ PlannerGoes("planning")
    /\ UNCHANGED running

\* plan_team has a team to ask about; or a second bad reply, a failing model
\* or no usable provider sends the human back to the task.
PlanTeam ==
    /\ at = "planning"
    /\ \E place \in {"confirm", "task"} : PlannerGoes(place)
    /\ UNCHANGED <<running, said, accepted, heard>>

\* classify_answer: no cancels, and whatever is not a yes revises.
ClassifyAnswer ==
    /\ at = "confirm"
    /\ \/ NextContent /\ \E place \in {"task", "planning"} : PlannerGoes(place)
       \/ Skipped /\ PlannerGoes("task")
    /\ UNCHANGED running

\* A yes: the team and its task are the configuration, and a new session opens
\* with it, which runs the task at once unless told not to.
StartTeam(auto) ==
    /\ at = "confirm"
    /\ NextContent
    /\ PlannerGoes(IF auto THEN "starting" ELSE "waiting")
    /\ running' = auto

\* session.quit, or the end of input: there will be no session.
PlanQuit ==
    /\ at \in {"task", "confirm"}
    /\ at' = "closed" /\ quit' = TRUE /\ input' = FALSE
    /\ UNCHANGED <<front, prompt, running, setUp, interrupted, queue, bridge, counters, history>>

PlanFirst ==
    \/ DescribeTask
    \/ PlanTeam
    \/ ClassifyAnswer
    \/ \E auto \in BOOLEAN : StartTeam(auto)
    \/ PlanQuit
-----------------------------------------------------------------------------
\* The loop of turns.

\* _run_impl gives the prompt to the agents, after it has cleared the interrupt;
\* one that is "missed" came after the turn was decided on.
EnterRun(p, missed) ==
    /\ at' = "running"
    /\ prompt' = p
    /\ interrupted' = FALSE
    /\ heard' = heard \cup ({p} \ {0})
    /\ deaf' = (deaf \/ missed)

\* _do_run: the bridge is told that a turn runs, and the turn first awaits
\* _setup, unless that has run.
DoRun(p) ==
    /\ running' = TRUE
    /\ \/ setUp /\ EnterRun(p, FALSE)
       \/ /\ ~setUp
          /\ at' = "starting"
          /\ prompt' = p
          /\ UNCHANGED <<interrupted, heard, deaf>>

\* _setup completes, before the loop or inside the first turn.  Neither looks
\* at _quit before it goes on with the turn.
SetupEnds(auto) ==
    /\ at \in {"setup", "starting"}
    /\ setUp' = TRUE
    /\ \/ at = "starting" /\ EnterRun(prompt, interrupted) /\ UNCHANGED running
       \/ at = "setup" /\ auto /\ EnterRun(0, interrupted) /\ running' = TRUE
       \/ /\ at = "setup" /\ ~auto
          /\ at' = IF quit THEN "ended" ELSE "waiting"
          /\ UNCHANGED <<prompt, running, interrupted, heard, deaf>>
    /\ UNCHANGED <<front, queue, quit, input, bridge, counters, accepted>>

\* A bot cannot connect, or human approval has no surface to ask at: the
\* exception ends the loop.
SetupFails ==
    /\ at \in {"setup", "starting"}
    /\ at' = "ended"
    /\ running' = FALSE
    /\ UNCHANGED <<front, prompt, setUp, interrupted, queue, quit, input, bridge, counters,
                   history>>

\* The next prompt is taken off the queue.
TakeTurn ==
    /\ at = "waiting"
    /\ queue # <<>>
    /\ queue' = Tail(queue)
    /\ IF Head(queue) = Stop \/ quit
       THEN at' = "ended" /\ UNCHANGED <<prompt, running, interrupted, heard, deaf>>
       ELSE DoRun(Head(queue))
    /\ UNCHANGED <<front, setUp, quit, input, bridge, counters, accepted>>

\* Agents read their inboxes, and ask.
ReadMail ==
    /\ at = "running" /\ ~interrupted
    /\ mail # {}
    /\ heard' = heard \cup mail
    /\ mail' = {}
    /\ UNCHANGED <<front, loop, queue, quit, input, pending, tasks, counters, accepted, deaf>>

AskUser ==
    /\ at = "running" /\ ~interrupted
    /\ asked < MaxAsked
    /\ asked' = asked + 1
    /\ pending' = Append(pending, asked + 1)
    /\ UNCHANGED <<front, loop, queue, quit, input, tasks, mail, said, starts, interrupts,
                   history>>

\* A turn ends, of itself or interrupted, and _do_run's finally clears the flag.
\* _quit is then looked at before _after_run, except after a configured task run
\* ahead of the loop; a turn with that task may be this one or a session.start.
TurnEnds ==
    /\ at = "running"
    /\ \/ quit /\ at' = "ended"
       \/ (quit => prompt = 0) /\ at' = "after"
    /\ running' = FALSE
    /\ UNCHANGED <<front, prompt, setUp, interrupted, queue, quit, input, bridge, counters,
                   history>>

AfterRun ==
    /\ at = "after"
    /\ at' = IF quit THEN "ended" ELSE "waiting"
    /\ UNCHANGED <<front, prompt, running, setUp, interrupted, queue, quit, input, bridge,
                   counters, history>>

\* The loop is over, or stdin is: the other task is cancelled wherever it is,
\* and the session closed.
Close ==
    /\ at # "closed"
    /\ at = "ended" \/ (front = "stdio" /\ ~input)
    /\ at' = "closed"
    /\ running' = FALSE
    /\ quit' = TRUE
    /\ UNCHANGED <<front, prompt, setUp, interrupted, queue, input, bridge, counters, history>>
-----------------------------------------------------------------------------
\* Commands.

\* Mutated form of EnqueueTurn: the queue has room for one prompt only, and
\* QueueFull is passed over.
EnqueueTurnIfEmpty(p) == queue' = IF queue = <<>> THEN <<p>> ELSE queue

\* _enqueue_turn.  The put is scheduled on the loop that also reads the queue;
\* nothing comes between.
EnqueueTurn(p) == queue' = Append(queue, p)

\* Commands are read, and handled by the runner.
Reachable == at \notin PlannerPlace \cup {"closed"} /\ (front = "stdio" => input)

\* The next message of the human, and whether its command is accepted.
Said(ok) ==
    /\ said < MaxSaid
    /\ said' = said + 1
    /\ accepted' = IF ok THEN accepted \cup {said + 1} ELSE accepted
    /\ UNCHANGED <<asked, starts, interrupts, heard, deaf>>

\* _dispatch_send, for a message that has a thread to go to.
DispatchSend == tasks' = Append(tasks, said + 1)

\* human.send: a prompt for the next turn while none runs, else a message for
\* the agents; refused while no thread is known.
HumanSend ==
    /\ Reachable
    /\ \/ ~running /\ EnqueueTurn(said + 1) /\ Said(TRUE) /\ UNCHANGED bridge
       \/ running /\ setUp /\ DispatchSend /\ Said(TRUE) /\ UNCHANGED <<queue, pending, mail>>
       \/ running /\ ~setUp /\ Said(FALSE) /\ UNCHANGED <<queue, bridge>>
    /\ UNCHANGED <<front, loop, quit, input>>

\* human.answer takes its question off the list; whether a turn runs is not
\* looked at.
HumanAnswer(i) ==
    /\ i \in DOMAIN pending
    /\ pending' = SubSeq(pending, 1, i - 1) \o SubSeq(pending, i + 1, Len(pending))
    /\ DispatchSend
    /\ Said(TRUE)
    /\ UNCHANGED <<front, loop, queue, quit, input, mail>>

\* An answer from a surface that shows the questions, and one that comes too
\* late.
AnswerInTerminal(i) == Reachable /\ HumanAnswer(i)

AnswerTooLate ==
    /\ Reachable /\ pending = <<>> /\ asked > 0
    /\ Said(FALSE)
    /\ UNCHANGED <<front, loop, queue, quit, input, bridge>>

\* A chat message answers the oldest question, or else is a human.send.
DispatchDiscordInbound ==
    /\ at # "closed" /\ setUp
    /\ \/ pending # <<>> /\ HumanAnswer(1)
       \/ pending = <<>> /\ HumanSend

HumanSkip ==
    /\ Reachable
    /\ pending # <<>>
    /\ pending' = Tail(pending)
    /\ UNCHANGED <<front, loop, queue, quit, input, tasks, mail, counters, history>>

\* Mutated form of SessionStart: it always goes to the bridge, which takes the
\* session to be running.
SessionStartAtOnce == running' = TRUE /\ UNCHANGED queue

\* session.start asks for a turn with the configured task; the bridge's own
\* handler only sees it while one runs.
SessionStart ==
    \/ ~running /\ EnqueueTurn(0) /\ UNCHANGED running
    \/ running /\ UNCHANGED <<running, queue>>

StartCommand ==
    /\ Reachable /\ starts < MaxStarts
    /\ starts' = starts + 1
    /\ SessionStart
    /\ UNCHANGED <<front, at, prompt, setUp, interrupted, quit, input, bridge, said, asked,
                   interrupts, history>>

\* The bridge sends a message to its thread.
Post ==
    /\ tasks # <<>> /\ at # "closed"
    /\ mail' = mail \cup {Head(tasks)}
    /\ tasks' = Tail(tasks)
    /\ UNCHANGED <<front, loop, queue, quit, input, pending, counters, history>>

\* session.interrupt.
InterruptCommand ==
    /\ Reachable /\ interrupts < MaxInterrupts
    /\ interrupts' = interrupts + 1
    /\ interrupted' = TRUE
    /\ running' = FALSE
    /\ UNCHANGED <<front, at, prompt, setUp, queue, quit, input, bridge, said, asked, starts,
                   history>>

\* Mutated form of OnQuit: no sentinel wakes the loop.
OnQuitQuietly == interrupted' = TRUE /\ quit' = TRUE /\ UNCHANGED queue

\* _on_quit.
OnQuit == interrupted' = TRUE /\ quit' = TRUE /\ EnqueueTurn(Stop)

\* session.quit, after which stdin is read no more.
QuitCommand ==
    /\ Reachable /\ ~quit
    /\ OnQuit
    /\ running' = FALSE
    /\ input' = (front = "headless")
    /\ UNCHANGED <<front, at, prompt, setUp, bridge, counters, history>>

\* stdin ends, or the headless process gets SIGINT or SIGTERM.
EofOrSignal ==
    /\ Reachable /\ ~quit
    /\ OnQuit
    /\ input' = (front = "headless")
    /\ UNCHANGED <<front, at, prompt, running, setUp, bridge, counters, history>>
-----------------------------------------------------------------------------
\* Both runners run the configured task at once when there is one and the
\* session was not resumed; headless, which sets up first, decides then.  A
\* stdio process may be asked to plan its team first.
Init ==
    /\ front \in Fronts
    /\ \/ front = "headless" /\ at = "setup" /\ running = FALSE
       \/ front = "stdio" /\ at = "starting" /\ running = TRUE
       \/ front = "stdio" /\ at \in {"task", "waiting"} /\ running = FALSE
    /\ prompt = 0 /\ queue = <<>> /\ setUp = FALSE /\ interrupted = FALSE
    /\ quit = FALSE /\ input = TRUE
    /\ pending = <<>> /\ tasks = <<>> /\ mail = {}
    /\ said = 0 /\ asked = 0 /\ starts = 0 /\ interrupts = 0
    /\ accepted = {} /\ heard = {} /\ deaf = FALSE

Next ==
    \/ PlanFirst
    \/ \E auto \in BOOLEAN : SetupEnds(auto)
    \/ SetupFails
    \/ TakeTurn
    \/ ReadMail
    \/ AskUser
    \/ TurnEnds
    \/ AfterRun
    \/ Close
    \/ HumanSend
    \/ \E i \in 1..MaxAsked : AnswerInTerminal(i)
    \/ AnswerTooLate
    \/ DispatchDiscordInbound
    \/ HumanSkip
    \/ StartCommand
    \/ Post
    \/ InterruptCommand
    \/ QuitCommand
    \/ EofOrSignal

Spec == Init /\ [][Next]_vars

\* The event loop runs what is ready.  Connecting the bots ends within its
\* time limits, and an interrupted turn ends; one that is not interrupted may
\* wait for a human for ever.
Fairness ==
    /\ WF_vars(\E auto \in BOOLEAN : SetupEnds(auto))
    /\ WF_vars(TakeTurn)
    /\ WF_vars(AfterRun)
    /\ WF_vars(Close)
    /\ WF_vars(interrupted /\ TurnEnds)

FairSpec == Spec /\ Fairness
-----------------------------------------------------------------------------
TypeOK ==
    /\ front \in Fronts /\ at \in Place
    /\ prompt \in 0..MaxSaid
    /\ queue \in Seq(0..MaxSaid \cup {Stop})
    /\ running \in BOOLEAN /\ setUp \in BOOLEAN /\ interrupted \in BOOLEAN
    /\ quit \in BOOLEAN /\ input \in BOOLEAN /\ deaf \in BOOLEAN
    /\ running => at \in {"starting", "running"}
    /\ at \in {"starting", "running"} => running \/ interrupted \/ deaf
    /\ said \in 0..MaxSaid /\ asked \in 0..MaxAsked
    /\ starts \in 0..MaxStarts /\ interrupts \in 0..MaxInterrupts
    /\ pending \in Seq(1..MaxAsked) /\ tasks \in Seq(1..MaxSaid)
    /\ mail \subseteq 1..said /\ accepted \subseteq 1..said /\ heard \subseteq accepted

\* As long as the process lives, every message it accepted is in exactly one
\* place: ahead of its turn, on its way to a thread, in the inboxes, or read.
\* Turns that end, interrupts, and the change between prompt and message in
\* the middle of it lose and repeat none.
PlacesOf(m) ==
    {<<"queue", i>> : i \in {j \in DOMAIN queue : queue[j] = m}}
    \cup {<<"task", i>> : i \in {j \in DOMAIN tasks : tasks[j] = m}}
    \cup {<<"prompt", 0>> : x \in {y \in {m} : at = "starting" /\ prompt = y}}
    \cup {<<"inbox", 0>> : x \in mail \cap {m}}
    \cup {<<"read", 0>> : x \in heard \cap {m}}
NothingSaidIsLost ==
    at \notin {"ended", "closed"} => \A m \in accepted : Cardinality(PlacesOf(m)) = 1

\* Whoever asks it to, by command, end of input or signal, and wherever its
\* loop is, the process closes; unless the request came while a turn was
\* being set up, which forgets it.
QuitCloses == (quit /\ ~deaf) ~> (at = "closed" \/ deaf)
=============================================================================
