--------------------------- MODULE GatewayProofs ---------------------------
(* Proofs about the gateway, for every number of messages, questions,      *)
(* starts and interrupts, whatever the team, the bots and the planner do.  *)
EXTENDS Gateway, FiniteSetTheorems, TLAPS

(***************************************************************************)
(* Where a message can be, as a function of the places themselves.         *)
(***************************************************************************)
\* Where m stands in a sequence.
Slots(tag, s, m) == {<<tag, i>> : i \in {j \in DOMAIN s : s[j] = m}}

Rest(p, ml, h, m) ==
    {<<"prompt", 0>> : x \in {p} \cap {m}}
    \cup {<<"inbox", 0>> : x \in ml \cap {m}}
    \cup {<<"read", 0>> : x \in h \cap {m}}

Spots(q, t, p, ml, h, m) == Slots("queue", q, m) \cup Slots("task", t, m) \cup Rest(p, ml, h, m)

\* The prompt of a turn that is still being set up.
Upcoming == IF at = "starting" THEN prompt ELSE 0

IsOne(S) == \E x : S = {x}

LEMMA PlacesAreSpots ==
  ASSUME NEW m, m # 0
  PROVE  PlacesOf(m) = Spots(queue, tasks, Upcoming, mail, heard, m)
<1>1. {<<"prompt", 0>> : x \in {y \in {m} : at = "starting" /\ prompt = y}} =
          {<<"prompt", 0>> : x \in {Upcoming} \cap {m}}
  BY DEF Upcoming
<1>2. QED
  BY <1>1 DEF PlacesOf, Spots, Slots, Rest

LEMMA TagsDiffer ==
  ASSUME NEW s, NEW p, NEW ml, NEW h, NEW m, NEW i
  PROVE  /\ <<"queue", i>> \notin Slots("task", s, m) \cup Rest(p, ml, h, m)
         /\ <<"task", i>> \notin Slots("queue", s, m) \cup Rest(p, ml, h, m)
  BY DEF Slots, Rest

\* Where a message is not, it has no slot.
LEMMA NoSlots ==
  ASSUME NEW tag, NEW s, NEW m
  PROVE  Slots(tag, s, m) = {} <=> \A i \in DOMAIN s : s[i] # m
<1>1. \A i \in DOMAIN s : s[i] = m => <<tag, i>> \in Slots(tag, s, m)
  BY DEF Slots
<1>2. QED
  BY <1>1 DEF Slots

LEMMA NoRest ==
  ASSUME NEW p, NEW ml, NEW h, NEW m
  PROVE  Rest(p, ml, h, m) = {} <=> p # m /\ m \notin ml /\ m \notin h
<1>1. p = m => <<"prompt", 0>> \in Rest(p, ml, h, m)
  BY DEF Rest
<1>2. m \in ml => <<"inbox", 0>> \in Rest(p, ml, h, m)
  BY DEF Rest
<1>3. m \in h => <<"read", 0>> \in Rest(p, ml, h, m)
  BY DEF Rest
<1>4. QED
  BY <1>1, <1>2, <1>3 DEF Rest

\* A sequence that grows has one more slot, for what was appended.
LEMMA SlotsGrow ==
  ASSUME NEW S, NEW s \in Seq(S), NEW e \in S, NEW tag, NEW m
  PROVE  Slots(tag, Append(s, e), m) =
             Slots(tag, s, m) \cup (IF e = m THEN {<<tag, Len(s) + 1>>} ELSE {})
<1>1. /\ DOMAIN Append(s, e) = DOMAIN s \cup {Len(s) + 1}
      /\ Len(s) + 1 \notin DOMAIN s
      /\ \A i \in DOMAIN s : Append(s, e)[i] = s[i]
      /\ Append(s, e)[Len(s) + 1] = e
  OBVIOUS
<1>2. {j \in DOMAIN Append(s, e) : Append(s, e)[j] = m} =
          {j \in DOMAIN s : s[j] = m} \cup (IF e = m THEN {Len(s) + 1} ELSE {})
  BY <1>1
<1>3. QED
  BY <1>2 DEF Slots

\* A sequence that loses its head: the head was nowhere else, and all others
\* move up by one.
LEMMA SlotsShrink ==
  ASSUME NEW S, NEW s \in Seq(S), s # <<>>, NEW tag, NEW m, NEW rest,
         \A i : <<tag, i>> \notin rest, IsOne(Slots(tag, s, m) \cup rest)
  PROVE  /\ Head(s) = m => Slots(tag, Tail(s), m) = {} /\ rest = {}
         /\ Head(s) # m => IsOne(Slots(tag, Tail(s), m) \cup rest)
<1>1. /\ Head(s) = s[1] /\ 1 \in DOMAIN s
      /\ DOMAIN Tail(s) = {i \in Nat \ {0} : i + 1 \in DOMAIN s}
      /\ \A i \in DOMAIN Tail(s) : Tail(s)[i] = s[i + 1]
      /\ \A i \in DOMAIN s : i \in Nat \ {0}
  OBVIOUS
<1> PICK x : Slots(tag, s, m) \cup rest = {x}
  BY DEF IsOne
<1>2. \A i \in DOMAIN s : s[i] = m => <<tag, i>> = x
  BY DEF Slots
<1>3. \A i, j \in DOMAIN s : s[i] = m /\ s[j] = m => i = j
  BY <1>2
<1>4. (\E i \in DOMAIN s : s[i] = m) => rest = {}
  <2> SUFFICES ASSUME NEW i \in DOMAIN s, s[i] = m PROVE rest = {}
    OBVIOUS
  <2>1. x \notin rest
    BY <1>2
  <2>2. QED
    BY <2>1
<1>5. CASE Head(s) = m
  <2>1. {j \in DOMAIN Tail(s) : Tail(s)[j] = m} = {}
    BY <1>1, <1>3, <1>5
  <2>2. QED
    BY <2>1, <1>1, <1>4, <1>5 DEF Slots
<1>6. CASE Head(s) # m /\ \E i \in DOMAIN s : s[i] = m
  <2> PICK i \in DOMAIN s : s[i] = m
    BY <1>6
  <2>1. i # 1 /\ i - 1 \in DOMAIN Tail(s) /\ Tail(s)[i - 1] = m
    BY <1>1, <1>6
  <2>2. {j \in DOMAIN Tail(s) : Tail(s)[j] = m} = {i - 1}
    <3>1. \A j \in DOMAIN Tail(s) : Tail(s)[j] = m => j + 1 = i /\ j = i - 1
      BY <1>1, <1>3
    <3>2. QED
      BY <2>1, <3>1
  <2>3. Slots(tag, Tail(s), m) = {<<tag, i - 1>>}
    BY <2>2 DEF Slots
  <2>4. QED
    BY <2>3, <1>4, <1>6 DEF IsOne
<1>7. CASE \A i \in DOMAIN s : s[i] # m
  <2>1. \A i \in DOMAIN Tail(s) : Tail(s)[i] # m
    BY <1>1, <1>7
  <2>2. Slots(tag, Tail(s), m) = {} /\ Slots(tag, s, m) = {}
    BY <2>1, <1>7, NoSlots
  <2>3. Head(s) # m
    BY <1>1, <1>7
  <2>4. QED
    BY <2>2, <2>3 DEF IsOne
<1>8. QED
  BY <1>5, <1>6, <1>7
-----------------------------------------------------------------------------
(***************************************************************************)
(* The invariant: besides its type, every place holds accepted messages    *)
(* only, and the planner leaves no prompt behind.                          *)
(***************************************************************************)
Known ==
    /\ \A i \in DOMAIN queue : queue[i] \in accepted \cup {0, Stop}
    /\ \A i \in DOMAIN tasks : tasks[i] \in accepted
    /\ mail \subseteq accepted
    /\ prompt \in accepted \cup {0}
    /\ at \in PlannerPlace => prompt = 0

EachInOne ==
    at \notin {"ended", "closed"} =>
        \A m \in accepted : IsOne(Spots(queue, tasks, Upcoming, mail, heard, m))

GatewayInv == TypeOK /\ Known /\ EachInOne

LEMMA Bounds ==
  /\ MaxSaid \in Nat /\ MaxAsked \in Nat /\ MaxStarts \in Nat /\ MaxInterrupts \in Nat
  /\ Fronts \subseteq {"stdio", "headless"} /\ Stop \notin Nat
  BY GatewayConstants

LEMMA InvIsEnough == GatewayInv => NothingSaidIsLost
<1> SUFFICES ASSUME GatewayInv, at \notin {"ended", "closed"}, NEW m \in accepted
             PROVE  Cardinality(PlacesOf(m)) = 1
  BY DEF NothingSaidIsLost
<1>1. m # 0
  BY Bounds DEF GatewayInv, TypeOK
<1>2. IsOne(PlacesOf(m))
  BY <1>1, PlacesAreSpots DEF GatewayInv, EachInOne
<1>3. QED
  BY <1>2, FS_Singleton DEF IsOne

\* A message that was not yet said is nowhere.
LEMMA Unsaid ==
  ASSUME GatewayInv
  PROVE  /\ said + 1 \notin accepted /\ said + 1 \in Nat \ {0}
         /\ Slots("queue", queue, said + 1) = {}
         /\ Slots("task", tasks, said + 1) = {}
         /\ Rest(Upcoming, mail, heard, said + 1) = {}
<1>1. /\ said \in Nat /\ said + 1 \notin accepted
      /\ said + 1 # 0 /\ said + 1 # Stop /\ Upcoming # said + 1
  BY Bounds DEF GatewayInv, TypeOK, Known, Upcoming
<1>2. /\ \A i \in DOMAIN queue : queue[i] # said + 1
      /\ \A i \in DOMAIN tasks : tasks[i] # said + 1
      /\ said + 1 \notin mail /\ said + 1 \notin heard
  BY <1>1 DEF GatewayInv, TypeOK, Known
<1>3. QED
  BY <1>1, <1>2, NoSlots, NoRest

LEMMA SameRest ==
  ASSUME NEW m, NEW p, NEW ml, NEW h, NEW p2, NEW ml2, NEW h2,
         p = m <=> p2 = m, m \in ml <=> m \in ml2, m \in h <=> m \in h2
  PROVE  Rest(p, ml, h, m) = Rest(p2, ml2, h2, m)
  BY DEF Rest

\* A step that moves no message.
LEMMA NothingMoves ==
  ASSUME GatewayInv, UNCHANGED <<queue, tasks, mail, heard, accepted, prompt>>,
         at' \notin {"ended", "closed"} => at \notin {"ended", "closed"} /\ Upcoming' = Upcoming,
         at' \in PlannerPlace => at \in PlannerPlace
  PROVE  Known' /\ EachInOne'
  BY DEF GatewayInv, Known, EachInOne

LEMMA InitInv == Init => GatewayInv
<1> SUFFICES ASSUME Init PROVE GatewayInv
  OBVIOUS
<1>1. at \in {"setup", "starting", "task", "waiting"}
  BY DEF Init
<1>2. running => at = "starting"
  BY DEF Init
<1>3. at = "starting" => running
  BY DEF Init
<1>4. TypeOK
  <2>1. front \in Fronts /\ at \in Place /\ running \in BOOLEAN
    BY <1>1 DEF Init, Place, PlannerPlace
  <2>2. /\ prompt \in 0..MaxSaid /\ said \in 0..MaxSaid /\ asked \in 0..MaxAsked
        /\ starts \in 0..MaxStarts /\ interrupts \in 0..MaxInterrupts
    BY Bounds DEF Init
  <2>3. /\ queue \in Seq(0..MaxSaid \cup {Stop})
        /\ pending \in Seq(1..MaxAsked) /\ tasks \in Seq(1..MaxSaid)
    BY DEF Init
  <2>4. QED
    BY <1>2, <1>3, <2>1, <2>2, <2>3 DEF Init, TypeOK
<1>5. Known /\ EachInOne
  BY DEF Init, Known, EachInOne
<1>6. QED
  BY <1>4, <1>5 DEF GatewayInv
-----------------------------------------------------------------------------
(***************************************************************************)
(* Type correctness, action by action.                                     *)
(***************************************************************************)
LEMMA PlanTyped ==
  ASSUME GatewayInv, PlanFirst
  PROVE  TypeOK'
<1> USE Bounds DEF loop, bridge, counters, history, Place, PlannerPlace
<1>1. ASSUME NextContent \/ Skipped
      PROVE  /\ said' \in 0..MaxSaid /\ said <= said'
             /\ accepted' \subseteq 1..said' /\ heard' \subseteq accepted'
             /\ mail \subseteq 1..said'
  <2>1. CASE NextContent
    <3>1. said' = said + 1 /\ said' \in 0..MaxSaid
      BY <2>1 DEF NextContent, GatewayInv, TypeOK
    <3>2. QED
      BY <2>1, <3>1 DEF NextContent, GatewayInv, TypeOK
  <2>2. CASE Skipped
    BY <2>2 DEF Skipped, GatewayInv, TypeOK
  <2>3. QED
    BY <1>1, <2>1, <2>2
<1>2. CASE DescribeTask
  BY <1>1, <1>2 DEF DescribeTask, PlannerGoes, GatewayInv, TypeOK
<1>3. CASE PlanTeam
  BY <1>3 DEF PlanTeam, PlannerGoes, GatewayInv, TypeOK
<1>4. CASE ClassifyAnswer
  BY <1>1, <1>4 DEF ClassifyAnswer, PlannerGoes, GatewayInv, TypeOK
<1>5. CASE \E auto \in BOOLEAN : StartTeam(auto)
  BY <1>1, <1>5 DEF StartTeam, PlannerGoes, GatewayInv, TypeOK
<1>6. CASE PlanQuit
  BY <1>6 DEF PlanQuit, GatewayInv, TypeOK
<1>7. QED
  BY <1>2, <1>3, <1>4, <1>5, <1>6 DEF PlanFirst

LEMMA HeadIsKnown ==
  ASSUME GatewayInv
  PROVE  /\ queue # <<>> => /\ Head(queue) \in accepted \cup {0, Stop}
                            /\ Head(queue) \in 0..MaxSaid \cup {Stop}
                            /\ Tail(queue) \in Seq(0..MaxSaid \cup {Stop})
         /\ tasks # <<>> => /\ Head(tasks) \in accepted
                            /\ Tail(tasks) \in Seq(1..MaxSaid)
  BY DEF GatewayInv, TypeOK, Known

\* The loop of turns.
LoopStep ==
    \/ \E auto \in BOOLEAN : SetupEnds(auto)
    \/ SetupFails \/ TakeTurn \/ ReadMail \/ AskUser \/ TurnEnds \/ AfterRun \/ Close

LEMMA LoopTyped ==
  ASSUME GatewayInv, LoopStep
  PROVE  TypeOK'
<1> USE Bounds DEF loop, bridge, counters, history, Place
<1>1. ASSUME NEW auto \in BOOLEAN, SetupEnds(auto) PROVE TypeOK'
  <2>1. UNCHANGED <<front, queue, quit, input, pending, tasks, mail, said, asked, starts,
                    interrupts, accepted>>
    BY <1>1 DEF SetupEnds
  <2>2. CASE at = "starting" /\ EnterRun(prompt, interrupted) /\ UNCHANGED running
    BY <1>1, <2>1, <2>2 DEF SetupEnds, EnterRun, GatewayInv, TypeOK, Known
  <2>3. CASE at = "setup" /\ EnterRun(0, interrupted) /\ running' = TRUE
    <3>1. UNCHANGED heard /\ deaf' \in BOOLEAN /\ setUp' = TRUE
      BY <1>1, <2>3 DEF SetupEnds, EnterRun, GatewayInv, TypeOK
    <3>2. QED
      BY <2>1, <2>3, <3>1, 0 \in 0..MaxSaid DEF EnterRun, GatewayInv, TypeOK
  <2>4. CASE /\ at = "setup" /\ at' = (IF quit THEN "ended" ELSE "waiting")
             /\ UNCHANGED <<prompt, running, interrupted, heard, deaf>>
    BY <1>1, <2>1, <2>4 DEF SetupEnds, GatewayInv, TypeOK
  <2>5. QED
    BY <1>1, <2>2, <2>3, <2>4 DEF SetupEnds
<1>2. CASE TakeTurn
  <2>1. CASE Head(queue) = Stop \/ quit
    BY <1>2, <2>1, HeadIsKnown DEF TakeTurn, GatewayInv, TypeOK
  <2>2. CASE ~(Head(queue) = Stop \/ quit)
    BY <1>2, <2>2, HeadIsKnown DEF TakeTurn, DoRun, EnterRun, GatewayInv, TypeOK
  <2>3. QED
    BY <2>1, <2>2
<1>3. CASE SetupFails \/ TurnEnds \/ AfterRun \/ Close
  <2>1. CASE SetupFails \/ TurnEnds
    BY <2>1 DEF SetupFails, TurnEnds, GatewayInv, TypeOK
  <2>2. CASE AfterRun
    BY <2>2 DEF AfterRun, GatewayInv, TypeOK
  <2>3. CASE Close
    BY <2>3 DEF Close, GatewayInv, TypeOK
  <2>4. QED
    BY <1>3, <2>1, <2>2, <2>3
<1>4. CASE ReadMail
  BY <1>4 DEF ReadMail, GatewayInv, TypeOK, Known
<1>5. CASE AskUser
  BY <1>5 DEF AskUser, GatewayInv, TypeOK
<1>6. QED
  BY <1>1, <1>2, <1>3, <1>4, <1>5 DEF LoopStep

\* The commands of the human.
Command ==
    \/ HumanSend
    \/ \E i \in 1..MaxAsked : AnswerInTerminal(i)
    \/ AnswerTooLate \/ DispatchDiscordInbound \/ HumanSkip \/ StartCommand \/ Post
    \/ InterruptCommand \/ QuitCommand \/ EofOrSignal

LEMMA AppendTyped ==
  ASSUME GatewayInv
  PROVE  /\ \A e \in 0..MaxSaid \cup {Stop} : Append(queue, e) \in Seq(0..MaxSaid \cup {Stop})
         /\ \A e \in 1..MaxSaid : Append(tasks, e) \in Seq(1..MaxSaid)
         /\ 0 \in 0..MaxSaid /\ queue \in Seq(0..MaxSaid \cup {Stop})
         /\ tasks \in Seq(1..MaxSaid)
  BY Bounds DEF GatewayInv, TypeOK

LEMMA SaidTyped ==
  ASSUME GatewayInv, NEW ok \in BOOLEAN, Said(ok)
  PROVE  /\ said + 1 \in 1..MaxSaid /\ said' \in 0..MaxSaid
         /\ accepted' \subseteq 1..said' /\ accepted \subseteq accepted'
         /\ accepted' = IF ok THEN accepted \cup {said + 1} ELSE accepted
         /\ mail \subseteq 1..said' /\ heard' \subseteq accepted'
<1>1. said' = said + 1 /\ said + 1 \in 1..MaxSaid
  BY Bounds DEF Said, GatewayInv, TypeOK
<1>2. QED
  BY <1>1 DEF Said, GatewayInv, TypeOK

LEMMA HumanSendTyped ==
  ASSUME GatewayInv, HumanSend
  PROVE  TypeOK'
<1> USE Bounds DEF loop, bridge, counters, history, Place
<1>1. PICK ok \in BOOLEAN : Said(ok)
  BY DEF HumanSend
<1>2. queue' \in Seq(0..MaxSaid \cup {Stop}) /\ tasks' \in Seq(1..MaxSaid)
  <2>1. said + 1 \in 1..MaxSaid /\ said + 1 \in 0..MaxSaid \cup {Stop}
    BY <1>1, SaidTyped
  <2>2. /\ queue' \in {queue, Append(queue, said + 1)}
        /\ tasks' \in {tasks, Append(tasks, said + 1)}
    BY DEF HumanSend, EnqueueTurn, DispatchSend
  <2>3. QED
    BY <2>1, <2>2, AppendTyped
<1>3. UNCHANGED <<front, loop, quit, input, pending, mail>>
  BY DEF HumanSend, DispatchSend
<1>4. QED
  BY <1>1, <1>2, <1>3, SaidTyped DEF Said, GatewayInv, TypeOK

LEMMA HumanAnswerTyped ==
  ASSUME GatewayInv, NEW i \in Nat, HumanAnswer(i)
  PROVE  TypeOK'
<1> USE Bounds DEF loop, bridge, counters, history, Place
<1>1. Said(TRUE)
  BY DEF HumanAnswer
<1>2. i \in 1..Len(pending)
  BY DEF HumanAnswer, GatewayInv, TypeOK
<1>3. tasks' \in Seq(1..MaxSaid)
  <2>1. tasks' = Append(tasks, said + 1)
    BY DEF HumanAnswer, DispatchSend
  <2>2. said + 1 \in 1..MaxSaid
    BY <1>1, SaidTyped
  <2>3. QED
    BY <2>1, <2>2, AppendTyped
<1>4. pending' \in Seq(1..MaxAsked)
  <2>1. /\ SubSeq(pending, 1, i - 1) \in Seq(1..MaxAsked)
        /\ SubSeq(pending, i + 1, Len(pending)) \in Seq(1..MaxAsked)
    BY <1>2 DEF GatewayInv, TypeOK
  <2>2. QED
    BY <2>1 DEF HumanAnswer
<1>5. UNCHANGED <<front, loop, queue, quit, input, mail>>
  BY DEF HumanAnswer
<1>6. QED
  BY <1>1, <1>3, <1>4, <1>5, SaidTyped DEF Said, GatewayInv, TypeOK

LEMMA CommandTyped ==
  ASSUME GatewayInv, Command
  PROVE  TypeOK'
<1> USE Bounds DEF loop, bridge, counters, history, Place
<1>1. CASE HumanSend
  BY <1>1, HumanSendTyped
<1>2. CASE \E i \in 1..MaxAsked : AnswerInTerminal(i)
  BY <1>2, HumanAnswerTyped DEF AnswerInTerminal
<1>3. CASE AnswerTooLate
  BY <1>3, SaidTyped DEF AnswerTooLate, Said, GatewayInv, TypeOK
<1>4. CASE DispatchDiscordInbound
  BY <1>4, HumanSendTyped, HumanAnswerTyped DEF DispatchDiscordInbound
<1>5. CASE HumanSkip
  BY <1>5 DEF HumanSkip, GatewayInv, TypeOK
<1>6. CASE StartCommand
  <2>1. queue' \in Seq(0..MaxSaid \cup {Stop})
    BY <1>6, AppendTyped DEF StartCommand, SessionStart, EnqueueTurn
  <2>2. UNCHANGED running /\ starts' \in 0..MaxStarts
    BY <1>6 DEF StartCommand, SessionStart, GatewayInv, TypeOK
  <2>3. QED
    BY <1>6, <2>1, <2>2 DEF StartCommand, GatewayInv, TypeOK
<1>7. CASE Post
  BY <1>7, HeadIsKnown DEF Post, GatewayInv, TypeOK
<1>8. CASE InterruptCommand
  <2>1. interrupts' \in 0..MaxInterrupts
    BY <1>8 DEF InterruptCommand, GatewayInv, TypeOK
  <2>2. QED
    BY <1>8, <2>1 DEF InterruptCommand, GatewayInv, TypeOK
<1>9. CASE QuitCommand
  <2>1. queue' \in Seq(0..MaxSaid \cup {Stop})
    BY <1>9, AppendTyped DEF QuitCommand, OnQuit, EnqueueTurn
  <2>2. interrupted' = TRUE /\ quit' = TRUE /\ running' = FALSE /\ input' \in BOOLEAN
    BY <1>9 DEF QuitCommand, OnQuit
  <2>3. QED
    BY <1>9, <2>1, <2>2 DEF QuitCommand, GatewayInv, TypeOK
<1>10. CASE EofOrSignal
  BY <1>10 DEF EofOrSignal, OnQuit, EnqueueTurn, GatewayInv, TypeOK
<1>11. QED
  BY <1>1, <1>2, <1>3, <1>4, <1>5, <1>6, <1>7, <1>8, <1>9, <1>10 DEF Command
-----------------------------------------------------------------------------
(***************************************************************************)
(* Every message in one place, action by action.                           *)
(***************************************************************************)
\* The planner takes what it reads.
LEMMA PlanKeeps ==
  ASSUME GatewayInv, PlanFirst
  PROVE  Known' /\ EachInOne'
<1> USE DEF loop, bridge, counters, history
<1>1. /\ at \in PlannerPlace /\ prompt = 0 /\ Upcoming = 0
      /\ UNCHANGED <<queue, tasks, mail, prompt>> /\ Upcoming' = 0
  BY DEF PlanFirst, DescribeTask, PlanTeam, ClassifyAnswer, StartTeam, PlanQuit, PlannerGoes,
         PlannerPlace, GatewayInv, Known, Upcoming
<1>2. \/ accepted' = accepted \cup {said + 1} /\ heard' = heard \cup {said + 1}
      \/ UNCHANGED <<accepted, heard>>
  BY DEF PlanFirst, DescribeTask, PlanTeam, ClassifyAnswer, StartTeam, PlanQuit,
         NextContent, Skipped
<1>3. Known'
  BY <1>1, <1>2 DEF GatewayInv, Known
<1>4. at \notin {"ended", "closed"}
  BY <1>1 DEF PlannerPlace
<1>5. ASSUME NEW m \in accepted'
      PROVE  IsOne(Spots(queue, tasks, 0, mail, heard', m))
  <2>1. CASE m \in accepted
    <3>1. m \in heard' <=> m \in heard
      BY <1>2, <2>1, Unsaid
    <3>2. Rest(0, mail, heard', m) = Rest(0, mail, heard, m)
      BY <3>1, SameRest
    <3>3. QED
      BY <1>1, <1>4, <2>1, <3>2 DEF GatewayInv, EachInOne, Spots
  <2>2. CASE m \notin accepted
    <3>1. m = said + 1 /\ heard' = heard \cup {m}
      BY <1>2, <2>2
    <3>2. /\ 0 # m /\ m \notin mail /\ m \in heard'
          /\ Slots("queue", queue, m) = {} /\ Slots("task", tasks, m) = {}
      BY <3>1, Unsaid, NoRest
    <3>3. Spots(queue, tasks, 0, mail, heard', m) = {<<"read", 0>>}
      BY <3>2 DEF Spots, Rest
    <3>4. QED
      BY <3>3 DEF IsOne
  <2>3. QED
    BY <2>1, <2>2
<1>6. QED
  BY <1>1, <1>3, <1>5 DEF EachInOne

\* A turn is taken off the queue and set up, or begins.
LEMMA TakeTurnKeeps ==
  ASSUME GatewayInv, TakeTurn
  PROVE  Known' /\ EachInOne'
<1> USE DEF loop, bridge, counters, history
<1>1. /\ at = "waiting" /\ queue # <<>> /\ queue' = Tail(queue) /\ Upcoming = 0
      /\ UNCHANGED <<tasks, mail, accepted>>
  BY DEF TakeTurn, Upcoming
<1>2. \A i \in DOMAIN queue' : queue'[i] \in accepted \cup {0, Stop}
  <2>1. \A i \in DOMAIN queue' : i + 1 \in DOMAIN queue /\ queue'[i] = queue[i + 1]
    BY <1>1 DEF GatewayInv, TypeOK
  <2>2. QED
    BY <2>1 DEF GatewayInv, Known
<1>3. CASE Head(queue) = Stop \/ quit
  BY <1>1, <1>2, <1>3 DEF TakeTurn, GatewayInv, Known, EachInOne, PlannerPlace
<1>4. CASE ~(Head(queue) = Stop \/ quit)
  <2> DEFINE p == Head(queue)
  <2>1. p \in accepted \cup {0} /\ DoRun(p)
    BY <1>1, <1>4, HeadIsKnown DEF TakeTurn
  <2>2. /\ at' \in {"running", "starting"} /\ prompt' = p
        /\ \/ Upcoming' = 0 /\ heard' = heard \cup ({p} \ {0})
           \/ Upcoming' = p /\ heard' = heard
    BY <2>1 DEF DoRun, EnterRun, Upcoming
  <2>3. Known'
    BY <1>1, <1>2, <2>1, <2>2 DEF GatewayInv, Known, PlannerPlace
  <2>4. ASSUME NEW m \in accepted
        PROVE  IsOne(Spots(Tail(queue), tasks, Upcoming', mail, heard', m))
    <3> DEFINE rest == Slots("task", tasks, m) \cup Rest(0, mail, heard, m)
    <3>1. IsOne(Slots("queue", queue, m) \cup rest) /\ m # 0
      <4>1. Slots("queue", queue, m) \cup rest =
                Spots(queue, tasks, Upcoming, mail, heard, m)
        BY <1>1 DEF Spots
      <4>2. IsOne(Spots(queue, tasks, Upcoming, mail, heard, m))
        BY <1>1, <2>4 DEF GatewayInv, EachInOne
      <4>3. m # 0
        BY <2>4 DEF GatewayInv, TypeOK
      <4>4. QED
        BY <4>1, <4>2, <4>3
    <3>2. /\ p = m => Slots("queue", Tail(queue), m) = {} /\ rest = {}
          /\ p # m => IsOne(Slots("queue", Tail(queue), m) \cup rest)
      <4>1. \A i : <<"queue", i>> \notin rest
        BY TagsDiffer
      <4>2. queue \in Seq(0..MaxSaid \cup {Stop}) /\ queue # <<>>
        BY <1>1 DEF GatewayInv, TypeOK
      <4> HIDE DEF rest
      <4>3. QED
        BY <3>1, <4>1, <4>2, SlotsShrink
    <3>3. CASE p = m
      <4>1. Slots("queue", Tail(queue), m) = {} /\ Slots("task", tasks, m) = {}
        BY <3>2, <3>3
      <4>2. m \notin mail /\ m \notin heard
        BY <3>2, <3>3, NoRest
      <4>3. CASE Upcoming' = 0 /\ heard' = heard \cup ({p} \ {0})
        <5>1. Spots(Tail(queue), tasks, Upcoming', mail, heard', m) = {<<"read", 0>>}
          BY <3>1, <3>3, <4>1, <4>2, <4>3 DEF Spots, Rest
        <5>2. QED
          BY <5>1 DEF IsOne
      <4>4. CASE Upcoming' = p /\ heard' = heard
        <5>1. Spots(Tail(queue), tasks, Upcoming', mail, heard', m) = {<<"prompt", 0>>}
          BY <3>3, <4>1, <4>2, <4>4 DEF Spots, Rest
        <5>2. QED
          BY <5>1 DEF IsOne
      <4>5. QED
        BY <2>2, <4>3, <4>4
    <3>4. CASE p # m
      <4>1. Rest(Upcoming', mail, heard', m) = Rest(0, mail, heard, m)
        BY <2>2, <3>1, <3>4, SameRest
      <4>2. QED
        BY <3>2, <3>4, <4>1 DEF Spots
    <3>5. QED
      BY <3>3, <3>4
  <2>5. QED
    BY <1>1, <2>3, <2>4 DEF EachInOne
<1>5. QED
  BY <1>3, <1>4

\* The turn begins once its setup is over: its prompt is read.
LEMMA SetupKeeps ==
  ASSUME GatewayInv, NEW auto \in BOOLEAN, SetupEnds(auto)
  PROVE  Known' /\ EachInOne'
<1> USE DEF loop, bridge, counters, history
<1>1. UNCHANGED <<queue, tasks, mail, accepted>> /\ at \in {"setup", "starting"}
  BY DEF SetupEnds
<1>2. CASE at = "setup"
  <2>1. /\ Upcoming = 0 /\ Upcoming' = 0 /\ UNCHANGED heard /\ prompt' \in {0, prompt}
        /\ at' \notin PlannerPlace
    BY <1>2 DEF SetupEnds, EnterRun, Upcoming, PlannerPlace
  <2>2. QED
    BY <1>1, <1>2, <2>1 DEF GatewayInv, Known, EachInOne
<1>3. CASE at = "starting"
  <2>1. /\ at' = "running" /\ UNCHANGED prompt /\ Upcoming' = 0 /\ Upcoming = prompt
        /\ heard' = heard \cup ({prompt} \ {0})
    BY <1>3 DEF SetupEnds, EnterRun, Upcoming
  <2>2. Known'
    BY <1>1, <2>1 DEF GatewayInv, Known, PlannerPlace
  <2>3. ASSUME NEW m \in accepted
        PROVE  IsOne(Spots(queue, tasks, 0, mail, heard', m))
    <3>1. IsOne(Spots(queue, tasks, prompt, mail, heard, m))
      BY <1>3, <2>1 DEF GatewayInv, EachInOne
    <3>2. m # 0
      BY <2>3 DEF GatewayInv, TypeOK
    <3>3. CASE prompt = m
      <4>1. \A x \in Spots(queue, tasks, prompt, mail, heard, m) : x = <<"prompt", 0>>
        BY <3>1, <3>3 DEF IsOne, Spots, Rest
      <4>2. /\ Slots("queue", queue, m) = {} /\ Slots("task", tasks, m) = {}
            /\ m \notin mail /\ m \notin heard
        <5>1. /\ \A i : <<"queue", i>> # <<"prompt", 0>> /\ <<"task", i>> # <<"prompt", 0>>
              /\ <<"inbox", 0>> # <<"prompt", 0>> /\ <<"read", 0>> # <<"prompt", 0>>
          OBVIOUS
        <5>2. Slots("queue", queue, m) = {} /\ Slots("task", tasks, m) = {}
          BY <4>1, <5>1 DEF Spots, Slots
        <5>3. m \in mail => <<"inbox", 0>> \in Spots(queue, tasks, prompt, mail, heard, m)
          BY DEF Spots, Rest
        <5>4. m \in heard => <<"read", 0>> \in Spots(queue, tasks, prompt, mail, heard, m)
          BY DEF Spots, Rest
        <5>5. QED
          BY <4>1, <5>1, <5>2, <5>3, <5>4
      <4>3. Spots(queue, tasks, 0, mail, heard', m) = {<<"read", 0>>}
        BY <2>1, <3>2, <3>3, <4>2 DEF Spots, Rest
      <4>4. QED
        BY <4>3 DEF IsOne
    <3>4. CASE prompt # m
      <4>1. Rest(0, mail, heard', m) = Rest(prompt, mail, heard, m)
        BY <2>1, <3>2, <3>4, SameRest
      <4>2. QED
        BY <3>1, <4>1 DEF Spots
    <3>5. QED
      BY <3>3, <3>4
  <2>4. QED
    BY <1>1, <2>1, <2>2, <2>3 DEF EachInOne
<1>4. QED
  BY <1>1, <1>2, <1>3

\* A turn reads its inboxes.
LEMMA ReadMailKeeps ==
  ASSUME GatewayInv, ReadMail
  PROVE  Known' /\ EachInOne'
<1> USE DEF loop, bridge, counters, history
<1>1. /\ UNCHANGED <<queue, tasks, accepted, prompt, at>> /\ at = "running"
      /\ heard' = heard \cup mail /\ mail' = {}
      /\ Upcoming = 0 /\ Upcoming' = 0
  BY DEF ReadMail, Upcoming
<1>2. Known'
  BY <1>1 DEF GatewayInv, Known
<1>3. ASSUME NEW m \in accepted
      PROVE  IsOne(Spots(queue, tasks, 0, mail', heard', m))
  <2>1. IsOne(Spots(queue, tasks, 0, mail, heard, m)) /\ m # 0
    BY <1>1, <1>3 DEF GatewayInv, EachInOne, TypeOK
  <2>2. CASE m \in mail
    <3>1. /\ <<"inbox", 0>> \in Rest(0, mail, heard, m)
          /\ m \in heard => <<"read", 0>> \in Rest(0, mail, heard, m)
      BY <2>2 DEF Rest
    <3>2. <<"inbox", 0>> \notin Slots("queue", queue, m) \cup Slots("task", tasks, m)
      BY DEF Slots
    <3>3. Slots("queue", queue, m) = {} /\ Slots("task", tasks, m) = {}
      BY <2>1, <3>1, <3>2 DEF IsOne, Spots
    <3>4. Spots(queue, tasks, 0, mail', heard', m) = {<<"read", 0>>}
      BY <1>1, <2>1, <2>2, <3>3 DEF Spots, Rest
    <3>5. QED
      BY <3>4 DEF IsOne
  <2>3. CASE m \notin mail
    <3>1. Rest(0, mail', heard', m) = Rest(0, mail, heard, m)
      BY <1>1, <2>3, SameRest
    <3>2. QED
      BY <2>1, <3>1 DEF Spots
  <2>4. QED
    BY <2>2, <2>3
<1>4. QED
  BY <1>1, <1>2, <1>3 DEF EachInOne

LEMMA LoopKeeps ==
  ASSUME GatewayInv, LoopStep
  PROVE  Known' /\ EachInOne'
<1> USE DEF loop, bridge, counters, history
<1>1. CASE SetupFails \/ TurnEnds \/ AfterRun \/ Close
  <2>1. /\ UNCHANGED <<queue, tasks, mail, heard, accepted, prompt>>
        /\ at' \in {"ended", "closed", "waiting", "after"}
        /\ at' \in {"waiting", "after"} => at \in {"running", "after"}
    BY <1>1 DEF SetupFails, TurnEnds, AfterRun, Close
  <2>2. at' \notin PlannerPlace
    BY <2>1 DEF PlannerPlace
  <2>3. at' \notin {"ended", "closed"} =>
            at \notin {"ended", "closed"} /\ Upcoming' = Upcoming
    BY <2>1 DEF Upcoming
  <2>4. QED
    BY <2>1, <2>2, <2>3, NothingMoves
<1>2. CASE AskUser
  <2>1. UNCHANGED <<queue, tasks, mail, heard, accepted, prompt, at>>
    BY <1>2 DEF AskUser
  <2>2. QED
    BY <2>1, NothingMoves DEF Upcoming
<1>3. QED
  BY <1>1, <1>2, SetupKeeps, TakeTurnKeeps, ReadMailKeeps DEF LoopStep

\* What an append to the queue, or to the tasks, changes.
LEMMA PlacesGrow ==
  ASSUME GatewayInv, NEW m
  PROVE  /\ \A e \in 0..MaxSaid \cup {Stop} :
               /\ \A i \in DOMAIN Append(queue, e) :
                     Append(queue, e)[i] \in accepted \cup {0, Stop, e}
               /\ Slots("queue", Append(queue, e), m) = Slots("queue", queue, m)
                      \cup (IF e = m THEN {<<"queue", Len(queue) + 1>>} ELSE {})
         /\ \A e \in 1..MaxSaid :
               /\ \A i \in DOMAIN Append(tasks, e) : Append(tasks, e)[i] \in accepted \cup {e}
               /\ Slots("task", Append(tasks, e), m) = Slots("task", tasks, m)
                      \cup (IF e = m THEN {<<"task", Len(tasks) + 1>>} ELSE {})
<1> DEFINE Q == 0..MaxSaid \cup {Stop}
           T == 1..MaxSaid
<1>1. queue \in Seq(Q) /\ tasks \in Seq(T)
  BY AppendTyped
<1>2. /\ \A i \in DOMAIN queue : queue[i] \in accepted \cup {0, Stop}
      /\ \A i \in DOMAIN tasks : tasks[i] \in accepted
  BY DEF GatewayInv, Known
<1> HIDE DEF Q, T
<1>3. ASSUME NEW e \in Q
      PROVE  /\ \A i \in DOMAIN Append(queue, e) :
                   Append(queue, e)[i] \in accepted \cup {0, Stop, e}
             /\ Slots("queue", Append(queue, e), m) = Slots("queue", queue, m)
                    \cup (IF e = m THEN {<<"queue", Len(queue) + 1>>} ELSE {})
  <2>1. \A i \in DOMAIN Append(queue, e) :
            \/ i \in DOMAIN queue /\ Append(queue, e)[i] = queue[i]
            \/ Append(queue, e)[i] = e
    BY <1>1
  <2>2. QED
    BY <1>1, <1>2, <2>1, SlotsGrow
<1>4. ASSUME NEW e \in T
      PROVE  /\ \A i \in DOMAIN Append(tasks, e) : Append(tasks, e)[i] \in accepted \cup {e}
             /\ Slots("task", Append(tasks, e), m) = Slots("task", tasks, m)
                    \cup (IF e = m THEN {<<"task", Len(tasks) + 1>>} ELSE {})
  <2>1. \A i \in DOMAIN Append(tasks, e) :
            \/ i \in DOMAIN tasks /\ Append(tasks, e)[i] = tasks[i]
            \/ Append(tasks, e)[i] = e
    BY <1>1
  <2>2. QED
    BY <1>1, <1>2, <2>1, SlotsGrow
<1>5. QED
  BY <1>3, <1>4 DEF Q, T

\* A new message goes to the end of the queue or of the tasks.
LEMMA SayKeeps ==
  ASSUME GatewayInv, Said(TRUE), UNCHANGED <<at, prompt, mail>>,
         \/ queue' = Append(queue, said + 1) /\ tasks' = tasks
         \/ tasks' = Append(tasks, said + 1) /\ queue' = queue
  PROVE  Known' /\ EachInOne'
<1>1. /\ accepted' = accepted \cup {said + 1} /\ UNCHANGED heard
      /\ said + 1 \in 1..MaxSaid /\ Upcoming' = Upcoming
  BY SaidTyped DEF Said, Upcoming
<1> DEFINE n == said + 1
<1>2. n \in 0..MaxSaid \cup {Stop} /\ n \in 1..MaxSaid /\ n \in accepted'
  BY <1>1
<1>3. \/ queue' = Append(queue, n) /\ tasks' = tasks
      \/ tasks' = Append(tasks, n) /\ queue' = queue
  OBVIOUS
<1>4. accepted' = accepted \cup {n}
  BY <1>1
<1>5. ASSUME NEW m PROVE m = n =>
         /\ m \notin accepted
         /\ Slots("queue", queue, m) = {} /\ Slots("task", tasks, m) = {}
         /\ Rest(Upcoming, mail, heard, m) = {}
  BY Unsaid
<1> HIDE DEF n
<1>6. Known'
  <2>1. \A i \in DOMAIN queue' : queue'[i] \in accepted' \cup {0, Stop}
    BY <1>2, <1>3, <1>4, PlacesGrow DEF GatewayInv, Known
  <2>2. \A i \in DOMAIN tasks' : tasks'[i] \in accepted'
    BY <1>2, <1>3, <1>4, PlacesGrow DEF GatewayInv, Known
  <2>3. QED
    BY <1>1, <2>1, <2>2 DEF GatewayInv, Known
<1>7. ASSUME NEW m \in accepted', at \notin {"ended", "closed"}
      PROVE  IsOne(Spots(queue', tasks', Upcoming, mail, heard, m))
  <2>1. /\ Slots("queue", Append(queue, n), m) =
               Slots("queue", queue, m) \cup (IF n = m THEN {<<"queue", Len(queue) + 1>>} ELSE {})
        /\ Slots("task", Append(tasks, n), m) =
               Slots("task", tasks, m) \cup (IF n = m THEN {<<"task", Len(tasks) + 1>>} ELSE {})
    BY <1>2, PlacesGrow
  <2>2. CASE m = n
    <3>1. /\ Slots("queue", queue, m) = {} /\ Slots("task", tasks, m) = {}
          /\ Rest(Upcoming, mail, heard, m) = {}
      BY <2>2, <1>5
    <3>2. Spots(queue', tasks', Upcoming, mail, heard, m) \in
              {{<<"queue", Len(queue) + 1>>}, {<<"task", Len(tasks) + 1>>}}
      BY <1>3, <2>1, <2>2, <3>1 DEF Spots
    <3>3. QED
      BY <3>2 DEF IsOne
  <2>3. CASE m # n
    <3>1. /\ Slots("queue", queue', m) = Slots("queue", queue, m)
          /\ Slots("task", tasks', m) = Slots("task", tasks, m)
      BY <1>3, <2>1, <2>3
    <3>2. IsOne(Spots(queue, tasks, Upcoming, mail, heard, m))
      BY <1>4, <1>7, <2>3 DEF GatewayInv, EachInOne
    <3>3. QED
      BY <3>1, <3>2 DEF Spots
  <2>4. QED
    BY <2>2, <2>3
<1>8. QED
  BY <1>1, <1>6, <1>7 DEF EachInOne

\* What is said and not accepted changes nothing.
LEMMA RefusedKeeps ==
  ASSUME GatewayInv, Said(FALSE), UNCHANGED <<at, prompt, queue, tasks, mail>>
  PROVE  Known' /\ EachInOne'
<1>1. UNCHANGED <<accepted, heard>>
  BY DEF Said
<1>2. QED
  BY <1>1, NothingMoves DEF Upcoming

\* The prompt of the configured task and the sentinel are no messages.
LEMMA EnqueueKeeps ==
  ASSUME GatewayInv, NEW e \in {0, Stop}, queue' = Append(queue, e),
         UNCHANGED <<at, prompt, tasks, mail, heard, accepted>>
  PROVE  Known' /\ EachInOne'
<1>1. e \in 0..MaxSaid \cup {Stop}
  BY AppendTyped
<1>2. Known'
  <2>1. \A i \in DOMAIN queue' : queue'[i] \in accepted \cup {0, Stop}
    BY <1>1, PlacesGrow
  <2>2. QED
    BY <2>1 DEF GatewayInv, Known
<1>3. ASSUME NEW m \in accepted
      PROVE  Spots(queue', tasks, Upcoming, mail, heard, m) =
                 Spots(queue, tasks, Upcoming, mail, heard, m)
  <2>1. m # 0 /\ m # Stop
    BY Bounds DEF GatewayInv, TypeOK
  <2>2. Slots("queue", queue', m) = Slots("queue", queue, m)
    BY <1>1, <2>1, PlacesGrow
  <2>3. QED
    BY <2>2 DEF Spots
<1>4. QED
  BY <1>2, <1>3 DEF GatewayInv, EachInOne, Upcoming

\* The bridge's task delivers its message.
LEMMA PostKeeps ==
  ASSUME GatewayInv, Post
  PROVE  Known' /\ EachInOne'
<1> USE DEF loop, bridge, counters, history
<1>1. /\ UNCHANGED <<queue, accepted, heard, prompt, at>>
      /\ tasks # <<>> /\ tasks' = Tail(tasks) /\ mail' = mail \cup {Head(tasks)}
      /\ Upcoming' = Upcoming
  BY DEF Post, Upcoming
<1>2. tasks \in Seq(1..MaxSaid)
  BY DEF GatewayInv, TypeOK
<1>3. Known'
  <2>1. \A i \in DOMAIN tasks' : i + 1 \in DOMAIN tasks /\ tasks'[i] = tasks[i + 1]
    BY <1>1, <1>2
  <2>2. Head(tasks) \in accepted
    BY <1>1, HeadIsKnown
  <2>3. QED
    BY <1>1, <2>1, <2>2 DEF GatewayInv, Known
<1>4. ASSUME NEW m \in accepted, at \notin {"ended", "closed"}
      PROVE  IsOne(Spots(queue, Tail(tasks), Upcoming, mail', heard, m))
  <2> DEFINE rest == Slots("queue", queue, m) \cup Rest(Upcoming, mail, heard, m)
  <2>1. IsOne(Slots("task", tasks, m) \cup rest)
    <3>1. Slots("task", tasks, m) \cup rest = Spots(queue, tasks, Upcoming, mail, heard, m)
      BY DEF Spots
    <3>2. QED
      BY <1>4, <3>1 DEF GatewayInv, EachInOne
  <2>2. /\ Head(tasks) = m => Slots("task", Tail(tasks), m) = {} /\ rest = {}
        /\ Head(tasks) # m => IsOne(Slots("task", Tail(tasks), m) \cup rest)
    <3>1. \A i : <<"task", i>> \notin rest
      BY TagsDiffer
    <3> HIDE DEF rest
    <3>2. QED
      BY <1>1, <1>2, <2>1, <3>1, SlotsShrink
  <2>3. CASE Head(tasks) = m
    <3>1. /\ Slots("task", Tail(tasks), m) = {} /\ Slots("queue", queue, m) = {}
          /\ Upcoming # m /\ m \notin heard
      BY <2>2, <2>3, NoRest
    <3>2. Spots(queue, Tail(tasks), Upcoming, mail', heard, m) = {<<"inbox", 0>>}
      BY <1>1, <2>3, <3>1 DEF Spots, Rest
    <3>3. QED
      BY <3>2 DEF IsOne
  <2>4. CASE Head(tasks) # m
    <3>1. Rest(Upcoming, mail', heard, m) = Rest(Upcoming, mail, heard, m)
      BY <1>1, <2>4, SameRest
    <3>2. Spots(queue, Tail(tasks), Upcoming, mail', heard, m) =
              Slots("task", Tail(tasks), m) \cup rest
      BY <3>1 DEF Spots
    <3>3. QED
      BY <2>2, <2>4, <3>2
  <2>5. QED
    BY <2>3, <2>4
<1>5. QED
  BY <1>1, <1>3, <1>4 DEF EachInOne

LEMMA HumanSendKeeps ==
  ASSUME GatewayInv, HumanSend
  PROVE  Known' /\ EachInOne'
<1> USE DEF loop, bridge
<1>1. UNCHANGED <<at, prompt, mail>>
  BY DEF HumanSend
<1>2. CASE Said(TRUE) /\ EnqueueTurn(said + 1) /\ UNCHANGED tasks
  BY <1>1, <1>2, SayKeeps DEF EnqueueTurn
<1>3. CASE Said(TRUE) /\ DispatchSend /\ UNCHANGED queue
  BY <1>1, <1>3, SayKeeps DEF DispatchSend
<1>4. CASE Said(FALSE) /\ UNCHANGED <<queue, tasks>>
  BY <1>1, <1>4, RefusedKeeps
<1>5. QED
  BY <1>2, <1>3, <1>4 DEF HumanSend

LEMMA HumanAnswerKeeps ==
  ASSUME GatewayInv, NEW i \in Nat, HumanAnswer(i)
  PROVE  Known' /\ EachInOne'
  BY SayKeeps DEF HumanAnswer, DispatchSend, loop

LEMMA CommandKeeps ==
  ASSUME GatewayInv, Command
  PROVE  Known' /\ EachInOne'
<1> USE DEF loop, bridge, counters, history
<1>1. CASE HumanSend
  BY <1>1, HumanSendKeeps
<1>2. CASE \E i \in 1..MaxAsked : AnswerInTerminal(i)
  BY <1>2, HumanAnswerKeeps DEF AnswerInTerminal
<1>3. CASE AnswerTooLate
  BY <1>3, RefusedKeeps DEF AnswerTooLate
<1>4. CASE DispatchDiscordInbound
  BY <1>4, HumanSendKeeps, HumanAnswerKeeps DEF DispatchDiscordInbound
<1>5. CASE HumanSkip
  BY <1>5, NothingMoves DEF HumanSkip, Upcoming
<1>6. CASE StartCommand
  <2>1. UNCHANGED <<at, prompt, tasks, mail, heard, accepted>>
    BY <1>6 DEF StartCommand
  <2>2. CASE queue' = Append(queue, 0)
    BY <2>1, <2>2, EnqueueKeeps
  <2>3. CASE UNCHANGED queue
    BY <2>1, <2>3, NothingMoves DEF Upcoming
  <2>4. QED
    BY <1>6, <2>2, <2>3 DEF StartCommand, SessionStart, EnqueueTurn
<1>7. CASE Post
  BY <1>7, PostKeeps
<1>8. CASE InterruptCommand
  BY <1>8, NothingMoves DEF InterruptCommand, Upcoming
<1>9. CASE QuitCommand \/ EofOrSignal
  <2>1. UNCHANGED <<at, prompt, tasks, mail, heard, accepted>> /\ queue' = Append(queue, Stop)
    BY <1>9 DEF QuitCommand, EofOrSignal, OnQuit, EnqueueTurn
  <2>2. QED
    BY <2>1, EnqueueKeeps
<1>10. QED
  BY <1>1, <1>2, <1>3, <1>4, <1>5, <1>6, <1>7, <1>8, <1>9 DEF Command
-----------------------------------------------------------------------------
LEMMA NextInv == GatewayInv /\ [Next]_vars => GatewayInv'
<1> SUFFICES ASSUME GatewayInv, [Next]_vars PROVE GatewayInv'
  OBVIOUS
<1>1. CASE PlanFirst
  BY <1>1, PlanTyped, PlanKeeps DEF GatewayInv
<1>2. CASE LoopStep
  BY <1>2, LoopTyped, LoopKeeps DEF GatewayInv
<1>3. CASE Command
  BY <1>3, CommandTyped, CommandKeeps DEF GatewayInv
<1>4. CASE UNCHANGED vars
  BY <1>4 DEF vars, loop, bridge, counters, history, GatewayInv, TypeOK, Known, EachInOne, Upcoming
<1>5. QED
  BY <1>1, <1>2, <1>3, <1>4 DEF Next, LoopStep, Command

LEMMA GatewayInvariant == Spec => []GatewayInv
  BY InitInv, NextInv, PTL DEF Spec

\* The process and its bridge keep their types; a turn the bridge takes to be
\* running is one, and one it does not was interrupted.
THEOREM GatewayTyped == Spec => []TypeOK
<1>1. GatewayInv => TypeOK
  BY DEF GatewayInv
<1>2. QED
  BY <1>1, GatewayInvariant, PTL

\* As long as the process lives, a message it accepted is in exactly one
\* place, through any number of turns, setups, interrupts and commands.
THEOREM SaidIsKept == Spec => []NothingSaidIsLost
  BY InvIsEnough, GatewayInvariant, PTL
============================================================================
