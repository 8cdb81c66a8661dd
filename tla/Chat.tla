-------------------------------- MODULE Chat --------------------------------
(***************************************************************************)
(* The chat surface: from an event of the session, through the bounded     *)
(* mailbox of the bus (gateway/bus.py) and the outbox of the agent's bot,  *)
(* to the channel that all bots share (channels/discord/bot.py,            *)
(* observe.py); and back, from a message in the channel that every bot     *)
(* sees to the one command it becomes.                                     *)
(*                                                                         *)
(* An event is its number, a post the number of its event and of its chunk *)
(* of the text.  What becomes of a command is the subject of Gateway and   *)
(* ToolApproval.  BotManager.flush only waits, for at most half a minute.  *)
(***************************************************************************)
EXTENDS Naturals, SequencesExt

CONSTANTS
    Bots,           \* one per agent, all bound to one channel
    Nothing,        \* no post
    MailboxMax,     \* DEFAULT_CHAT_MAILBOX_MAX
    MinInterval,    \* _CHANNEL_MIN_INTERVAL_S, in ticks
    DedupTTL,       \* _INBOUND_DEDUP_TTL_S, in ticks
    MaxSendRetries, \* _MAX_SEND_RETRIES
    MaxChunks,      \* bound: chunks of a text
    MaxDelay,       \* bound: the delay Discord asks for, in ticks
    MaxTraffic      \* bound: events and messages of the human together

ASSUME ChatConstants ==
    /\ IsFiniteSet(Bots)
    /\ {MailboxMax, MinInterval, MaxSendRetries, MaxChunks, MaxDelay} \subseteq Nat \ {0}
    /\ {DedupTTL, MaxTraffic} \subseteq Nat

VARIABLES
    published,  \* history: the events, [bot, chunks]
    mailbox,    \* _mailboxes["discord-bots"]
    outbox,     \* per bot, _outbox
    place,      \* per bot, where _sender_loop is, see Place
    hand,       \* per bot, the post being sent
    attempt,    \* per bot, the number of the attempt
    timer,      \* per bot, ticks left to sleep
    gate,       \* _channel_gates: its holder, then those who wait for it
    since,      \* ticks since _channel_last_send, at most MinInterval
    channel,    \* the posts the channel shows
    lost,       \* history: posts dropped by the bus or given up with a warning
    written,    \* messages the human wrote in the channel
    unseen,     \* <<message, bot>> for each sight of a message still to come
    seen,       \* _inbound_seen: message -> its age
    first,      \* history: message -> ticks since it was first seen
    late,       \* history: messages seen again after more than DedupTTL
    taken       \* history: message -> how often its handler ran

Place == {"starting",   \* connecting, then looking up the channel
          "idle",       \* _outbox.get()
          "waiting",    \* for the channel's gate
          "pacing", "sending", "backoff",
          "dead",       \* the channel cannot be had
          "down",       \* the bot could not connect
          "closed"}

sender == <<outbox, place, hand, attempt, timer, gate>>
inbound == <<written, unseen, seen, first, late, taken>>
chatVars == <<published, mailbox, sender, since, channel, lost, inbound>>

Post == (1..MaxTraffic) \X (1..MaxChunks)
-----------------------------------------------------------------------------
\* The bus.

\* split_chat_content: what a text becomes in the outbox.
SplitContent(e) == [k \in 1..published[e].chunks |-> <<e, k>>]
Posts(e) == {<<e, k>> : k \in 1..published[e].chunks}

\* Mutated form of EnqueueMailbox: it never overflows.
EnqueueMailboxAll(e) ==
    /\ mailbox' = Append(mailbox, e)
    /\ UNCHANGED lost

\* _enqueue_mailbox drops the oldest event.
EnqueueMailbox(e) ==
    IF Len(mailbox) < MailboxMax
    THEN mailbox' = Append(mailbox, e) /\ UNCHANGED lost
    ELSE mailbox' = Append(Tail(mailbox), e) /\ lost' = lost \cup Posts(Head(mailbox))

\* publish, of an event the display policy lets through.
Publish(b, n) ==
    /\ \A c \in Bots : place[c] # "closed"
    /\ Len(published) + written < MaxTraffic
    /\ published' = Append(published, [bot |-> b, chunks |-> n])
    /\ EnqueueMailbox(Len(published) + 1)
    /\ UNCHANGED <<sender, since, channel, inbound>>

\* route_event, of an event of the mailbox: only its own bot gets its posts.
Routed(b, e) == IF published[e].bot = b THEN SplitContent(e) ELSE <<>>

\* enqueue and _put_outbox: the outbox once it holds the posts of the mailbox.
Enqueued(b) == outbox[b] \o FlattenSeq([i \in DOMAIN mailbox |-> Routed(b, mailbox[i])])

\* The mailbox is emptied in one callback.  Whether a bot has started, failed
\* or died makes no difference to its outbox.
DrainMailbox ==
    /\ mailbox # <<>>
    /\ outbox' = [b \in Bots |-> Enqueued(b)]
    /\ mailbox' = <<>>
    /\ UNCHANGED <<published, place, hand, attempt, timer, gate, since, channel, lost, inbound>>
-----------------------------------------------------------------------------
\* The sender of a bot.

\* The bot cannot log in, or is not ready within its time: its tasks are
\* cancelled, and start_all raises once the other bots are through.
StartFails(b) ==
    /\ place[b] = "starting"
    /\ place' = [place EXCEPT ![b] = "down"]
    /\ UNCHANGED <<published, mailbox, outbox, hand, attempt, timer, gate, since, channel,
                   lost, inbound>>

\* It looks its channel up first; when that fails, the task is over, and
\* nobody looks at it again.
Start(b) ==
    /\ place[b] = "starting"
    /\ \E next \in {"idle", "dead"} : place' = [place EXCEPT ![b] = next]
    /\ UNCHANGED <<published, mailbox, outbox, hand, attempt, timer, gate, since, channel,
                   lost, inbound>>

TakeItem(b) ==
    /\ place[b] = "idle"
    /\ outbox[b] # <<>>
    /\ hand' = [hand EXCEPT ![b] = Head(outbox[b])]
    /\ outbox' = [outbox EXCEPT ![b] = Tail(@)]
    /\ attempt' = [attempt EXCEPT ![b] = 1]
    /\ place' = [place EXCEPT ![b] = "waiting"]
    /\ gate' = Append(gate, b)
    /\ UNCHANGED <<published, mailbox, timer, since, channel, lost, inbound>>

\* Mutated form of Hold: others may go ahead of a bot that waits for its time.
HoldBriefly(b) == gate' = Append(Tail(gate), b)

\* A bot keeps the gate while it waits for its time.
Hold(b) == UNCHANGED gate

\* The bot has the gate, and paces itself after the last post in the channel.
Pace(b) ==
    /\ place[b] = "waiting" /\ gate # <<>> /\ Head(gate) = b
    /\ IF since < MinInterval
       THEN /\ place' = [place EXCEPT ![b] = "pacing"]
            /\ timer' = [timer EXCEPT ![b] = MinInterval - since]
       ELSE place' = [place EXCEPT ![b] = "sending"] /\ UNCHANGED timer
    /\ Hold(b)
    /\ UNCHANGED <<published, mailbox, outbox, hand, attempt, since, channel, lost, inbound>>

PaceEnds(b) ==
    /\ place[b] = "pacing" /\ timer[b] = 0
    /\ place' = [place EXCEPT ![b] = "sending"]
    /\ UNCHANGED <<published, mailbox, outbox, hand, attempt, timer, gate, since, channel,
                   lost, inbound>>

\* Mutated form of LetGo: the gate is not given back.
LetGoNever(b) == UNCHANGED gate

\* The gate goes to the next; its holder is the first.
LetGo(b) == gate' = Tail(gate)

\* The post is done with, in the channel or not.
DoneWith(b) ==
    /\ place' = [place EXCEPT ![b] = "idle"]
    /\ hand' = [hand EXCEPT ![b] = Nothing]
    /\ attempt' = [attempt EXCEPT ![b] = 0]
    /\ LetGo(b)
    /\ UNCHANGED <<published, mailbox, outbox, timer, inbound>>

SendSucceeds(b) ==
    /\ place[b] = "sending"
    /\ channel' = Append(channel, hand[b])
    /\ since' = 0
    /\ UNCHANGED lost
    /\ DoneWith(b)

GiveUp(b) ==
    /\ lost' = lost \cup {hand[b]}
    /\ UNCHANGED <<since, channel>>
    /\ DoneWith(b)

SendFails(b) == place[b] = "sending" /\ GiveUp(b)

\* Status 429: the bot sleeps, the gate in its hand, as long as it is told.
RateLimited(b) ==
    /\ place[b] = "sending"
    /\ \/ attempt[b] = MaxSendRetries /\ GiveUp(b)
       \/ /\ attempt[b] < MaxSendRetries
          /\ \E delay \in 1..MaxDelay : timer' = [timer EXCEPT ![b] = delay]
          /\ place' = [place EXCEPT ![b] = "backoff"]
          /\ UNCHANGED <<published, mailbox, outbox, hand, attempt, gate, since, channel, lost,
                         inbound>>

\* The next attempt has to get the gate anew, behind the bots that wait.
TryAgain(b) ==
    /\ attempt' = [attempt EXCEPT ![b] = @ + 1]
    /\ place' = [place EXCEPT ![b] = "waiting"]
    /\ gate' = Append(Tail(gate), b)
    /\ UNCHANGED <<outbox, hand>>

BackoffEnds(b) ==
    /\ place[b] = "backoff" /\ timer[b] = 0
    /\ TryAgain(b)
    /\ UNCHANGED <<published, mailbox, timer, since, channel, lost, inbound>>

\* stop_all cancels every sender wherever it is; outboxes are not emptied.
StopAll ==
    /\ \E b \in Bots : place[b] # "closed"
    /\ place' = [b \in Bots |-> "closed"]
    /\ gate' = <<>>
    /\ hand' = [b \in Bots |-> Nothing]
    /\ timer' = [b \in Bots |-> 0]
    /\ attempt' = [b \in Bots |-> 0]
    /\ UNCHANGED <<published, mailbox, outbox, since, channel, lost, inbound>>
-----------------------------------------------------------------------------
\* The way back.

\* The human writes in the channel, and every bot will be told, in its time.
\* The message has text: one of mentions only is noted by the bots and dropped.
Write ==
    /\ Len(published) + written < MaxTraffic
    /\ written' = written + 1
    /\ unseen' = unseen \cup {<<written + 1, b>> : b \in Bots}
    /\ UNCHANGED <<published, mailbox, sender, since, channel, lost, seen, first, late, taken>>

\* Mutated form of Remembered: only the last message is kept.
RememberedLast(m) == [x \in DOMAIN seen \cap {m} |-> seen[x]]

\* _inbound_already_seen first forgets what is too old.
Remembered(m) == [x \in {y \in DOMAIN seen : seen[y] <= DedupTTL} |-> seen[x]]

\* The message among those seen, at this moment.
Noted(m, ages) == [x \in DOMAIN ages \cup {m} |-> IF x = m THEN 0 ELSE ages[x]]

\* _handle_inbound_message, of a message a human wrote in this channel: the
\* first bot that sees it takes it, and marks it before its handler runs.
HandleInboundMessage(m, b) ==
    /\ <<m, b>> \in unseen
    /\ place[b] \notin {"down", "closed"}
    /\ unseen' = unseen \ {<<m, b>>}
    /\ IF m \in DOMAIN Remembered(m)
       THEN seen' = Remembered(m) /\ UNCHANGED taken
       ELSE /\ seen' = Noted(m, Remembered(m))
            /\ taken' = [taken EXCEPT ![m] = @ + 1]
    /\ first' = IF m \in DOMAIN first THEN first ELSE Noted(m, first)
    /\ late' = IF m \in DOMAIN first /\ first[m] > DedupTTL THEN late \cup {m} ELSE late
    /\ UNCHANGED <<published, mailbox, sender, since, channel, lost, written>>
-----------------------------------------------------------------------------
\* Time passes.  Ages beyond those compared with are not told apart.
Sooner(n) == IF n = 0 THEN 0 ELSE n - 1
Older(n) == IF n > DedupTTL THEN n ELSE n + 1
Tick ==
    /\ timer' = [b \in Bots |-> Sooner(timer[b])]
    /\ since' = IF since < MinInterval THEN since + 1 ELSE since
    /\ seen' = [m \in DOMAIN seen |-> Older(seen[m])]
    /\ first' = [m \in DOMAIN first |-> Older(first[m])]
    /\ UNCHANGED <<published, mailbox, outbox, place, hand, attempt, gate, channel, lost,
                   written, unseen, late, taken>>

ChatInit ==
    /\ published = <<>> /\ mailbox = <<>> /\ channel = <<>> /\ gate = <<>> /\ lost = {}
    /\ outbox = [b \in Bots |-> <<>>]
    /\ place = [b \in Bots |-> "starting"]
    /\ hand = [b \in Bots |-> Nothing]
    /\ attempt = [b \in Bots |-> 0]
    /\ timer = [b \in Bots |-> 0]
    /\ since = MinInterval
    /\ written = 0 /\ unseen = {} /\ late = {}
    /\ seen = <<>> /\ first = <<>>
    /\ taken = [m \in 1..MaxTraffic |-> 0]

Send(b) ==
    \/ TakeItem(b)
    \/ Pace(b)
    \/ PaceEnds(b)
    \/ SendSucceeds(b)
    \/ SendFails(b)
    \/ RateLimited(b)
    \/ BackoffEnds(b)

ChatNext ==
    \/ \E b \in Bots, n \in 1..MaxChunks : Publish(b, n)
    \/ DrainMailbox
    \/ \E b \in Bots : StartFails(b) \/ Start(b) \/ Send(b)
    \/ StopAll
    \/ Write
    \/ \E m \in 1..MaxTraffic, b \in Bots : HandleInboundMessage(m, b)
    \/ Tick

ChatSpec == ChatInit /\ [][ChatNext]_chatVars

\* The event loop runs what is ready, sleeps end, and every request to Discord
\* gets an answer, which may always be the same.
FairChatSpec ==
    /\ ChatSpec
    /\ WF_chatVars(DrainMailbox)
    /\ WF_chatVars(Tick)
    /\ \A b \in Bots : WF_chatVars(StartFails(b) \/ Start(b)) /\ WF_chatVars(Send(b))
-----------------------------------------------------------------------------
ChatTypeOK ==
    /\ published \in Seq([bot : Bots, chunks : 1..MaxChunks])
    /\ mailbox \in Seq(DOMAIN published) /\ Len(mailbox) <= MailboxMax
    /\ outbox \in [Bots -> Seq(Post)]
    /\ place \in [Bots -> Place]
    /\ hand \in [Bots -> Post \cup {Nothing}]
    /\ attempt \in [Bots -> 0..MaxSendRetries]
    /\ timer \in [Bots -> Nat]
    /\ gate \in Seq(Bots) /\ IsInjective(gate)
    /\ since \in 0..MinInterval
    /\ channel \in Seq(Post) /\ lost \subseteq Post
    /\ unseen \subseteq (1..written) \X Bots
    /\ DOMAIN seen \subseteq DOMAIN first
    /\ late \subseteq DOMAIN first

\* p comes before q among the posts of one bot.
Before(p, q) ==
    /\ published[p[1]].bot = published[q[1]].bot
    /\ p[1] < q[1] \/ (p[1] = q[1] /\ p[2] < q[2])

\* The channel shows the posts of a bot in the order they were published, the
\* chunks of a text included, none of them twice, and a gap only where a post
\* was dropped by a full mailbox or given up with a warning; rate limits and
\* the other bots that wait for the channel change nothing about that.
PostsInOrder ==
    /\ IsInjective(channel)
    /\ \A i \in DOMAIN channel, e \in DOMAIN published : \A p \in Posts(e) :
          Before(p, channel[i]) => p \in lost \cup {channel[j] : j \in 1..(i - 1)}

\* However many bots have something to say, and whatever they wait for, two
\* posts of the channel are MinInterval apart.
PacedPosts == [][channel' # channel => since >= MinInterval]_chatVars

\* The channel reads as the bots speak.
ChannelReadsWell == []PostsInOrder /\ PacedPosts

\* A message in the channel becomes one command, however many bots see it, if
\* they all do so while the first sight of it is remembered; and it becomes a
\* command as soon as one has seen it.
TakenOnce == \A m \in DOMAIN first : taken[m] >= 1 /\ (m \notin late => taken[m] = 1)

\* What has reached an outbox leaves it, although other bots want the channel
\* and Discord may refuse every request, unless the sender never came up, has
\* died or was stopped.
QueuedIsSent ==
    \A b \in Bots :
        outbox[b] # <<>> ~> (outbox[b] = <<>> \/ place[b] \in {"dead", "down", "closed"})
=============================================================================
