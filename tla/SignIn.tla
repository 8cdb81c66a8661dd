------------------------------- MODULE SignIn -------------------------------
(***************************************************************************)
(* Tokens of the Nous Portal: the backends that get, refresh and renew     *)
(* them (backend/nous_portal_oauth.py) under a lock of their session       *)
(* (backends_factory.py), the device code flow that asks a human           *)
(* (auth/oauth.py) and the file all sessions of a user share               *)
(* (auth/token_store.py), while requests fail, tasks are cancelled and     *)
(* tokens age.                                                             *)
(*                                                                         *)
(* Tokens are numbered in the order the portal issues them, an access      *)
(* token and its refresh token alike; 0 is none.  They live equally long,  *)
(* so time is the number of tokens that are about to expire and that have. *)
(***************************************************************************)
EXTENDS Naturals, Sequences

CONSTANTS
    Backends,       \* NousPortalOAuthBackend objects
    Sessions,       \* processes they may run in
    Layouts,        \* which backend runs in which of them
    Portals,        \* [rotates, expires]: whether a refresh token works once,
                    \* and whether tokens come with expires_in
    MaxAttempts,    \* attempts of complete
    ExpiresIn,      \* seconds a device code lives
    Interval,       \* seconds between polls the portal asks for
    PollCap,        \* the most poll_for_token starts with
    MaxPoll,        \* and the most it slows down to
    MaxIssued,      \* bound: tokens ever
    MaxCalls,       \* bound: calls ever
    MaxCuts         \* bound: interrupts

ASSUME SignInConstants ==
    /\ Layouts \subseteq [Backends -> Sessions]
    /\ Portals \subseteq [rotates : BOOLEAN, expires : BOOLEAN]
    /\ {MaxAttempts, ExpiresIn, Interval, PollCap, MaxPoll} \subseteq Nat \ {0}
    /\ PollCap <= MaxPoll
    /\ {MaxIssued, MaxCalls, MaxCuts} \subseteq Nat

VARIABLES
    session,    \* the session of each backend
    portal,     \* which portal it is
    issued,     \* tokens issued ever
    stale,      \* tokens 1..stale expire within the skew
    dead,       \* tokens 1..dead have expired
    spent,      \* refresh tokens that were used and work no more
    file,       \* tokens.json: [access, refresh]
    held,       \* per backend, _token
    lock,       \* per session, its holder and those who wait for it
    place,      \* per backend, where it is, see Place
    attempt,    \* per backend, the attempt of complete; 0: only a token is wanted
    sent,       \* per backend, whether its request had a token the API takes
    flow,       \* per backend, what its thread does: see Refreshing and Signing
    orphans,    \* refresh tokens, or 0 for a device code, that threads of
                \* cancelled tasks still work with
    calls, cuts,    \* bounded counters
    refused,    \* history: backends whose last call ended with a 401
    trouble,    \* history: and those it met another failure before
    forfeited,  \* history: refresh tokens whose answer nobody received or saved
    contested,  \* history: refresh tokens two sessions had in use at once
    replayed    \* history: refresh tokens presented when they were spent

Place == {"idle", "lock", "refreshing", "signing", "asking", "pausing"}

external == <<session, portal, issued, stale, dead, spent>>
request == <<attempt, sent, refused, trouble>>
history == <<forfeited, contested, replayed>>
signInVars == <<external, file, held, lock, place, flow, orphans, request, calls, cuts, history>>

NoFlow == [refresh |-> 0, left |-> 0, every |-> 0]
Refreshing(r) == [refresh |-> r, left |-> 0, every |-> 0]
Signing(left, every) == [refresh |-> 0, left |-> left, every |-> every]

Shorter(m, n) == IF m < n THEN m ELSE n
-----------------------------------------------------------------------------
\* The portal and its API (external).
Valid(n) == n > dead
Refreshable(r) == r \notin spent

\* It issues a token; from here on "issued'" is its number.
Issue == issued < MaxIssued /\ issued' = issued + 1

Spend(r) == spent' = IF portal.rotates THEN spent \cup {r} ELSE spent

\* is_token_expiring, of the expires_at the file has for a token.
Expiring(n) == portal.expires /\ n <= stale

\* _save_token and set_provider_tokens: the memory, and then the file.
HoldToken(b) == held' = [held EXCEPT ![b] = issued']

SaveToken(b, refresh) ==
    /\ HoldToken(b)
    /\ file' = [access |-> issued', refresh |-> refresh]
-----------------------------------------------------------------------------
\* A call of a backend.

\* async with _get_auth_lock(provider)
Acquire(b) == lock' = [lock EXCEPT ![session[b]] = Append(@, b)]

\* Mutated form of Release: a backend that asked for a token keeps the lock.
ReleaseKept(b) == UNCHANGED lock

\* The holder, first in line, leaves.
Release(b) == lock' = [lock EXCEPT ![session[b]] = Tail(@)]

\* complete, or with attempt 0 a look for models or the planner's ensure_oauth.
\* A backend has one call at a time: one of the same agent beside it, such as a
\* summary, is that of another backend of the session here.
Call(b, first) ==
    /\ place[b] = "idle"
    /\ calls < MaxCalls /\ calls' = calls + 1
    /\ place' = [place EXCEPT ![b] = "lock"]
    /\ attempt' = [attempt EXCEPT ![b] = first]
    /\ refused' = refused \ {b} /\ trouble' = trouble \ {b}
    /\ Acquire(b)
    /\ UNCHANGED <<external, file, held, flow, orphans, sent, cuts, history>>

\* The call ends, with a token, an answer or an error.
Over(b) ==
    /\ place' = [place EXCEPT ![b] = "idle"]
    /\ attempt' = [attempt EXCEPT ![b] = 0]
    /\ sent' = [sent EXCEPT ![b] = FALSE]

Ends(b) == Over(b) /\ trouble' = trouble \ {b} /\ UNCHANGED refused
EndsRefused(b) == Over(b) /\ refused' = refused \cup {b} /\ UNCHANGED trouble

\* get_access_token returns n.  A 401 of the last attempt stays the outcome of
\* the call, although its token has been replaced.
Got(b, n) ==
    \/ attempt[b] = 0 /\ Ends(b)
    \/ attempt[b] > MaxAttempts /\ EndsRefused(b)
    \/ /\ attempt[b] \in 1..MaxAttempts
       /\ place' = [place EXCEPT ![b] = "asking"]
       /\ sent' = [sent EXCEPT ![b] = Valid(n)]
       /\ UNCHANGED <<attempt, refused, trouble>>

StartRefresh(b) ==
    /\ place' = [place EXCEPT ![b] = "refreshing"]
    /\ flow' = [flow EXCEPT ![b] = Refreshing(file.refresh)]
    /\ contested' = contested \cup
           {r \in {file.refresh} : \E c \in Backends : /\ flow[c].refresh = r
                                                       /\ session[c] # session[b]}

\* The device code is requested; the poll interval is at most PollCap.
StartSigning(b) ==
    /\ place' = [place EXCEPT ![b] = "signing"]
    /\ flow' = [flow EXCEPT ![b] = Signing(ExpiresIn, Shorter(Interval, PollCap))]

\* _get_access_token_unlocked up to its first await.  The token in memory has
\* no expires_at, so it does for as long as the API takes it.
GetToken(b) ==
    /\ place[b] = "lock" /\ Head(lock[session[b]]) = b
    /\ LET memory == held[b] # 0
           stored == ~memory /\ file.access # 0 /\ ~Expiring(file.access)
       IN \/ /\ memory \/ stored
             /\ held' = IF memory THEN held ELSE [held EXCEPT ![b] = file.access]
             /\ Got(b, held'[b])
             /\ Release(b)
             /\ UNCHANGED <<flow, contested>>
          \/ /\ ~memory /\ ~stored /\ file.refresh # 0
             /\ StartRefresh(b)
             /\ UNCHANGED <<held, lock, request>>
          \/ /\ ~memory /\ ~stored /\ file.refresh = 0
             /\ StartSigning(b)
             /\ UNCHANGED <<held, lock, request, contested>>
    /\ UNCHANGED <<external, file, orphans, calls, cuts, forfeited, replayed>>

\* The flow is done, and the backend has its token.
Done(b) ==
    /\ flow' = [flow EXCEPT ![b] = NoFlow]
    /\ Release(b)
    /\ Got(b, issued')

\* No token: complete raises, or answers auth_error after a 401.
Unsigned(b) ==
    /\ flow' = [flow EXCEPT ![b] = NoFlow]
    /\ Release(b)
    /\ Ends(b)
-----------------------------------------------------------------------------
\* The flows, each in a thread.

\* Mutated form of Renewed: the refresh token that was used is kept.
RenewedOld(r) == r

\* The refresh token that goes with a refreshed token: the one of the answer,
\* if it has one.
Renewed(r) == IF portal.rotates THEN issued' ELSE r

RefreshAnswers(b) ==
    LET r == flow[b].refresh
    IN /\ place[b] = "refreshing"
       /\ Refreshable(r)
       /\ Issue /\ Spend(r)
       /\ SaveToken(b, Renewed(r))
       /\ Done(b)
       /\ UNCHANGED <<session, portal, stale, dead, orphans, calls, cuts, history>>

\* The portal refuses it, cannot be reached, or its answer is lost: the
\* backend asks the human.
RefreshFails(b) ==
    LET r == flow[b].refresh
    IN /\ place[b] = "refreshing"
       /\ \/ /\ UNCHANGED <<issued, spent, forfeited>>
             /\ replayed' = replayed \cup ({r} \cap spent)
          \/ /\ Refreshable(r)
             /\ Issue /\ Spend(r)
             /\ forfeited' = forfeited \cup {r}
             /\ UNCHANGED replayed
       /\ StartSigning(b)
       /\ UNCHANGED <<session, portal, stale, dead, file, held, lock, orphans, request, calls, cuts,
                      contested>>

\* The file cannot be written: the backend asks the human, although it has its
\* token in memory.
RefreshUnsaved(b) ==
    LET r == flow[b].refresh
    IN /\ place[b] = "refreshing"
       /\ Refreshable(r)
       /\ Issue /\ Spend(r)
       /\ HoldToken(b)
       /\ forfeited' = forfeited \cup {r}
       /\ StartSigning(b)
       /\ UNCHANGED <<session, portal, stale, dead, file, lock, orphans, request, calls, cuts,
                      contested, replayed>>

\* Mutated form of InTime: whoever waits is polled for.
InTimeAlways(left) == TRUE

\* while time.monotonic() < deadline
InTime(left) == left > 0

\* A poll finds the human has not answered yet, or is told to slow down.
PollPending(b) ==
    /\ place[b] = "signing" /\ InTime(flow[b].left)
    /\ \E every \in {flow[b].every, Shorter(flow[b].every + 1, MaxPoll)} :
          flow' = [flow EXCEPT ![b] = Signing(@.left - Shorter(@.left, every), every)]
    /\ UNCHANGED <<external, file, held, lock, place, orphans, request, calls, cuts, history>>

\* The human has approved the code.
PollApproved(b) ==
    /\ place[b] = "signing" /\ InTime(flow[b].left)
    /\ Issue
    /\ SaveToken(b, issued')
    /\ Done(b)
    /\ UNCHANGED <<session, portal, stale, dead, spent, orphans, calls, cuts, history>>

\* The file cannot be written: complete raises, with the token in memory.
ApprovedUnsaved(b) ==
    /\ place[b] = "signing" /\ InTime(flow[b].left)
    /\ Issue
    /\ HoldToken(b)
    /\ Unsigned(b)
    /\ UNCHANGED <<session, portal, stale, dead, spent, file, orphans, calls, cuts, history>>

\* The human declines, or the portal fails.
PollRefused(b) ==
    /\ place[b] = "signing" /\ InTime(flow[b].left)
    /\ Unsigned(b)
    /\ UNCHANGED <<external, file, held, orphans, calls, cuts, history>>

\* The time is over.
PollEnds(b) ==
    /\ place[b] = "signing" /\ ~InTime(flow[b].left)
    /\ Unsigned(b)
    /\ UNCHANGED <<external, file, held, orphans, calls, cuts, history>>
-----------------------------------------------------------------------------
\* The request to the model.

Answers(b) ==
    /\ place[b] = "asking" /\ sent[b]
    /\ Ends(b)
    /\ UNCHANGED <<external, file, held, lock, flow, orphans, calls, cuts, history>>

\* Mutated form of Forget: the refused token stays in memory.
ForgetNot(b) == UNCHANGED held

Forget(b) == held' = [held EXCEPT ![b] = 0]

\* Status 401: the token in memory goes, and the next one is asked for.
Unauthorized(b) ==
    /\ place[b] = "asking" /\ ~sent[b]
    /\ Forget(b)
    /\ attempt' = [attempt EXCEPT ![b] = @ + 1]
    /\ place' = [place EXCEPT ![b] = "lock"]
    /\ Acquire(b)
    /\ UNCHANGED <<external, file, flow, orphans, sent, refused, trouble, calls, cuts, history>>

\* A server error or no connection: try again after a pause, while attempts
\* last.  Any other status ends the call.
Fails(b) ==
    /\ place[b] = "asking"
    /\ \/ /\ attempt[b] < MaxAttempts
          /\ attempt' = [attempt EXCEPT ![b] = @ + 1]
          /\ place' = [place EXCEPT ![b] = "pausing"]
          /\ trouble' = trouble \cup {b}
          /\ UNCHANGED <<sent, refused>>
       \/ Ends(b)
    /\ UNCHANGED <<external, file, held, lock, flow, orphans, calls, cuts, history>>

AskAgain(b) ==
    /\ place[b] = "pausing"
    /\ place' = [place EXCEPT ![b] = "asking"]
    /\ sent' = [sent EXCEPT ![b] = Valid(held[b])]
    /\ UNCHANGED <<external, file, held, lock, flow, orphans, attempt, refused, trouble,
                   calls, cuts, history>>
-----------------------------------------------------------------------------
\* An interrupt cancels the tasks of a session.  A thread goes on without the
\* task that waited for it, and nobody takes its token.
CancelTasks(p) ==
    LET cut == {b \in Backends : session[b] = p /\ place[b] # "idle"}
        inThread == {b \in cut : place[b] \in {"refreshing", "signing"}}
    IN /\ cut # {}
       /\ cuts < MaxCuts /\ cuts' = cuts + 1
       /\ place' = [b \in Backends |-> IF b \in cut THEN "idle" ELSE place[b]]
       /\ trouble' = trouble \ cut
       /\ lock' = [lock EXCEPT ![p] = <<>>]
       /\ orphans' = orphans \cup {flow[b].refresh : b \in inThread}
       /\ forfeited' = forfeited \cup ({flow[b].refresh : b \in inThread} \ {0})
       /\ flow' = [b \in Backends |-> IF b \in cut THEN NoFlow ELSE flow[b]]
       /\ attempt' = [b \in Backends |-> IF b \in cut THEN 0 ELSE attempt[b]]
       /\ sent' = [b \in Backends |-> b \notin cut /\ sent[b]]
       /\ UNCHANGED <<external, file, held, refused, calls, contested, replayed>>

\* Such a thread ends, with or without a token.
OrphanEnds(r) ==
    /\ r \in orphans
    /\ orphans' = orphans \ {r}
    /\ \/ UNCHANGED <<issued, spent>>
       \/ r = 0 /\ Issue /\ UNCHANGED spent
       \/ r # 0 /\ Refreshable(r) /\ Issue /\ Spend(r)
    /\ UNCHANGED <<session, portal, stale, dead, file, held, lock, place, flow, request, calls,
                   cuts, history>>

\* Time passes for the tokens.
TimePasses ==
    /\ \/ stale < issued /\ stale' = stale + 1 /\ UNCHANGED dead
       \/ dead < stale /\ dead' = dead + 1 /\ UNCHANGED stale
    /\ UNCHANGED <<session, portal, issued, spent, file, held, lock, place, flow, orphans,
                   request, calls, cuts, history>>
-----------------------------------------------------------------------------
SignInInit ==
    /\ session \in Layouts
    /\ portal \in Portals
    /\ issued = 0 /\ stale = 0 /\ dead = 0 /\ spent = {}
    /\ file = [access |-> 0, refresh |-> 0]
    /\ held = [b \in Backends |-> 0]
    /\ lock = [p \in Sessions |-> <<>>]
    /\ place = [b \in Backends |-> "idle"]
    /\ flow = [b \in Backends |-> NoFlow]
    /\ orphans = {}
    /\ attempt = [b \in Backends |-> 0]
    /\ sent = [b \in Backends |-> FALSE]
    /\ refused = {} /\ trouble = {}
    /\ calls = 0 /\ cuts = 0
    /\ forfeited = {} /\ contested = {} /\ replayed = {}

FlowThread(b) ==
    \/ RefreshAnswers(b)
    \/ RefreshFails(b)
    \/ RefreshUnsaved(b)
    \/ PollPending(b)
    \/ PollEnds(b)

Human(b) ==
    \/ PollApproved(b)
    \/ ApprovedUnsaved(b)
    \/ PollRefused(b)

Api(b) ==
    \/ Answers(b)
    \/ Unauthorized(b)
    \/ Fails(b)
    \/ AskAgain(b)

\* What a backend does without anybody's help.
Works(b) ==
    \/ GetToken(b)
    \/ Api(b)
    \/ FlowThread(b)

SignInNext ==
    \/ \E b \in Backends, first \in 0..1 : Call(b, first)
    \/ \E b \in Backends : Works(b) \/ Human(b)
    \/ \E p \in Sessions : CancelTasks(p)
    \/ \E r \in orphans : OrphanEnds(r)
    \/ TimePasses

SignInSpec == SignInInit /\ [][SignInNext]_signInVars

\* The event loop runs what is ready; a request to the portal or the API is
\* answered or times out, whatever the answer, and a poll follows its pause.
\* The human need not do anything.
FairSignInSpec == SignInSpec /\ \A b \in Backends : WF_signInVars(Works(b))
-----------------------------------------------------------------------------
SignInTypeOK ==
    /\ session \in Layouts
    /\ portal \in Portals
    /\ issued \in 0..MaxIssued /\ stale \in 0..issued /\ dead \in 0..stale
    /\ spent \subseteq 1..issued
    /\ file \in [access : 0..issued, refresh : 0..issued]
    /\ held \in [Backends -> 0..issued]
    /\ place \in [Backends -> Place]
    /\ attempt \in [Backends -> 0..(MaxAttempts + 1)]
    /\ sent \in [Backends -> BOOLEAN]
    /\ refused \cup trouble \subseteq Backends
    /\ flow \in [Backends -> [refresh : 0..issued, left : 0..ExpiresIn, every : 0..MaxPoll]]
    /\ \A b \in Backends : /\ flow[b].refresh # 0 <=> place[b] = "refreshing"
                           /\ flow[b].every # 0 <=> place[b] = "signing"
    /\ orphans \subseteq 0..issued
    /\ lock \in [Sessions -> Seq(Backends)]
    /\ \A p \in Sessions, b \in Backends :
          (\E i \in DOMAIN lock[p] : lock[p][i] = b) <=>
              session[b] = p /\ place[b] \in {"lock", "refreshing", "signing"}

\* With a portal whose refresh tokens work once, however many backends find a
\* token expiring at the same moment: a spent refresh token is presented only
\* when the answer to its use was lost, thrown away or could not be saved, or
\* another session had it in use as well.
RefreshTokensWorkOnce == replayed \subseteq forfeited \cup contested

\* A token that expired, in memory, in the file or while another backend
\* renewed it, does not end a call with an authentication error, as long as
\* the portal tells when tokens expire and the requests of the call did not
\* fail for other reasons.
ExpiryAloneEndsNoCall == portal.expires => refused \subseteq trouble

\* Every call ends, although the human may never look at a device code and
\* the calls of all backends wait behind it.
CallsEnd == \A b \in Backends : place[b] # "idle" ~> place[b] = "idle"
=============================================================================
