------------------------ MODULE ToolApprovalProofs ------------------------
(* Proofs about the approval of tool calls, for every set of calls, every  *)
(* set of policies and every bound.                                        *)
EXTENDS ToolApproval, SequenceTheorems, TLAPS

(***************************************************************************)
(* Tasks: what is queued after an append and after the head is taken.      *)
(***************************************************************************)

LEMMA QueuedAppend ==
  ASSUME tasks \in Seq(Task), NEW t \in Token, NEW d \in Decision,
         tasks' = Append(tasks, [token |-> t, decision |-> d])
  PROVE  tasks' \in Seq(Task) /\ Queued \cup {t} \subseteq Queued'
<1> DEFINE n == Len(tasks)
<1>1. tasks' \in Seq(Task) /\ Len(tasks') = n + 1 /\ n \in Nat
  BY DEF Task
<1>2. \A i \in 1..n : tasks'[i] = tasks[i]
  BY DEF Task
<1>3. tasks'[n + 1].token = t
  BY DEF Task
<1>4. DOMAIN tasks' = 1..(n + 1) /\ DOMAIN tasks = 1..n
  BY <1>1
<1>5. QED
  BY <1>1, <1>2, <1>3, <1>4 DEF Queued

LEMMA QueuedTail ==
  ASSUME tasks \in Seq(Task), tasks # <<>>, tasks' = Tail(tasks)
  PROVE  /\ tasks' \in Seq(Task)
         /\ Head(tasks) \in Task
         /\ Queued \subseteq Queued' \cup {Head(tasks).token}
<1>1. /\ tasks' \in Seq(Task) /\ Len(tasks) \in Nat /\ Len(tasks) > 0
      /\ Len(tasks') = Len(tasks) - 1
  BY DEF Task
<1>2. DOMAIN tasks' = 1..(Len(tasks) - 1) /\ DOMAIN tasks = 1..Len(tasks)
  BY <1>1
<1>3. Head(tasks) = tasks[1] /\ \A i \in 1..(Len(tasks) - 1) : tasks'[i] = tasks[i + 1]
  BY <1>1
<1>4. ASSUME NEW i \in 2..Len(tasks) PROVE tasks[i].token \in Queued'
  <2>1. i - 1 \in 1..(Len(tasks) - 1) /\ tasks'[i - 1] = tasks[i]
    BY <1>1, <1>3
  <2>2. QED
    BY <2>1, <1>2 DEF Queued
<1>5. \A i \in DOMAIN tasks : i = 1 \/ i \in 2..Len(tasks)
  BY <1>1, <1>2
<1>6. Queued \subseteq Queued' \cup {Head(tasks).token}
  BY <1>3, <1>4, <1>5 DEF Queued
<1>7. Head(tasks) \in Task
  BY <1>1, <1>3
<1>8. QED
  BY <1>1, <1>6, <1>7

(***************************************************************************)
(* Type correctness.                                                       *)
(***************************************************************************)

LEMMA NormalTyped == \A c \in Calls : Normalize(c) \in Calls
  BY ApprovalConstants DEF Normalize

LEMMA Bounds == /\ MaxTokens \in Nat /\ MaxQueue \in Nat
                /\ MaxAnswers \in Nat /\ MaxCrashes \in Nat
  BY ApprovalConstants

LEMMA InitTyped == Init => TypeOK
  BY ApprovalConstants DEF Init, TypeOK, Token, State, Notice, Unissued

LEMMA HeadIsTask ==
  ASSUME TypeOK, ResolveApproval
  PROVE  Head(tasks).token \in Token /\ tasks' \in Seq(Task)
  BY QueuedTail DEF ResolveApproval, TypeOK, Task

LEMMA ResolveTyped ==
  ASSUME TypeOK, ResolveApproval
  PROVE  /\ state' \in [Token -> State]
         /\ asked' \subseteq asked
         /\ running' \subseteq Token
         /\ notice' \in [Token -> Notice]
         /\ consents' \in [Token -> Nat] /\ ran' \in [Token -> Nat]
         /\ \A t \in Token : t > issued => state'[t] = "none" /\ notice'[t] = "none"
<1> DEFINE t == Head(tasks).token
<1>1. t \in Token
  BY HeadIsTask
<1> HIDE DEF t
<1>2. CASE ResolveRefused(t)
  BY <1>1, <1>2 DEF ResolveRefused, TypeOK, history, State, Unissued
<1>3. CASE ResolveDenied(t)
  BY <1>1, <1>3 DEF ResolveDenied, MayResolve, Live, TypeOK, history, State,
                    Notice, Told, ClearApproval, Unissued
<1>4. CASE ResolveGranted(t)
  <2>1. state' \in [Token -> State] /\ asked' = asked /\ running' \subseteq Token
    BY <1>1, <1>4 DEF ResolveGranted, TypeOK, State
  <2>2. consents' \in [Token -> Nat] /\ ran' \in [Token -> Nat] /\ notice' = notice
    BY <1>1, <1>4 DEF ResolveGranted, TypeOK
  <2>3. \A u \in Token : u > issued => state'[u] = "none"
    BY <1>1, <1>4 DEF ResolveGranted, MayResolve, Live, TypeOK, Unissued
  <2>4. QED
    BY <1>1, <2>1, <2>2, <2>3 DEF TypeOK, Unissued
<1>5. QED
  BY <1>2, <1>3, <1>4 DEF ResolveApproval, t

LEMMA NextTyped == TypeOK /\ [Next]_vars => TypeOK'
<1> SUFFICES ASSUME TypeOK, [Next]_vars PROVE TypeOK'
  OBVIOUS
<1> USE Bounds DEF session, surfaces, counters, history
<1>1. ASSUME NEW c \in Calls, ExecuteTool(c) PROVE TypeOK'
  <2>1. issued + 1 \in Token /\ issued' = issued + 1 /\ 1..issued \subseteq 1..issued'
    BY <1>1 DEF ExecuteTool, TypeOK, Token
  <2>2. call' \in [Token -> Calls \cup {Nothing}] /\ state' \in [Token -> State]
    BY <1>1, <2>1, NormalTyped DEF ExecuteTool, TypeOK, State
  <2>3. asked' \subseteq 1..issued' /\ prompts' \subseteq 1..issued'
    BY <1>1, <2>1 DEF ExecuteTool, Show, TypeOK
  <2>4. disk' \in [pending : SUBSET (1..issued'), read : SUBSET (1..issued')]
    BY <1>1, <2>1 DEF ExecuteTool, TypeOK
  <2>5. issued' \in 0..MaxTokens /\ lapsed' \in 0..issued'
    BY <1>1, <2>1 DEF ExecuteTool, TypeOK, Token
  <2>6. \A t \in Token : t > issued' => Unissued(t)'
    BY <1>1, <2>1 DEF ExecuteTool, TypeOK, Unissued, Token
  <2>7. QED
    BY <1>1, <2>1, <2>2, <2>3, <2>4, <2>5, <2>6 DEF ExecuteTool, TypeOK
<1>2. CASE TimePasses
  BY <1>2 DEF TimePasses, TypeOK, Unissued
<1>3. ASSUME NEW t \in Token, NEW d \in Decision, HandleApprovalResolve(t, d),
             prompts' \subseteq prompts,
             UNCHANGED <<session, policy, issued, lapsed, call, state,
                         restored, running, notice, disk, crashes, history>>
      PROVE  TypeOK'
  <2>1. tasks' \in Seq(Task)
    BY <1>3, QueuedAppend DEF HandleApprovalResolve, TypeOK
  <2>2. asked' \subseteq asked /\ answers' \in 0..MaxAnswers
    BY <1>3 DEF HandleApprovalResolve, ClearApproval, TypeOK
  <2>3. QED
    BY <1>3, <2>1, <2>2 DEF TypeOK, Unissued
<1>4. ASSUME NEW t \in Token, NEW d \in Decision, Press(t, d) PROVE TypeOK'
  BY <1>3, <1>4 DEF Press
<1>5. ASSUME NEW d \in Decision, DispatchDiscordInbound(d) PROVE TypeOK'
  <2>1. PICK t \in asked : HandleApprovalResolve(t, d)
    BY <1>5 DEF DispatchDiscordInbound
  <2>2. t \in Token
    BY DEF TypeOK, Token
  <2>3. QED
    BY <1>3, <1>5, <2>1, <2>2 DEF DispatchDiscordInbound
<1>6. CASE ResolveApproval
  BY <1>6, HeadIsTask, ResolveTyped DEF ResolveApproval, TypeOK, Unissued
<1>7. ASSUME NEW t \in Token, FinishRun(t) \/ FailRun(t) PROVE TypeOK'
  <2>1. CASE FinishRun(t)
    BY <2>1 DEF FinishRun, TypeOK, Told, ClearApproval, State, Notice, Unissued
  <2>2. CASE FailRun(t)
    BY <2>2 DEF FailRun, TypeOK, Unissued
  <2>3. QED
    BY <1>7, <2>1, <2>2
<1>8. ASSUME NEW a, DrainInbox(a) PROVE TypeOK'
  <2>1. notice' \in [Token -> Notice]
    BY <1>8 DEF DrainInbox, TypeOK, Notice
  <2>2. \A t \in Token : t > issued => notice'[t] = "none"
    BY <1>8 DEF DrainInbox, TypeOK, Unissued
  <2>3. QED
    BY <1>8, <2>1, <2>2 DEF DrainInbox, TypeOK, Unissued
<1>9. CASE FlushCheckpoint
  <2>1. ExportPending \subseteq 1..issued
    BY DEF ExportPending, Live, Token, TypeOK, Unissued
  <2>2. {t \in Token : notice[t] = "read"} \subseteq 1..issued
    BY DEF Token, TypeOK, Unissued
  <2>3. disk' \in [pending : SUBSET (1..issued), read : SUBSET (1..issued)]
    BY <1>9, <2>1, <2>2 DEF FlushCheckpoint
  <2>4. QED
    BY <1>9, <2>3 DEF FlushCheckpoint, TypeOK, Unissued
<1>10. CASE Crash
  <2>1. state' \in [Token -> State] /\ notice' \in [Token -> Notice]
    BY <1>10 DEF Crash, State, Notice, TypeOK
  <2>2. tasks' \in Seq(Task)
    BY <1>10 DEF Crash
  <2>3. \A t \in Token : t > issued => Unissued(t)'
    BY <1>10 DEF Crash, TypeOK, Unissued
  <2>4. crashes' \in 0..MaxCrashes
    BY <1>10 DEF Crash, TypeOK
  <2>5. QED
    BY <1>10, <2>1, <2>2, <2>3, <2>4 DEF Crash, TypeOK
<1>11. CASE ImportPending
  <2>1. state' \in [Token -> State]
    BY <1>11 DEF ImportPending, State
  <2>2. \A t \in Token : t > issued => Unissued(t)'
    BY <1>11 DEF ImportPending, TypeOK, Unissued
  <2>3. QED
    BY <1>11, <2>1, <2>2 DEF ImportPending, TypeOK
<1>12. CASE RepublishPendingApprovals
  BY <1>12 DEF RepublishPendingApprovals, Show, TypeOK, Unissued
<1>13. CASE UNCHANGED vars
  BY <1>13 DEF vars, TypeOK, Unissued
<1>14. QED
  BY <1>1, <1>2, <1>4, <1>5, <1>6, <1>7, <1>8, <1>9, <1>10, <1>11, <1>12,
     <1>13 DEF Next

\* Whatever is asked, answered, run, saved and restored, the store, the
\* bridge's list, the prompts and the saved tokens hold what they should.
THEOREM ApprovalTyped == Spec => []TypeOK
  BY InitTyped, NextTyped, PTL DEF Spec

(***************************************************************************)
(* Safety.  For a resume to bring back no two requests for one call, what  *)
(* was saved must already hold no such pair.                               *)
(***************************************************************************)

Savable(t) == t \in disk.pending /\ t > lapsed

OneSavedRequestPerCall ==
  \A t, u \in Token : Savable(t) /\ Savable(u) /\ call[t] = call[u] => t = u

SafeInv == /\ NoRequestIsForgotten
           /\ OneOpenRequestPerCall
           /\ OneSavedRequestPerCall

\* What a step that asks for nothing new needs: it leaves no more requests
\* open and no more saved than there were.
LEMMA FewerOpen ==
  ASSUME OneOpenRequestPerCall, OneSavedRequestPerCall, UNCHANGED call,
         \A t \in Token : Live(t)' => Live(t),
         \A t \in Token : Savable(t)' => Savable(t)
  PROVE  OneOpenRequestPerCall' /\ OneSavedRequestPerCall'
  BY DEF OneOpenRequestPerCall, OneSavedRequestPerCall

LEMMA ResolveSafe ==
  ASSUME TypeOK, SafeInv, ResolveApproval
  PROVE  SafeInv'
<1> DEFINE t == Head(tasks).token
<1>1. t \in Token /\ Queued \subseteq Queued' \cup {t}
  BY HeadIsTask, QueuedTail DEF ResolveApproval, TypeOK
<1> HIDE DEF t
<1>2. /\ \A u \in Token : Live(u)' => Live(u) /\ u # t
      /\ asked \subseteq asked' \cup {t}
  <2>1. CASE ResolveRefused(t)
    BY <1>1, <2>1 DEF ResolveApproval, ResolveRefused, MayResolve, Live, TypeOK
  <2>2. CASE ResolveDenied(t)
    BY <1>1, <2>2 DEF ResolveApproval, ResolveDenied, MayResolve, Live,
                      ClearApproval, TypeOK
  <2>3. CASE ResolveGranted(t)
    BY <1>1, <2>3 DEF ResolveApproval, ResolveGranted, MayResolve, Live, TypeOK
  <2>4. QED
    BY <2>1, <2>2, <2>3 DEF ResolveApproval, t
<1>3. UNCHANGED <<restored, call, disk, lapsed>>
  BY DEF ResolveApproval
<1>4. NoRequestIsForgotten'
  BY <1>1, <1>2, <1>3 DEF SafeInv, NoRequestIsForgotten
<1>5. \A u \in Token : Savable(u)' => Savable(u)
  BY <1>3 DEF Savable
<1>6. QED
  BY <1>2, <1>3, <1>4, <1>5, FewerOpen DEF SafeInv

LEMMA InitSafe == Init => SafeInv
  BY DEF Init, SafeInv, NoRequestIsForgotten, OneOpenRequestPerCall,
         OneSavedRequestPerCall, Live, Savable

LEMMA NextSafe == TypeOK /\ SafeInv /\ [Next]_vars => SafeInv'
<1> SUFFICES ASSUME TypeOK, SafeInv, [Next]_vars PROVE SafeInv'
  OBVIOUS
<1> USE Bounds DEF session, surfaces, counters, history
<1>1. ASSUME NEW c \in Calls, ExecuteTool(c) PROVE SafeInv'
  <2> DEFINE n == issued + 1
  <2>1. /\ n \in Token /\ n > lapsed /\ ~Live(n) /\ ~Savable(n)
        /\ \A t \in Token : Live(t)' <=> Live(t) \/ t = n
        /\ \A t \in Token : Savable(t)' <=> Savable(t)
        /\ \A t \in Token : t # n => call'[t] = call[t]
        /\ call'[n] = Normalize(c)
    BY <1>1 DEF ExecuteTool, TypeOK, Unissued, Live, Savable, Token
  <2> HIDE DEF n
  <2>2. \A t \in Token : Live(t) => call[t] # Normalize(c)
    BY <1>1 DEF ExecuteTool, FindPending
  <2>3. OneOpenRequestPerCall' /\ OneSavedRequestPerCall'
    BY <2>1, <2>2 DEF SafeInv, OneOpenRequestPerCall, OneSavedRequestPerCall
  <2>4. asked' = asked \cup {n} /\ UNCHANGED <<restored, tasks>>
    BY <1>1 DEF ExecuteTool, Show, n
  <2>5. Queued' = Queued
    BY <2>4 DEF Queued
  <2>6. NoRequestIsForgotten'
    BY <2>1, <2>4, <2>5 DEF SafeInv, NoRequestIsForgotten
  <2>7. QED
    BY <2>3, <2>6 DEF SafeInv
<1>2. CASE TimePasses
  <2>1. /\ \A t \in Token : Live(t)' => Live(t)
        /\ \A t \in Token : Savable(t)' => Savable(t)
        /\ UNCHANGED <<call, asked, restored, tasks>>
    BY <1>2 DEF TimePasses, TypeOK, Live, Savable, Token
  <2>2. Queued' = Queued
    BY <2>1 DEF Queued
  <2>3. QED
    BY <2>1, <2>2, FewerOpen DEF SafeInv, NoRequestIsForgotten
<1>3. ASSUME NEW t \in Token, NEW d \in Decision, HandleApprovalResolve(t, d),
             UNCHANGED <<session, policy, issued, lapsed, call, state,
                         restored, running, notice, disk, crashes, history>>
      PROVE  SafeInv'
  <2>1. Queued \cup {t} \subseteq Queued'
    BY <1>3, QueuedAppend DEF HandleApprovalResolve, TypeOK
  <2>2. asked \subseteq asked' \cup {t}
    BY <1>3 DEF HandleApprovalResolve, ClearApproval
  <2>3. /\ \A u \in Token : Live(u)' = Live(u)
        /\ \A u \in Token : Savable(u)' = Savable(u)
    BY <1>3 DEF Live, Savable
  <2>4. QED
    BY <1>3, <2>1, <2>2, <2>3, FewerOpen DEF SafeInv, NoRequestIsForgotten
<1>4. ASSUME NEW t \in Token, NEW d \in Decision, Press(t, d) PROVE SafeInv'
  BY <1>3, <1>4 DEF Press
<1>5. ASSUME NEW d \in Decision, DispatchDiscordInbound(d) PROVE SafeInv'
  <2>1. PICK t \in asked : HandleApprovalResolve(t, d)
    BY <1>5 DEF DispatchDiscordInbound
  <2>2. t \in Token
    BY DEF TypeOK, Token
  <2>3. QED
    BY <1>3, <1>5, <2>1, <2>2 DEF DispatchDiscordInbound
<1>6. CASE ResolveApproval
  BY <1>6, ResolveSafe
<1>7. ASSUME NEW t \in Token, FinishRun(t) \/ FailRun(t) PROVE SafeInv'
  <2>1. /\ \A u \in Token : Live(u)' => Live(u) /\ u # t
        /\ \A u \in Token : Savable(u)' => Savable(u)
        /\ asked \subseteq asked' \cup {t}
        /\ UNCHANGED <<call, restored, tasks>>
    BY <1>7 DEF FinishRun, FailRun, TypeOK, Live, Savable, ClearApproval
  <2>2. Queued' = Queued
    BY <2>1 DEF Queued
  <2>3. QED
    BY <2>1, <2>2, FewerOpen DEF SafeInv, NoRequestIsForgotten
<1>8. ASSUME NEW a, DrainInbox(a) PROVE SafeInv'
  BY <1>8 DEF DrainInbox, SafeInv, NoRequestIsForgotten, OneOpenRequestPerCall,
              OneSavedRequestPerCall, Live, Savable, Queued
<1>9. CASE FlushCheckpoint
  <2>1. \A t \in Token : Savable(t)' => Live(t)
    BY <1>9 DEF FlushCheckpoint, Savable, ExportPending, Live
  <2>2. OneSavedRequestPerCall'
    BY <1>9, <2>1 DEF FlushCheckpoint, SafeInv, OneOpenRequestPerCall,
                      OneSavedRequestPerCall
  <2>3. QED
    BY <1>9, <2>2 DEF FlushCheckpoint, SafeInv, NoRequestIsForgotten,
                      OneOpenRequestPerCall, Live, Queued
<1>10. CASE Crash
  <2>1. \A t \in Token : ~Live(t)'
    BY <1>10 DEF Crash, Live
  <2>2. UNCHANGED <<call, lapsed, disk>>
    BY <1>10 DEF Crash
  <2>3. QED
    BY <2>1, <2>2 DEF SafeInv, NoRequestIsForgotten, OneOpenRequestPerCall,
                      OneSavedRequestPerCall, Savable
<1>11. CASE ImportPending
  <2>1. \A t \in Token : Live(t)' => Savable(t) /\ t \in restored'
    BY <1>11 DEF ImportPending, Live, Savable, TypeOK, Token
  <2>2. UNCHANGED <<call, lapsed, disk>>
    BY <1>11 DEF ImportPending
  <2>3. QED
    BY <2>1, <2>2 DEF SafeInv, NoRequestIsForgotten, OneOpenRequestPerCall,
                      OneSavedRequestPerCall, Savable
<1>12. CASE RepublishPendingApprovals
  BY <1>12 DEF RepublishPendingApprovals, Show, SafeInv, NoRequestIsForgotten,
               OneOpenRequestPerCall, OneSavedRequestPerCall, Live, Savable, Queued
<1>13. CASE UNCHANGED vars
  BY <1>13 DEF vars, SafeInv, NoRequestIsForgotten, OneOpenRequestPerCall,
               OneSavedRequestPerCall, Live, Savable, Queued
<1>14. QED
  BY <1>1, <1>2, <1>4, <1>5, <1>6, <1>7, <1>8, <1>9, <1>10, <1>11, <1>12,
     <1>13 DEF Next

LEMMA ApprovalSafe == Spec => [](TypeOK /\ SafeInv)
<1>1. Init => TypeOK /\ SafeInv
  BY InitTyped, InitSafe
<1>2. TypeOK /\ SafeInv /\ [Next]_vars => TypeOK' /\ SafeInv'
  BY NextTyped, NextSafe
<1>3. QED
  BY <1>1, <1>2, PTL DEF Spec

\* A request that can still be granted is listed, about to be listed, or has
\* its answer scheduled, in every interleaving of answers, expiries, crashes
\* and resumes.
THEOREM RequestsAreNotForgotten == Spec => []NoRequestIsForgotten
<1>1. SafeInv => NoRequestIsForgotten
  BY DEF SafeInv
<1>2. QED
  BY <1>1, ApprovalSafe, PTL

\* No call is asked for twice at a time, retries and resumes included.
THEOREM RequestsAreNotRepeated == Spec => []OneOpenRequestPerCall
<1>1. SafeInv => OneOpenRequestPerCall
  BY DEF SafeInv
<1>2. QED
  BY <1>1, ApprovalSafe, PTL

(***************************************************************************)
(* Refinement: every step keeps what Consent promises.                     *)
(***************************************************************************)

LEMMA SameStanding ==
  ASSUME \A t \in Token : StandingOf(t)' = StandingOf(t), UNCHANGED history
  PROVE  UNCHANGED Promise!vars
  BY DEF Promise!vars, Standing, history

LEMMA OneStanding ==
  ASSUME NEW r \in Token, NEW s, StandingOf(r)' = s,
         \A t \in Token \ {r} : StandingOf(t)' = StandingOf(t)
  PROVE  Promise!Become(r, s)
  BY DEF Promise!Become, Standing

LEMMA InitPromised == Init => Promise!Init
<1> SUFFICES ASSUME Init PROVE Promise!Init
  OBVIOUS
<1>1. \A t \in Token : StandingOf(t) = "unasked"
  BY DEF Init, StandingOf, Token
<1>2. QED
  BY <1>1 DEF Init, Promise!Init, Standing

LEMMA ResolvePromised ==
  ASSUME TypeOK, ResolveApproval
  PROVE  [Promise!Next]_(Promise!vars)
<1>0. PICK t \in Token : t = Head(tasks).token
  BY HeadIsTask
<1>1. t \in Token /\ stage # "down" /\ UNCHANGED <<stage, issued, disk>>
  BY DEF ResolveApproval, session
<1>9. state[t] = "pending" => t <= issued /\ ~(t > issued)
  BY <1>1 DEF TypeOK, Unissued, Token
<1>2. state[t] = "pending" => StandingOf(t) = "open" /\ Standing[t] = "open"
  BY <1>9, <1>1 DEF StandingOf, Standing
<1>3. ASSUME NEW u \in Token, state'[u] = state[u] PROVE StandingOf(u)' = StandingOf(u)
  BY <1>1, <1>3 DEF StandingOf
<1>4. CASE ResolveRefused(t) /\ state[t] # "pending"
  BY <1>3, <1>4, SameStanding DEF ResolveRefused
<1>5. CASE ResolveRefused(t) /\ state[t] = "pending"
  <2>1. StandingOf(t)' = "settled"
    BY <1>9, <1>1, <1>5 DEF ResolveRefused, StandingOf, TypeOK
  <2>2. \A u \in Token \ {t} : StandingOf(u)' = StandingOf(u)
    BY <1>3, <1>5 DEF ResolveRefused, TypeOK
  <2>3. Promise!Become(t, "settled")
    BY <1>1, <2>1, <2>2, OneStanding
  <2>4. Promise!Close(t)
    BY <1>2, <1>5, <2>1, <2>3 DEF Promise!Close, ResolveRefused, history
  <2>5. QED
    BY <1>1, <2>4 DEF Promise!Next
<1>6. CASE ResolveDenied(t)
  <2>1. StandingOf(t)' = "settled" /\ state[t] = "pending"
    BY <1>9, <1>1, <1>6 DEF ResolveDenied, MayResolve, Live, StandingOf, TypeOK
  <2>2. \A u \in Token \ {t} : StandingOf(u)' = StandingOf(u)
    BY <1>3, <1>6 DEF ResolveDenied, TypeOK
  <2>3. Promise!Become(t, "settled")
    BY <1>1, <2>1, <2>2, OneStanding
  <2>4. Promise!Close(t)
    BY <1>2, <1>6, <2>1, <2>3 DEF Promise!Close, ResolveDenied, history
  <2>5. QED
    BY <1>1, <2>4 DEF Promise!Next
<1>7. CASE ResolveGranted(t)
  <2>1. StandingOf(t)' = "running" /\ state[t] = "pending"
    BY <1>9, <1>1, <1>7 DEF ResolveGranted, MayResolve, Live, StandingOf, TypeOK
  <2>2. \A u \in Token \ {t} : StandingOf(u)' = StandingOf(u)
    BY <1>3, <1>7 DEF ResolveGranted, TypeOK
  <2>3. Promise!Become(t, "running")
    BY <1>1, <2>1, <2>2, OneStanding
  <2>4. Promise!Grant(t)
    BY <1>2, <1>7, <2>1, <2>3 DEF Promise!Grant, ResolveGranted
  <2>5. QED
    BY <1>1, <2>4 DEF Promise!Next
<1>8. QED
  BY <1>0, <1>4, <1>5, <1>6, <1>7 DEF ResolveApproval

LEMMA NextPromised ==
  TypeOK /\ TypeOK' /\ [Next]_vars => [Promise!Next]_(Promise!vars)
<1> SUFFICES ASSUME TypeOK, TypeOK', [Next]_vars
             PROVE  [Promise!Next]_(Promise!vars)
  OBVIOUS
<1> USE Bounds DEF session, surfaces, counters, history
<1>1. ASSUME NEW c \in Calls, ExecuteTool(c) PROVE Promise!Next
  <2>0. PICK n \in Token : n = issued + 1
    BY <1>1 DEF ExecuteTool, TypeOK, Token
  <2>1. n \in Token /\ StandingOf(n) = "unasked" /\ StandingOf(n)' = "open"
    BY <1>1, <2>0 DEF ExecuteTool, StandingOf, TypeOK, Token
  <2>2. ASSUME NEW t \in Token \ {n} PROVE StandingOf(t)' = StandingOf(t)
    <3>1. state'[t] = state[t] /\ stage # "down" /\ UNCHANGED <<stage, running>>
      BY <1>1, <2>0 DEF ExecuteTool, TypeOK
    <3>2. CASE t > issued
      <4>1. t > issued' /\ ~(t <= issued) /\ ~(t <= issued')
        BY <1>1, <2>0, <3>2 DEF ExecuteTool, TypeOK, Token
      <4>2. QED
        BY <3>2, <4>1 DEF StandingOf
    <3>3. CASE t <= issued
      <4>1. t <= issued' /\ ~(t > issued) /\ ~(t > issued')
        BY <1>1, <2>0, <3>3 DEF ExecuteTool, TypeOK, Token
      <4>2. QED
        BY <3>1, <3>3, <4>1 DEF StandingOf
    <3>4. QED
      BY <3>2, <3>3 DEF TypeOK, Token
  <2>3. UNCHANGED <<consents, ran>>
    BY <1>1 DEF ExecuteTool
  <2>4. Promise!Become(n, "open") /\ Standing[n] = "unasked"
    BY <2>1, <2>2, OneStanding DEF Standing
  <2>5. QED
    BY <2>1, <2>3, <2>4 DEF Promise!Ask, Promise!Next
<1>2. CASE \/ TimePasses \/ FlushCheckpoint
           \/ \E t \in Token, d \in Decision : Press(t, d)
           \/ \E d \in Decision : DispatchDiscordInbound(d)
           \/ \E a \in {c.agent : c \in Calls} : DrainInbox(a)
           \/ UNCHANGED vars
  <2>1. UNCHANGED <<stage, issued, state, running, history>> /\ (stage = "down" => UNCHANGED disk)
    BY <1>2 DEF TimePasses, FlushCheckpoint, Press, DispatchDiscordInbound,
                DrainInbox, vars
  <2>2. \A t \in Token : StandingOf(t)' = StandingOf(t)
    BY <2>1 DEF StandingOf
  <2>3. QED
    BY <2>1, <2>2, SameStanding
<1>3. CASE ResolveApproval
  BY <1>3, ResolvePromised
<1>4. ASSUME NEW t \in Token, FinishRun(t) \/ FailRun(t) PROVE Promise!Next
  <2>1. StandingOf(t) = "running" /\ StandingOf(t)' = "settled"
    BY <1>4 DEF FinishRun, FailRun, StandingOf, TypeOK, Unissued, Token
  <2>2. \A u \in Token \ {t} : StandingOf(u)' = StandingOf(u)
    BY <1>4 DEF FinishRun, FailRun, StandingOf, TypeOK
  <2>3. Promise!Finish(t)
    BY <1>4, <2>1, <2>2, OneStanding DEF Promise!Finish, FinishRun, FailRun, Standing
  <2>4. QED
    BY <2>3 DEF Promise!Next
<1>5. CASE Crash
  <2>1. \A t \in Token : /\ StandingOf(t) = "unasked" <=> StandingOf(t)' = "unasked"
                         /\ StandingOf(t)' # "running"
                         /\ StandingOf(t)' \in Promise!Standing
    BY <1>5 DEF Crash, StandingOf, TypeOK, Token, Promise!Standing
  <2>2. Promise!Crash
    BY <1>5, <2>1 DEF Promise!Crash, Crash, Standing
  <2>3. QED
    BY <2>2 DEF Promise!Next
<1>6. CASE ImportPending
  <2>1. \A t \in Token : /\ StandingOf(t)' # StandingOf(t) =>
                              StandingOf(t) = "open" /\ StandingOf(t)' = "settled"
                         /\ StandingOf(t)' \in Promise!Standing
    BY <1>6 DEF ImportPending, StandingOf, TypeOK, Token, Promise!Standing
  <2>2. Promise!Lapse
    BY <1>6, <2>1 DEF Promise!Lapse, ImportPending, Standing
  <2>3. QED
    BY <2>2 DEF Promise!Next
<1>7. CASE RepublishPendingApprovals
  <2>1. \A t \in Token : StandingOf(t)' = StandingOf(t)
    BY <1>7 DEF RepublishPendingApprovals, StandingOf
  <2>2. QED
    BY <1>7, <2>1, SameStanding DEF RepublishPendingApprovals
<1>8. QED
  BY <1>1, <1>2, <1>3, <1>4, <1>5, <1>6, <1>7 DEF Next

\* A call a human must approve runs only on a consent to its own request,
\* once for each, and what was settled is reopened by nothing but a crash.
THEOREM ApprovalKeepsConsent == Spec => ImplementsConsent
<1>1. Init => Promise!Init
  BY InitPromised
<1>2. TypeOK /\ TypeOK' /\ [Next]_vars => [Promise!Next]_(Promise!vars)
  BY NextPromised
<1>3. QED
  BY <1>1, <1>2, ApprovalTyped, PTL DEF Spec, ImplementsConsent, Promise!Spec
===========================================================================
