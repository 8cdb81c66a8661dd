--------------------------- MODULE DialogueProofs ---------------------------
(***************************************************************************)
(* Proofs about what the agents read and what the chat shows: the          *)
(* conversation that an agent keeps with its model, for every backend and  *)
(* every length, and the channel that the bots share, for every number of  *)
(* bots, events and messages.                                              *)
(***************************************************************************)
EXTENDS Conversation, Chat, FiniteSetTheorems, SequenceTheorems, TLAPS

(***************************************************************************)
(* The least and the greatest of a set of numbers.                         *)
(***************************************************************************)

LEMMA LeastExists ==
  ASSUME NEW S, S \subseteq Nat, S # {}
  PROVE  Least(S) \in S /\ \A n \in S : Least(S) <= n
<1> DEFINE R == {ss \in Nat \X Nat : ss[1] < ss[2]}
<1>1. IsWellFoundedOn(R, Nat)
  BY NatLessThanWellFounded DEF OpToRel
<1>2. \A x, y \in Nat : <<y, x>> \in R <=> y < x
  OBVIOUS
<1> HIDE DEF R
<1>3. \E x \in S : \A y \in S : ~(<<y, x>> \in R)
  BY <1>1, WFMin
<1>4. PICK x \in S : \A y \in S : ~(<<y, x>> \in R)
  BY <1>3
<1>5. ASSUME NEW y \in S
      PROVE  x <= y
  <2>1. x \in Nat /\ y \in Nat /\ ~(<<y, x>> \in R)
    BY <1>4
  <2>2. ~(y < x)
    BY <1>2, <2>1
  <2>3. QED
    BY <2>1, <2>2
<1>6. QED
  BY <1>5 DEF Least

LEMMA MostExists ==
  ASSUME NEW S, S \subseteq Nat, S # {}, NEW bound \in Nat, \A n \in S : n <= bound
  PROVE  Most(S) \in S /\ \A n \in S : n <= Most(S)
<1> DEFINE T == {bound - n : n \in S}
<1>1. T \subseteq Nat /\ T # {}
  <2>1. \A n \in S : bound - n \in Nat
    OBVIOUS
  <2>2. QED
    BY <2>1
<1>2. Least(T) \in T /\ \A n \in T : Least(T) <= n
  <2> HIDE DEF T
  <2> QED
    BY <1>1, LeastExists
<1>3. PICK x \in S : Least(T) = bound - x
  BY <1>2
<1>4. \A n \in S : bound - x <= bound - n
  BY <1>2, <1>3
<1>5. \A n \in S : n <= x
  BY <1>4
<1>6. QED
  BY <1>5 DEF Most

LEMMA MostOfTwo ==
  ASSUME NEW m \in Nat, NEW n \in Nat
  PROVE  /\ Most({m, n}) \in {m, n}
         /\ Most({m, n}) >= m /\ Most({m, n}) >= n
<1>1. \E b \in {m, n} : \A x \in {m, n} : x <= b
  OBVIOUS
<1>2. QED
  BY <1>1 DEF Most

(***************************************************************************)
(* Turns.                                                                  *)
(***************************************************************************)

\* The turns that make and answer calls 1..n and quote messages of S.
TurnsOf(n, S) == [role : {"user", "assistant", "tool"}, calls : SUBSET (1..n),
                  answers : 0..n, heard : SUBSET S, size : 0..2]

LEMMA TurnsGrow ==
  ASSUME NEW m \in Nat, NEW n \in Nat, m <= n, NEW S, NEW T, S \subseteq T,
         NEW c \in Seq(TurnsOf(m, S))
  PROVE  c \in Seq(TurnsOf(n, T))
<1>1. 1..m \subseteq 1..n /\ 0..m \subseteq 0..n
  OBVIOUS
<1>2. TurnsOf(m, S) \subseteq TurnsOf(n, T)
  BY <1>1 DEF TurnsOf
<1>3. QED
  BY <1>2, SeqMonotonic

LEMMA UserTurnIsTurn ==
  ASSUME NEW n \in Nat, NEW S, NEW heard \in SUBSET S
  PROVE  /\ UserTurn(heard) \in TurnsOf(n, S)
         /\ UserTurn(heard).role = "user" /\ UserTurn(heard).calls = {}
         /\ UserTurn(heard).answers = 0 /\ UserTurn(heard).heard = heard
  BY DEF UserTurn, Turn, TurnsOf

\* What a conversation quotes, calls and answers, put together.
LEMMA Joined ==
  ASSUME NEW S, NEW c \in Seq(S), NEW d \in Seq(S)
  PROVE  /\ c \o d \in Seq(S) /\ Len(c \o d) = Len(c) + Len(d)
         /\ \A i \in 1..Len(c) : (c \o d)[i] = c[i]
         /\ \A i \in 1..Len(d) : (c \o d)[Len(c) + i] = d[i]
         /\ HeardIn(c \o d) = HeardIn(c) \cup HeardIn(d)
         /\ CallsOf(c \o d) = CallsOf(c) \cup CallsOf(d)
         /\ AnswersOf(c \o d) = AnswersOf(c) \cup AnswersOf(d)
<1>1. /\ c \o d \in Seq(S) /\ Len(c \o d) = Len(c) + Len(d)
      /\ \A i \in 1..Len(c) : (c \o d)[i] = c[i]
      /\ \A i \in 1..Len(d) : (c \o d)[Len(c) + i] = d[i]
      /\ Len(c) \in Nat /\ Len(d) \in Nat
  BY ConcatProperties, LenProperties
<1>2. /\ DOMAIN (c \o d) = 1..(Len(c) + Len(d)) /\ DOMAIN c = 1..Len(c)
      /\ DOMAIN d = 1..Len(d)
  BY <1>1, LenProperties
<1> DEFINE e == c \o d
<1> HIDE DEF e
<1>3. \A i \in DOMAIN e : i \in DOMAIN c \/ \E j \in DOMAIN d : i = Len(c) + j
  <2> SUFFICES ASSUME NEW i \in DOMAIN e, i \notin DOMAIN c PROVE \E j \in DOMAIN d : i = Len(c) + j
    OBVIOUS
  <2>1. i - Len(c) \in DOMAIN d /\ i = Len(c) + (i - Len(c))
    BY <1>1, <1>2 DEF e
  <2>2. QED
    BY <2>1
<1>4. /\ DOMAIN c \subseteq DOMAIN e /\ \A i \in DOMAIN c : e[i] = c[i]
      /\ \A j \in DOMAIN d : Len(c) + j \in DOMAIN e /\ e[Len(c) + j] = d[j]
  BY <1>1, <1>2 DEF e
<1>5. HeardIn(e) = HeardIn(c) \cup HeardIn(d)
  BY <1>3, <1>4 DEF HeardIn
<1>6. CallsOf(e) = CallsOf(c) \cup CallsOf(d)
  BY <1>3, <1>4 DEF CallsOf
<1>7. AnswersOf(e) = AnswersOf(c) \cup AnswersOf(d)
  BY <1>3, <1>4 DEF AnswersOf
<1>8. QED
  BY <1>1, <1>5, <1>6, <1>7 DEF e

LEMMA OneTurn ==
  ASSUME NEW S, NEW t \in S
  PROVE  /\ <<t>> \in Seq(S) /\ Len(<<t>>) = 1 /\ <<t>>[1] = t
         /\ HeardIn(<<t>>) = t.heard /\ CallsOf(<<t>>) = t.calls
         /\ AnswersOf(<<t>>) = {t.answers} \ {0}
  BY DEF HeardIn, CallsOf, AnswersOf

LEMMA NoTurn ==
  HeardIn(<<>>) = {} /\ CallsOf(<<>>) = {} /\ AnswersOf(<<>>) = {}
  BY DEF HeardIn, CallsOf, AnswersOf

(***************************************************************************)
(* Compaction.                                                             *)
(***************************************************************************)

\* Nothing is not too long.
LEMMA NothingIsShort == ApproxChars(<<>>) = 0
<1> DEFINE f(n) == [i \in 0..0 |-> IF i = 0 THEN 0 ELSE n[i - 1] + <<>>[i].size]
           g == CHOOSE n : n = f(n)
<1>1. \A n : f(n) = [i \in 0..0 |-> 0]
  OBVIOUS
<1>2. g = [i \in 0..0 |-> 0]
  <2>1. f([i \in 0..0 |-> 0]) = [i \in 0..0 |-> 0]
    BY <1>1
  <2> HIDE DEF f
  <2>2. QED
    BY <1>1, <2>1
<1> HIDE DEF g
<1>3. Len(<<>>) = 0
  OBVIOUS
<1>4. ApproxChars(<<>>) = g[Len(<<>>)]
  BY <1>3 DEF ApproxChars, g
<1>5. QED
  BY <1>2, <1>3, <1>4

\* The tail begins with a turn that is no result, and holds the last turn
\* unless that is one.
LEMMA TailStarts ==
  ASSUME NEW S, NEW c \in Seq(S), c # <<>>
  PROVE  /\ TailStart(c) \in 1..(Len(c) + 1)
         /\ TailStart(c) <= Len(c) => c[TailStart(c)].role # "tool"
         /\ c[Len(c)].role # "tool" => TailStart(c) <= Len(c)
<1> DEFINE large(i) == ApproxChars(SubSeq(c, i, Len(c))) <= KeepTailChars
           A == {i \in 1..Len(c) : /\ i > Len(c) - Most({1, KeepTailMessages})
                                   /\ i = Len(c) \/ large(i)}
           start == Least(A)
           B == {i \in start..(Len(c) + 1) : i > Len(c) \/ c[i].role # "tool"}
<1>1. Len(c) \in Nat \ {0}
  OBVIOUS
<1>2. Most({1, KeepTailMessages}) \in Nat /\ Most({1, KeepTailMessages}) >= 1
  BY MostOfTwo, ConversationConstants
<1> HIDE DEF large
<1>3. Len(c) \in A /\ A \subseteq 1..Len(c) /\ A \subseteq Nat
  BY <1>1, <1>2
<1> HIDE DEF A
<1>4. start \in 1..Len(c)
  BY <1>3, LeastExists
<1> HIDE DEF start
<1>5. Len(c) + 1 \in B /\ B \subseteq Nat
  BY <1>1, <1>4
<1>6. Least(B) \in B /\ \A i \in B : Least(B) <= i
  <2> HIDE DEF B
  <2> QED
    BY <1>5, LeastExists
<1>7. TailStart(c) = Least(B)
  BY DEF TailStart, start, A, large
<1>8. TailStart(c) \in 1..(Len(c) + 1) /\ (TailStart(c) <= Len(c) => c[TailStart(c)].role # "tool")
  BY <1>1, <1>4, <1>6, <1>7
<1>9. ASSUME c[Len(c)].role # "tool" PROVE TailStart(c) <= Len(c)
  <2>1. Len(c) \in B
    BY <1>1, <1>4, <1>9
  <2>2. QED
    BY <1>6, <1>7, <2>1
<1>10. QED
  BY <1>8, <1>9

LEMMA LongHasTurns ==
  ASSUME NEW c, TooLong(c)
  PROVE  c # <<>>
<1>1. ~(0 > SoftLimit)
  BY ConversationConstants
<1>2. QED
  BY <1>1, NothingIsShort DEF TooLong

LEMMA Tombstones ==
  ASSUME NEW n, NEW S, NEW t \in TurnsOf(n, S)
  PROVE  /\ Tombstone(t) \in TurnsOf(n, S)
         /\ Tombstone(t).role = t.role /\ Tombstone(t).calls = t.calls
         /\ Tombstone(t).answers = t.answers /\ Tombstone(t).heard = t.heard
  BY DEF Tombstone, TurnsOf

\* A compacted conversation, turn by turn.
LEMMA Assembled ==
  ASSUME NEW n \in Nat, NEW S, NEW c \in Seq(TurnsOf(n, S)), TooLong(c)
  PROVE  LET k == TailStart(c)
             a == Assemble(c)
         IN /\ Len(c) \in Nat \ {0} /\ k \in 2..(Len(c) + 1)
            /\ a \in Seq(TurnsOf(n, S)) /\ Len(a) = (Len(c) - k) + 2
            /\ a[1] = UserTurn({})
            /\ \A i \in 2..Len(a) : i + k - 2 \in k..Len(c) /\ a[i] = Tombstone(c[i + k - 2])
<1> DEFINE k == TailStart(c)
           T == TurnsOf(n, S)
           tail == SubSeq(c, k, Len(c))
           rest == [i \in DOMAIN tail |-> Tombstone(tail[i])]
           head == <<UserTurn({})>>
<1>1. Len(c) \in Nat \ {0} /\ k \in 2..(Len(c) + 1)
  <2>1. c # <<>> /\ TailStart(c) > 1
    BY LongHasTurns DEF TooLong
  <2>2. TailStart(c) \in 1..(Len(c) + 1)
    BY <2>1, TailStarts
  <2>3. QED
    BY <2>1, <2>2
<1> HIDE DEF k
<1>2. \A i \in k..Len(c) : c[i] \in T
  <2> HIDE DEF T
  <2> QED
    BY <1>1, ElementOfSeq DEF T
<1> HIDE DEF T
<1>3. /\ tail \in Seq(T) /\ Len(tail) = (Len(c) - k) + 1
      /\ \A i \in 1..((Len(c) - k) + 1) : tail[i] = c[k + i - 1]
  <2>1. k \in Int /\ Len(c) \in Int
    BY <1>1
  <2>2. QED
    BY <1>1, <1>2, <2>1, SubSeqProperties
<1>4. DOMAIN tail = 1..((Len(c) - k) + 1)
  BY <1>3, LenProperties
<1> HIDE DEF tail
<1>5. /\ rest \in Seq(T) /\ Len(rest) = (Len(c) - k) + 1
      /\ \A i \in 1..((Len(c) - k) + 1) : rest[i] = Tombstone(c[k + i - 1])
  <2>1. \A i \in 1..((Len(c) - k) + 1) : tail[i] \in T /\ Tombstone(tail[i]) \in T
    <3>1. \A t \in T : Tombstone(t) \in T
      BY Tombstones DEF T
    <3>2. QED
      BY <1>3, <3>1, ElementOfSeq
  <2>2. (Len(c) - k) + 1 \in Nat
    BY <1>1
  <2>3. rest \in [1..((Len(c) - k) + 1) -> T]
    BY <1>4, <2>1
  <2> HIDE DEF rest
  <2>4. rest \in Seq(T) /\ Len(rest) = (Len(c) - k) + 1
    BY <2>2, <2>3
  <2>5. QED
    BY <1>3, <1>4, <2>4 DEF rest
<1>6. head \in Seq(T) /\ Len(head) = 1 /\ head[1] = UserTurn({})
  BY UserTurnIsTurn DEF T
<1> HIDE DEF rest, head
<1>7. /\ head \o rest \in Seq(T) /\ Len(head \o rest) = (Len(c) - k) + 2
      /\ \A i \in 1..((Len(c) - k) + 2) :
             (head \o rest)[i] = IF i <= 1 THEN head[i] ELSE rest[i - 1]
  <2>1. Len(head) + Len(rest) = (Len(c) - k) + 2
    BY <1>1, <1>5, <1>6
  <2>2. /\ head \o rest \in Seq(T) /\ Len(head \o rest) = Len(head) + Len(rest)
        /\ \A i \in 1..(Len(head) + Len(rest)) :
               (head \o rest)[i] = IF i <= Len(head) THEN head[i] ELSE rest[i - Len(head)]
    BY <1>5, <1>6, ConcatProperties
  <2>3. QED
    BY <1>6, <2>1, <2>2
<1>8. Assemble(c) = head \o rest
  BY DEF Assemble, head, rest, tail, k
<1> DEFINE a == head \o rest
<1> HIDE DEF a
<1>9. /\ a \in Seq(T) /\ Len(a) = (Len(c) - k) + 2 /\ a[1] = UserTurn({})
  BY <1>1, <1>6, <1>7 DEF a
<1>10. ASSUME NEW i \in 2..Len(a)
       PROVE  i + k - 2 \in k..Len(c) /\ a[i] = Tombstone(c[i + k - 2])
  <2>1. i \in 1..((Len(c) - k) + 2) /\ ~(i <= 1) /\ i - 1 \in 1..((Len(c) - k) + 1)
    BY <1>1, <1>9
  <2>2. a[i] = Tombstone(c[k + (i - 1) - 1])
    BY <1>5, <1>7, <2>1 DEF a
  <2>3. k + (i - 1) - 1 = i + k - 2 /\ i + k - 2 \in k..Len(c)
    BY <1>1, <2>1
  <2>4. QED
    BY <2>2, <2>3
<1>11. QED
  BY <1>1, <1>8, <1>9, <1>10 DEF a, k, T

\* It quotes what the conversation quoted, except for what it drops.
LEMMA AssembleKeeps ==
  ASSUME NEW n \in Nat, NEW S, NEW c \in Seq(TurnsOf(n, S)), TooLong(c)
  PROVE  /\ HeardIn(Assemble(c)) \subseteq HeardIn(c) /\ Dropped(c) \subseteq HeardIn(c)
         /\ HeardIn(c) \subseteq HeardIn(Assemble(c)) \cup Dropped(c)
         /\ CallsOf(Assemble(c)) \subseteq CallsOf(c)
         /\ AnswersOf(Assemble(c)) \subseteq AnswersOf(c)
<1> DEFINE k == TailStart(c)
           a == Assemble(c)
           h == HeadOf(c)
<1>1. /\ Len(c) \in Nat \ {0} /\ k \in 2..(Len(c) + 1)
      /\ a \in Seq(TurnsOf(n, S)) /\ Len(a) = (Len(c) - k) + 2 /\ a[1] = UserTurn({})
      /\ \A i \in 2..Len(a) : i + k - 2 \in k..Len(c) /\ a[i] = Tombstone(c[i + k - 2])
  BY Assembled
<1>2. DOMAIN c = 1..Len(c) /\ DOMAIN a = 1..((Len(c) - k) + 2)
  BY <1>1, LenProperties
<1>3. \A i \in DOMAIN c : c[i] \in TurnsOf(n, S)
  BY <1>2, ElementOfSeq
<1>4. /\ DOMAIN h = 1..(k - 1) /\ \A i \in 1..(k - 1) : h[i] = c[i]
  <2>1. \A i \in 1..(k - 1) : c[i] \in TurnsOf(n, S)
    BY <1>1, <1>2, <1>3
  <2>2. 1 \in Int /\ k - 1 \in Int /\ 1 <= k - 1
    BY <1>1
  <2> HIDE DEF k
  <2>3. /\ SubSeq(c, 1, k - 1) \in Seq(TurnsOf(n, S)) /\ Len(SubSeq(c, 1, k - 1)) = (k - 1) - 1 + 1
        /\ \A i \in 1..((k - 1) - 1 + 1) : SubSeq(c, 1, k - 1)[i] = c[1 + i - 1]
    BY <2>1, <2>2, SubSeqProperties
  <2>4. h = SubSeq(c, 1, k - 1)
    BY DEF HeadOf, k
  <2>5. (k - 1) - 1 + 1 = k - 1 /\ \A i \in 1..(k - 1) : 1 + i - 1 = i
    BY <2>2
  <2> HIDE DEF h
  <2>6. QED
    BY <2>3, <2>4, <2>5, LenProperties
<1> HIDE DEF k, a, h
<1>5. Dropped(c) = HeardIn(h)
  BY DEF Dropped, h
<1>6. \A i \in DOMAIN a : \/ a[i].heard = {} /\ a[i].calls = {} /\ a[i].answers = 0
                          \/ \E j \in DOMAIN c : /\ a[i].heard = c[j].heard
                                                 /\ a[i].calls = c[j].calls
                                                 /\ a[i].answers = c[j].answers
  <2> TAKE i \in DOMAIN a
  <2>1. CASE i = 1
    BY <1>1, <2>1, UserTurnIsTurn
  <2>2. CASE i # 1
    <3>1. i \in 2..Len(a) /\ i + k - 2 \in DOMAIN c
      BY <1>1, <1>2, <2>2
    <3>2. a[i] = Tombstone(c[i + k - 2]) /\ c[i + k - 2] \in TurnsOf(n, S)
      BY <1>1, <1>3, <3>1
    <3>3. QED
      BY <3>1, <3>2, Tombstones
  <2>3. QED
    BY <2>1, <2>2
<1>7. \A j \in DOMAIN c : \/ j \in DOMAIN h /\ h[j] = c[j]
                          \/ \E i \in DOMAIN a : a[i].heard = c[j].heard
  <2> TAKE j \in DOMAIN c
  <2>1. CASE j < k
    BY <1>1, <1>2, <1>4, <2>1
  <2>2. CASE j >= k
    <3>1. /\ (j - k) + 2 \in DOMAIN a /\ (j - k) + 2 \in 2..Len(a)
          /\ ((j - k) + 2) + k - 2 = j
      BY <1>1, <1>2, <2>2
    <3>2. a[(j - k) + 2] = Tombstone(c[j]) /\ c[j] \in TurnsOf(n, S)
      BY <1>1, <1>3, <3>1
    <3>3. QED
      BY <3>1, <3>2, Tombstones
  <2>3. QED
    BY <1>1, <1>2, <2>1, <2>2
<1>8. \A j \in DOMAIN h : j \in DOMAIN c /\ h[j] = c[j]
  BY <1>1, <1>2, <1>4
<1>9. HeardIn(a) \subseteq HeardIn(c)
  BY <1>6 DEF HeardIn
<1>10. HeardIn(h) \subseteq HeardIn(c)
  BY <1>8 DEF HeardIn
<1>11. HeardIn(c) \subseteq HeardIn(a) \cup HeardIn(h)
  BY <1>7 DEF HeardIn
<1>12. CallsOf(a) \subseteq CallsOf(c)
  BY <1>6 DEF CallsOf
<1>13. AnswersOf(a) \subseteq AnswersOf(c)
  BY <1>6 DEF AnswersOf
<1>14. QED
  BY <1>5, <1>9, <1>10, <1>11, <1>12, <1>13 DEF a

LEMMA CompactedKeeps ==
  ASSUME NEW n \in Nat, NEW S, NEW c \in Seq(TurnsOf(n, S))
  PROVE  /\ Compacted(c) \in Seq(TurnsOf(n, S))
         /\ HeardIn(Compacted(c)) \subseteq HeardIn(c) /\ Dropped(c) \subseteq HeardIn(c)
         /\ HeardIn(c) \subseteq HeardIn(Compacted(c)) \cup Dropped(c)
         /\ CallsOf(Compacted(c)) \subseteq CallsOf(c)
         /\ AnswersOf(Compacted(c)) \subseteq AnswersOf(c)
<1>1. CASE TooLong(c)
  BY <1>1, Assembled, AssembleKeeps DEF Compacted
<1>2. CASE ~TooLong(c)
  BY <1>2 DEF Compacted, Dropped
<1>3. QED
  BY <1>1, <1>2

(***************************************************************************)
(* The types of a conversation.                                            *)
(***************************************************************************)

\* A conversation c with what its agent has unread, has read and has had
\* summarised, when the calls are 1..n and the messages those of S.
Talk(n, S, c, unread, known, gone) ==
    /\ c \in Seq(TurnsOf(n, S)) /\ HeardIn(c) \subseteq known
    /\ unread \in Seq(S) /\ known \subseteq S /\ gone \subseteq known
    /\ Range(unread) \cap known = {}

StepTyped ==
    /\ pc \in {"idle", "calling", "tools", "stopped"} /\ sent \in BOOLEAN
    /\ todo \in Seq(1..calls) /\ results \in Seq(TurnsOf(calls, DOMAIN kind))
    /\ HeardIn(results) = {}
    /\ pc = "tools" <=> todo # <<>>
    /\ retries \in 0..MaxRetries

ConvInv ==
    /\ policy \in Policies /\ kind \in Seq(Kinds) /\ calls \in Nat
    /\ StepTyped
    /\ Talk(calls, DOMAIN kind, conv, inbox, read, summarised)
    /\ Talk(calls, DOMAIN kind, saved.conv, saved.inbox, saved.read, saved.summarised)
    /\ summary # None =>
          /\ Talk(calls, DOMAIN kind, summary.base, <<>>, read, summary.dropped)
          /\ Talk(calls, DOMAIN kind, summary.new, <<>>, read, summary.dropped)
    /\ severed \subseteq 1..calls /\ overwritten \subseteq DOMAIN kind

LEMMA ConvInvIsTypeOK == ConvInv => TypeOK
  BY DEF ConvInv, StepTyped, Talk, TypeOK, Turns, TurnsOf

LEMMA TalkGrows ==
  ASSUME NEW m \in Nat, NEW n \in Nat, m <= n, NEW S, NEW T, S \subseteq T,
         NEW c, NEW unread, NEW known, NEW gone, Talk(m, S, c, unread, known, gone)
  PROVE  Talk(n, T, c, unread, known, gone)
  BY TurnsGrow, SeqMonotonic DEF Talk

\* The calls and answers of turns are calls that were made.
LEMMA CallsMade ==
  ASSUME NEW n \in Nat, NEW S, NEW c \in Seq(TurnsOf(n, S))
  PROVE  /\ CallsOf(c) \subseteq 1..n /\ AnswersOf(c) \subseteq 1..n /\ Open(c) \subseteq 1..n
         /\ HeardIn(c) \subseteq S
<1>1. \A i \in DOMAIN c : c[i] \in TurnsOf(n, S)
  BY LenProperties, ElementOfSeq
<1>2. \A i \in DOMAIN c : /\ c[i].calls \subseteq 1..n /\ c[i].answers \in 0..n
                          /\ c[i].heard \subseteq S
  BY <1>1 DEF TurnsOf
<1>3. CallsOf(c) \subseteq 1..n
  BY <1>2 DEF CallsOf
<1>4. AnswersOf(c) \subseteq 1..n
  <2>1. \A x \in 0..n : x # 0 => x \in 1..n
    OBVIOUS
  <2>2. QED
    BY <1>2, <2>1 DEF AnswersOf
<1>5. HeardIn(c) \subseteq S
  BY <1>2 DEF HeardIn
<1>6. QED
  BY <1>3, <1>4, <1>5 DEF Open

LEMMA InFlightMade ==
  ASSUME ConvInv
  PROVE  InFlight \subseteq 1..calls
<1>1. Range(todo) \subseteq 1..calls
  BY RangeOfSeq DEF ConvInv, StepTyped
<1>2. AnswersOf(results) \subseteq 1..calls
  BY CallsMade DEF ConvInv, StepTyped
<1>3. QED
  BY <1>1, <1>2 DEF InFlight

LEMMA InitConv == Init => ConvInv
<1> SUFFICES ASSUME Init PROVE ConvInv
  OBVIOUS
<1>1. \A n, S : Talk(n, S, <<>>, <<>>, {}, {})
  BY NoTurn DEF Talk, Range
<1>2. StepTyped
  BY ConversationConstants, NoTurn DEF Init, StepTyped
<1>3. QED
  BY <1>1, <1>2 DEF Init, ConvInv

LEMMA ArriveConv ==
  ASSUME ConvInv, NEW k \in Kinds, Arrive(k)
  PROVE  ConvInv'
<1>1. /\ kind' \in Seq(Kinds) /\ DOMAIN kind' = 1..(Len(kind) + 1) /\ DOMAIN kind = 1..Len(kind)
      /\ Len(kind) \in Nat
  BY AppendProperties, LenProperties DEF Arrive, ConvInv
<1>2. DOMAIN kind \subseteq DOMAIN kind' /\ Len(kind) + 1 \in DOMAIN kind' \ DOMAIN kind
  BY <1>1
<1> DEFINE S == DOMAIN kind
           T == DOMAIN kind'
<1>3. \A c, u, r, g : Talk(calls, S, c, u, r, g) => Talk(calls, T, c, u, r, g)
  <2>1. calls \in Nat /\ calls <= calls
    BY DEF ConvInv
  <2> HIDE DEF S, T
  <2>2. QED
    BY <1>2, <2>1, TalkGrows DEF S, T
<1>4. Talk(calls, T, conv, inbox', read, summarised)
  <2>1. inbox \in Seq(S) /\ inbox \in Seq(T) /\ Len(kind) + 1 \in T
    BY <1>2, SeqMonotonic DEF ConvInv, Talk
  <2>2. inbox' = Append(inbox, Len(kind) + 1)
    BY DEF Arrive
  <2>3. inbox' \in Seq(T)
    BY <2>1, <2>2, AppendProperties
  <2>4. \A i \in DOMAIN inbox' : inbox'[i] \in Range(inbox) \cup {Len(kind) + 1}
    BY <2>1, <2>2 DEF Range
  <2>5. Range(inbox') \subseteq Range(inbox) \cup {Len(kind) + 1}
    BY <2>4 DEF Range
  <2>6. Talk(calls, T, conv, inbox, read, summarised) /\ read \subseteq S
    BY <1>3 DEF ConvInv, Talk
  <2>7. QED
    BY <1>2, <2>3, <2>5, <2>6 DEF Talk
<1>5. StepTyped'
  <2>1. calls \in Nat /\ calls <= calls /\ results \in Seq(TurnsOf(calls, S)) /\ S \subseteq T
    BY <1>2 DEF ConvInv, StepTyped
  <2> HIDE DEF S, T
  <2>2. results \in Seq(TurnsOf(calls, T))
    BY <2>1, TurnsGrow
  <2>3. results' \in Seq(TurnsOf(calls', T))
    BY <2>2 DEF Arrive, step
  <2>4. QED
    BY <2>3 DEF Arrive, step, ConvInv, StepTyped, T
<1>6. overwritten \subseteq T
  BY <1>2 DEF ConvInv
<1>7. /\ Talk(calls, T, saved.conv, saved.inbox, saved.read, saved.summarised)
      /\ summary # None =>
          /\ Talk(calls, T, summary.base, <<>>, read, summary.dropped)
          /\ Talk(calls, T, summary.new, <<>>, read, summary.dropped)
  BY <1>3 DEF ConvInv
<1> HIDE DEF S, T
<1>8. QED
  BY <1>1, <1>4, <1>5, <1>6, <1>7 DEF Arrive, ConvInv, disk, history, T

\* What a step adds quotes only what it drained.
LEMMA BlockQuotes ==
  ASSUME NEW n \in Nat, NEW S, NEW ms \in Seq(S), NEW tier \in {"engage", "skim", "ignore"}
  PROVE  /\ RadioBlock(ms, tier) \in Seq(TurnsOf(n, S))
         /\ HeardIn(RadioBlock(ms, tier)) \subseteq Range(ms)
         /\ tier = "engage" => HeardIn(RadioBlock(ms, tier)) = Range(ms)
<1>1. CASE ms = <<>>
  <2>1. RadioBlock(ms, tier) = <<>>
    BY <1>1 DEF RadioBlock
  <2>2. HeardIn(<<>>) = {} /\ <<>> \in Seq(TurnsOf(n, S))
    BY NoTurn
  <2>3. Range(ms) = {}
    BY <1>1 DEF Range
  <2> DEFINE b == RadioBlock(ms, tier)
  <2>4. b = <<>>
    BY <2>1
  <2> HIDE DEF b
  <2>5. HeardIn(b) = {} /\ b \in Seq(TurnsOf(n, S))
    BY <2>2, <2>4
  <2>6. QED
    BY <2>3, <2>5 DEF b
<1>2. CASE ms # <<>>
  <2>1. Range(ms) \subseteq S
    BY RangeOfSeq
  <2>2. Len(ms) \in DOMAIN ms
    BY <1>2
  <2>3. ms[Len(ms)] \in Range(ms)
    BY <2>2 DEF Range
  <2>4. \A h \in SUBSET Range(ms) : /\ <<UserTurn(h)>> \in Seq(TurnsOf(n, S))
                                    /\ HeardIn(<<UserTurn(h)>>) = h
    BY <2>1, UserTurnIsTurn, OneTurn
  <2>5. CASE tier = "engage"
    BY <1>2, <2>4, <2>5 DEF RadioBlock
  <2>6. CASE tier = "skim"
    <3>1. {ms[Len(ms)]} \in SUBSET Range(ms)
      BY <2>3
    <3>2. RadioBlock(ms, tier) = <<UserTurn({ms[Len(ms)]})>>
      BY <1>2, <2>6 DEF RadioBlock
    <3>3. HeardIn(RadioBlock(ms, tier)) = {ms[Len(ms)]}
      BY <2>4, <3>1, <3>2
    <3>4. RadioBlock(ms, tier) \in Seq(TurnsOf(n, S))
      BY <2>4, <3>1, <3>2
    <3>5. QED
      BY <2>6, <3>1, <3>3, <3>4
  <2>7. CASE tier = "ignore"
    BY <1>2, <2>4, <2>7, NoTurn DEF RadioBlock
  <2>8. QED
    BY <2>5, <2>6, <2>7
<1>3. QED
  BY <1>1, <1>2

\* The tier a step chooses.
TierOf(protocolDone, situation) ==
    IF ~protocolDone /\ policy.on /\ inbox # <<>> THEN Tier(inbox, situation) ELSE "engage"

LEMMA TierKnown ==
  ASSUME NEW done, NEW situation
  PROVE  TierOf(done, situation) \in {"engage", "skim", "ignore"}
  BY DEF TierOf, Tier

LEMMA StepConv ==
  ASSUME ConvInv, NEW situation \in Situation, NEW done \in BOOLEAN, Step(situation, done)
  PROVE  ConvInv'
<1> DEFINE block == RadioBlock(inbox, TierOf(done, situation))
<1>1. /\ conv' = conv \o block /\ read' = read \cup Range(inbox) /\ inbox' = <<>>
      /\ UNCHANGED <<policy, todo, results, kind, summarised, calls, summary, saved, severed,
                     overwritten>>
      /\ pc = "idle" /\ pc' \in {"idle", "calling"} /\ retries' \in {retries, 0}
      /\ sent' \in {sent, Acceptable(conv')}
  BY DEF Step, TierOf, disk, history
<1>2. /\ block \in Seq(TurnsOf(calls, DOMAIN kind))
      /\ HeardIn(block) \subseteq Range(inbox)
  BY TierKnown, BlockQuotes DEF ConvInv, Talk
<1> HIDE DEF block
<1>3. /\ conv' \in Seq(TurnsOf(calls, DOMAIN kind)) /\ HeardIn(conv') \subseteq read'
  BY <1>1, <1>2, Joined DEF ConvInv, Talk
<1>4. read' \subseteq DOMAIN kind /\ summarised \subseteq read' /\ read \subseteq read'
  BY <1>1, RangeOfSeq DEF ConvInv, Talk
<1>5. Talk(calls, DOMAIN kind, conv', inbox', read', summarised)
  BY <1>1, <1>3, <1>4 DEF Talk, Range
<1>6. summary # None =>
          /\ Talk(calls, DOMAIN kind, summary.base, <<>>, read', summary.dropped)
          /\ Talk(calls, DOMAIN kind, summary.new, <<>>, read', summary.dropped)
  BY <1>4 DEF ConvInv, Talk, Range
<1>7. StepTyped'
  <2>1. Acceptable(conv') \in BOOLEAN
    BY DEF Acceptable, OpenAITakes, AnthropicTakes
  <2>2. pc' \in {"idle", "calling", "tools", "stopped"} /\ sent' \in BOOLEAN
    BY <1>1, <2>1 DEF ConvInv, StepTyped
  <2>3. retries' \in 0..MaxRetries
    BY <1>1, ConversationConstants DEF ConvInv, StepTyped
  <2>4. pc' = "tools" <=> todo' # <<>>
    BY <1>1 DEF ConvInv, StepTyped
  <2>5. QED
    BY <1>1, <2>2, <2>3, <2>4 DEF ConvInv, StepTyped
<1>8. QED
  BY <1>1, <1>5, <1>6, <1>7 DEF ConvInv

\* Nothing but the agent's place changes.
LEMMA PlaceConv ==
  ASSUME ConvInv,
         (\E f \in Failure : ModelFails(f)) \/ Refuse \/ NewRun \/ SummaryCancelled
            \/ UNCHANGED vars
  PROVE  ConvInv'
<1>1. /\ UNCHANGED <<policy, kind, inbox, read, calls, conv, summarised, saved, severed,
                     overwritten>>
      /\ summary' \in {summary, None}
  BY DEF ModelFails, Refuse, NewRun, SummaryCancelled, vars, step, radio, disk, history, counters
<1>2. StepTyped'
  <2>1. /\ UNCHANGED <<sent, todo, results>>
        /\ pc' = pc \/ (pc \in {"calling", "stopped"} /\ pc' \in {"idle", "stopped"})
        /\ retries' \in {retries, 0} \/ (retries < MaxRetries /\ retries' = retries + 1)
    <3>1. CASE \E f \in Failure : ModelFails(f)
      BY <3>1 DEF ModelFails, TriesAgain
    <3>2. CASE Refuse \/ NewRun
      BY <3>2 DEF Refuse, NewRun
    <3>3. CASE SummaryCancelled \/ UNCHANGED vars
      BY <3>3 DEF SummaryCancelled, vars, step
    <3>4. QED
      BY <3>1, <3>2, <3>3
  <2>2. retries' \in 0..MaxRetries
    <3>1. retries \in 0..MaxRetries /\ MaxRetries \in Nat
      BY ConversationConstants DEF ConvInv, StepTyped
    <3>2. QED
      BY <2>1, <3>1
  <2>3. QED
    BY <1>1, <2>1, <2>2 DEF ConvInv, StepTyped
<1>3. /\ Talk(calls', DOMAIN kind', conv', inbox', read', summarised')
      /\ Talk(calls', DOMAIN kind', saved.conv', saved.inbox', saved.read', saved.summarised')
  BY <1>1 DEF ConvInv
<1>4. summary' # None => summary' = summary /\ summary # None
  BY <1>1
<1>5. summary' # None =>
          /\ Talk(calls', DOMAIN kind', summary.base', <<>>, read', summary.dropped')
          /\ Talk(calls', DOMAIN kind', summary.new', <<>>, read', summary.dropped')
  BY <1>1, <1>4 DEF ConvInv
<1>6. QED
  BY <1>1, <1>2, <1>3, <1>5 DEF ConvInv

\* What is put together quotes what its parts quote.
LEMMA Together ==
  ASSUME NEW S, NEW c \in Seq(S), NEW d \in Seq(S)
  PROVE  c \o d \in Seq(S) /\ HeardIn(c \o d) = HeardIn(c) \cup HeardIn(d)
<1>1. c \o d \in Seq(S)
  BY Joined
<1>2. HeardIn(c \o d) = HeardIn(c) \cup HeardIn(d)
  BY Joined
<1>3. QED
  BY <1>1, <1>2

LEMMA TogetherThree ==
  ASSUME NEW T, NEW c \in Seq(T), NEW d \in Seq(T), NEW e \in Seq(T)
  PROVE  /\ (c \o d) \o e \in Seq(T)
         /\ HeardIn((c \o d) \o e) = (HeardIn(c) \cup HeardIn(d)) \cup HeardIn(e)
<1> DEFINE cd == c \o d
<1>1. cd \in Seq(T)
  BY Together
<1>2. HeardIn(cd) = HeardIn(c) \cup HeardIn(d)
  BY Together
<1> HIDE DEF cd
<1>3. cd \o e \in Seq(T)
  BY <1>1, Together
<1>4. HeardIn(cd \o e) = HeardIn(cd) \cup HeardIn(e)
  BY <1>1, Together
<1>5. QED
  BY <1>2, <1>3, <1>4 DEF cd

LEMMA Appended ==
  ASSUME NEW S, NEW c \in Seq(S), NEW t \in S
  PROVE  /\ Append(c, t) \in Seq(S) /\ Len(Append(c, t)) = Len(c) + 1
         /\ \A i \in 1..Len(c) : Append(c, t)[i] = c[i]
         /\ Append(c, t)[Len(c) + 1] = t
         /\ HeardIn(Append(c, t)) = HeardIn(c) \cup t.heard
         /\ CallsOf(Append(c, t)) = CallsOf(c) \cup t.calls
         /\ AnswersOf(Append(c, t)) = AnswersOf(c) \cup ({t.answers} \ {0})
<1>1. Append(c, t) = c \o <<t>>
  BY AppendIsConcat
<1>2. /\ <<t>> \in Seq(S) /\ HeardIn(<<t>>) = t.heard /\ CallsOf(<<t>>) = t.calls
      /\ AnswersOf(<<t>>) = {t.answers} \ {0}
  BY OneTurn
<1>3. /\ HeardIn(c \o <<t>>) = HeardIn(c) \cup HeardIn(<<t>>)
      /\ CallsOf(c \o <<t>>) = CallsOf(c) \cup CallsOf(<<t>>)
      /\ AnswersOf(c \o <<t>>) = AnswersOf(c) \cup AnswersOf(<<t>>)
  <2> DEFINE d == <<t>>
  <2>1. d \in Seq(S)
    BY <1>2
  <2> HIDE DEF d
  <2>2. HeardIn(c \o d) = HeardIn(c) \cup HeardIn(d)
    BY <2>1, Joined
  <2>3. CallsOf(c \o d) = CallsOf(c) \cup CallsOf(d)
    BY <2>1, Joined
  <2>4. AnswersOf(c \o d) = AnswersOf(c) \cup AnswersOf(d)
    BY <2>1, Joined
  <2>5. QED
    BY <2>2, <2>3, <2>4 DEF d
<1>4. /\ Append(c, t) \in Seq(S) /\ Len(Append(c, t)) = Len(c) + 1
      /\ \A i \in 1..Len(c) : Append(c, t)[i] = c[i]
      /\ Append(c, t)[Len(c) + 1] = t
  BY AppendProperties
<1>5. QED
  BY <1>1, <1>2, <1>3, <1>4

\* What follows the calls of a reply.
LEMMA Proceeds ==
  ASSUME NEW n \in Nat, NEW S, NEW c \in Seq(TurnsOf(n, S)), NEW made \in SUBSET (1..n),
         NEW left \in Seq(1..n), NEW done \in Seq(TurnsOf(n, S)), HeardIn(done) = {},
         severed \subseteq 1..n, Proceed(c, made, left, done)
  PROVE  /\ conv' \in Seq(TurnsOf(n, S)) /\ HeardIn(conv') = HeardIn(c)
         /\ todo' \in Seq(1..n) /\ results' \in Seq(TurnsOf(n, S)) /\ HeardIn(results') = {}
         /\ pc' \in {"idle", "tools", "stopped"} /\ (pc' = "tools" <=> todo' # <<>>)
         /\ severed' \subseteq 1..n
<1>1. <<>> \in Seq(TurnsOf(n, S)) /\ <<>> \in Seq(1..n) /\ HeardIn(<<>>) = {}
  BY NoTurn
<1>2. CASE left = <<>> /\ \E nudge \in UnsentSignalNudge(c) : conv' = (c \o done) \o nudge
  <2>1. PICK nudge \in UnsentSignalNudge(c) : conv' = (c \o done) \o nudge
    BY <1>2
  <2>2. nudge \in Seq(TurnsOf(n, S)) /\ HeardIn(nudge) = {}
    <3>1. UserTurn({}) \in TurnsOf(n, S) /\ UserTurn({}).heard = {}
      BY UserTurnIsTurn
    <3>2. <<UserTurn({})>> \in Seq(TurnsOf(n, S)) /\ HeardIn(<<UserTurn({})>>) = {}
      BY <3>1, OneTurn
    <3>3. nudge = <<>> \/ nudge = <<UserTurn({})>>
      BY DEF UnsentSignalNudge
    <3>4. QED
      BY <1>1, <3>2, <3>3
  <2>3. (c \o done) \o nudge \in Seq(TurnsOf(n, S))
    BY <2>2, TogetherThree
  <2>4. HeardIn((c \o done) \o nudge) = (HeardIn(c) \cup HeardIn(done)) \cup HeardIn(nudge)
    BY ONLY <2>2, TogetherThree, c \in Seq(TurnsOf(n, S)), done \in Seq(TurnsOf(n, S))
  <2>5. pc' = "idle" /\ todo' = <<>> /\ results' = <<>> /\ severed' = severed
    BY <1>2 DEF Proceed
  <2>6. QED
    BY <1>1, <2>1, <2>2, <2>3, <2>4, <2>5
<1>3. CASE left # <<>> /\ conv' = c /\ pc' = "tools" /\ todo' = left /\ results' = done
              /\ severed' = severed
  BY <1>3
<1>4. CASE left # <<>> /\ conv' = c /\ UnresolvedRef(made)
  <2>1. pc' = "stopped" /\ todo' = <<>> /\ results' = <<>> /\ severed' = severed \cup made
    BY <1>4 DEF UnresolvedRef
  <2>2. QED
    BY <1>1, <1>4, <2>1
<1>5. QED
  BY <1>2, <1>3, <1>4 DEF Proceed

LEMMA ReplyConv ==
  ASSUME ConvInv, NEW n \in 0..MaxCalls, NEW size \in 0..1, Reply(n, size)
  PROVE  ConvInv' /\ HeardIn(conv') = HeardIn(conv)
<1> DEFINE made == (calls + 1)..(calls + n)
           t == Turn("assistant", made, 0, {}, size)
           left == [i \in 1..n |-> calls + i]
           S == DOMAIN kind
<1>1. /\ calls \in Nat /\ n \in Nat /\ calls' = calls + n /\ calls' \in Nat /\ calls <= calls'
      /\ retries' = 0 /\ Proceed(Append(conv, t), made, left, <<>>)
      /\ UNCHANGED <<policy, kind, inbox, read, summarised, summary, saved, sent, overwritten>>
  <2>1. /\ calls' = calls + n /\ retries' = 0 /\ Proceed(Append(conv, t), made, left, <<>>)
        /\ UNCHANGED <<policy, kind, inbox, read, summarised, summary, saved, sent, overwritten>>
    BY DEF Reply, radio, disk
  <2>2. MaxCalls \in Nat /\ calls \in Nat
    BY ConversationConstants DEF ConvInv
  <2> HIDE DEF made, t, left
  <2>3. QED
    BY <2>1, <2>2
<1>2. made \in SUBSET (1..calls')
  <2>1. (calls + 1)..(calls + n) \subseteq 1..(calls + n)
    BY <1>1
  <2>2. QED
    BY <1>1, <2>1
<1>3. t \in TurnsOf(calls', S) /\ t.heard = {}
  <2>1. 0 \in 0..calls' /\ size \in 0..2 /\ {} \in SUBSET S
    BY <1>1
  <2> HIDE DEF made, S
  <2>2. QED
    BY <1>2, <2>1 DEF Turn, TurnsOf
<1>4. left \in Seq(1..calls')
  <2>1. left \in [1..n -> 1..calls']
    BY <1>1
  <2>2. QED
    BY <1>1, <2>1
<1> HIDE DEF made, t, left, S
<1>5. \A c, u, r, g : Talk(calls, S, c, u, r, g) => Talk(calls', S, c, u, r, g)
  BY <1>1, TalkGrows
<1>6. conv \in Seq(TurnsOf(calls', S)) /\ HeardIn(conv) \subseteq read
  BY <1>5 DEF ConvInv, Talk, S
<1>7. /\ Append(conv, t) \in Seq(TurnsOf(calls', S))
      /\ HeardIn(Append(conv, t)) = HeardIn(conv)
  <2>1. HeardIn(Append(conv, t)) = HeardIn(conv) \cup t.heard
    <3> DEFINE T == TurnsOf(calls', S)
    <3>1. t \in T /\ conv \in Seq(T)
      BY <1>3, <1>6
    <3> HIDE DEF T
    <3>2. QED
      BY <3>1, Appended
  <2>2. Append(conv, t) \in Seq(TurnsOf(calls', S))
    BY <1>3, <1>6, Appended
  <2>3. QED
    BY <1>3, <2>1, <2>2
<1>8. <<>> \in Seq(TurnsOf(calls', S)) /\ HeardIn(<<>>) = {} /\ severed \subseteq 1..calls'
  BY <1>1, NoTurn DEF ConvInv
<1>9. /\ conv' \in Seq(TurnsOf(calls', S)) /\ HeardIn(conv') = HeardIn(Append(conv, t))
      /\ todo' \in Seq(1..calls') /\ results' \in Seq(TurnsOf(calls', S))
      /\ HeardIn(results') = {} /\ pc' \in {"idle", "tools", "stopped"}
      /\ pc' = "tools" <=> todo' # <<>>
      /\ severed' \subseteq 1..calls'
  <2> DEFINE N == calls'
             c == Append(conv, t)
  <2>1. N \in Nat /\ c \in Seq(TurnsOf(N, S)) /\ made \in SUBSET (1..N) /\ left \in Seq(1..N)
        /\ <<>> \in Seq(TurnsOf(N, S)) /\ HeardIn(<<>>) = {} /\ severed \subseteq 1..N
        /\ Proceed(c, made, left, <<>>)
    BY <1>1, <1>2, <1>4, <1>7, <1>8
  <2> HIDE DEF N, c
  <2>2. /\ conv' \in Seq(TurnsOf(N, S)) /\ HeardIn(conv') = HeardIn(c)
        /\ todo' \in Seq(1..N) /\ results' \in Seq(TurnsOf(N, S)) /\ HeardIn(results') = {}
        /\ pc' \in {"idle", "tools", "stopped"} /\ (pc' = "tools" <=> todo' # <<>>)
        /\ severed' \subseteq 1..N
    BY <2>1, Proceeds
  <2>3. QED
    BY <2>2 DEF N, c
<1>10. StepTyped'
  BY <1>1, <1>9, ConversationConstants DEF StepTyped, ConvInv, S
<1>11. Talk(calls', S, conv', inbox, read, summarised)
  <2>1. Talk(calls', S, conv, inbox, read, summarised)
    BY <1>5 DEF ConvInv, S
  <2>2. QED
    BY <1>6, <1>7, <1>9, <2>1 DEF Talk
<1>12. /\ Talk(calls', S, saved.conv, saved.inbox, saved.read, saved.summarised)
       /\ summary # None =>
           /\ Talk(calls', S, summary.base, <<>>, read, summary.dropped)
           /\ Talk(calls', S, summary.new, <<>>, read, summary.dropped)
  BY <1>5 DEF ConvInv, S
<1>13. QED
  BY <1>1, <1>7, <1>9, <1>10, <1>11, <1>12 DEF ConvInv, S

LEMMA ToolReturnsConv ==
  ASSUME ConvInv, NEW size \in 1..2, ToolReturns(size)
  PROVE  ConvInv' /\ HeardIn(conv') = HeardIn(conv)
<1> DEFINE S == DOMAIN kind
           N == calls
           t == ToolTurn(todo[1], size)
           done == results \o ToolResult(todo[1], size)
           left == Tail(todo)
           made == InFlight
<1>1. /\ N \in Nat /\ todo \in Seq(1..N) /\ todo # <<>> /\ results \in Seq(TurnsOf(N, S))
      /\ HeardIn(results) = {} /\ conv \in Seq(TurnsOf(N, S)) /\ severed \subseteq 1..N
      /\ Proceed(conv, made, left, done)
      /\ UNCHANGED <<policy, kind, inbox, read, summarised, summary, saved, sent, overwritten,
                     calls, retries>>
  BY DEF ToolReturns, ConvInv, StepTyped, Talk, radio, disk
<1>2. made \in SUBSET (1..N)
  BY InFlightMade
<1>3. todo[1] \in 1..N /\ left \in Seq(1..N)
  BY <1>1
<1>4. t \in TurnsOf(N, S) /\ t.heard = {}
  BY <1>3 DEF ToolTurn, Turn, TurnsOf
<1> HIDE DEF made, left, t, S
<1>5. done \in Seq(TurnsOf(N, S)) /\ HeardIn(done) = {}
  <2>1. ToolResult(todo[1], size) = <<t>>
    BY DEF ToolResult, t
  <2>2. <<t>> \in Seq(TurnsOf(N, S)) /\ HeardIn(<<t>>) = {}
    BY <1>4, OneTurn
  <2> DEFINE d == <<t>>
  <2>3. HeardIn(done) = HeardIn(results) \cup HeardIn(d) /\ done \in Seq(TurnsOf(N, S))
    <3> DEFINE T == TurnsOf(N, S)
    <3>1. d \in Seq(T) /\ results \in Seq(T) /\ done = results \o d
      BY <1>1, <2>1, <2>2
    <3> HIDE DEF d, done, T
    <3>2. QED
      BY <3>1, Together DEF T
  <2>4. QED
    BY <1>1, <2>2, <2>3
<1> HIDE DEF done
<1>6. /\ conv' \in Seq(TurnsOf(N, S)) /\ HeardIn(conv') = HeardIn(conv)
      /\ todo' \in Seq(1..N) /\ results' \in Seq(TurnsOf(N, S)) /\ HeardIn(results') = {}
      /\ pc' \in {"idle", "tools", "stopped"} /\ (pc' = "tools" <=> todo' # <<>>)
      /\ severed' \subseteq 1..N
  <2> HIDE DEF N
  <2>1. QED
    BY <1>1, <1>2, <1>3, <1>5, Proceeds
<1>7. StepTyped'
  BY <1>1, <1>6 DEF StepTyped, ConvInv, S
<1>8. Talk(calls, S, conv', inbox, read, summarised)
  BY <1>6 DEF ConvInv, Talk, S
<1>9. QED
  BY <1>1, <1>6, <1>7, <1>8 DEF ConvInv, S

\* What Save keeps is the conversation as it is then.
LEMMA SaveConv ==
  ASSUME ConvInv, Save, NEW n \in Nat, NEW S, Talk(n, S, conv', inbox', read', summarised')
  PROVE  Talk(n, S, saved'.conv, saved'.inbox, saved'.read, saved'.summarised)
<1>1. /\ saved'.conv = conv' /\ saved'.inbox = inbox' /\ saved'.read = read'
      /\ saved'.summarised = summarised'
  BY DEF Save
<1>2. QED
  BY <1>1

\* Compaction by rule keeps the types.
LEMMA CompactedTalk ==
  ASSUME ConvInv
  PROVE  Talk(calls, DOMAIN kind, Compacted(conv), inbox, read, summarised \cup Dropped(conv))
<1>1. calls \in Nat /\ conv \in Seq(TurnsOf(calls, DOMAIN kind)) /\ HeardIn(conv) \subseteq read
  BY DEF ConvInv, Talk
<1>2. /\ Compacted(conv) \in Seq(TurnsOf(calls, DOMAIN kind))
      /\ HeardIn(Compacted(conv)) \subseteq HeardIn(conv) /\ Dropped(conv) \subseteq HeardIn(conv)
  BY <1>1, CompactedKeeps
<1>3. QED
  BY <1>1, <1>2 DEF ConvInv, Talk

LEMMA FlushConv ==
  ASSUME ConvInv, FlushCheckpoint
  PROVE  ConvInv'
<1>1. /\ conv' = Compacted(conv) /\ summarised' = summarised \cup Dropped(conv) /\ Save
      /\ UNCHANGED <<policy, step, inbox, kind, read, calls, summary, severed, overwritten>>
  BY DEF FlushCheckpoint, radio, history
<1>2. calls \in Nat /\ Talk(calls, DOMAIN kind, conv', inbox', read', summarised')
  BY <1>1, CompactedTalk DEF ConvInv
<1>3. Talk(calls, DOMAIN kind, saved'.conv, saved'.inbox, saved'.read, saved'.summarised)
  BY <1>1, <1>2, SaveConv
<1>4. StepTyped'
  BY <1>1 DEF step, ConvInv, StepTyped
<1>5. QED
  BY <1>1, <1>2, <1>3, <1>4 DEF ConvInv

LEMMA SummaryStartsConv ==
  ASSUME ConvInv, SummaryStarts
  PROVE  ConvInv'
<1>1. /\ TooLong(conv) /\ summary' = LlmBasedSummary(conv)
      /\ UNCHANGED <<policy, conv, step, inbox, kind, read, summarised, calls, saved, severed,
                     overwritten>>
  BY DEF SummaryStarts, radio, history
<1>2. calls \in Nat /\ conv \in Seq(TurnsOf(calls, DOMAIN kind)) /\ HeardIn(conv) \subseteq read
      /\ read \subseteq DOMAIN kind
  BY DEF ConvInv, Talk
<1>3. /\ Assemble(conv) \in Seq(TurnsOf(calls, DOMAIN kind))
      /\ HeardIn(Assemble(conv)) \subseteq HeardIn(conv) /\ Dropped(conv) \subseteq HeardIn(conv)
  BY <1>1, <1>2, Assembled, AssembleKeeps
<1>4. summary'.base = conv /\ summary'.new = Assemble(conv) /\ summary'.dropped = Dropped(conv)
  BY <1>1 DEF LlmBasedSummary
<1>5. /\ Talk(calls, DOMAIN kind, conv, <<>>, read, Dropped(conv))
      /\ Talk(calls, DOMAIN kind, Assemble(conv), <<>>, read, Dropped(conv))
  <2>1. <<>> \in Seq(DOMAIN kind) /\ Range(<<>>) = {}
    BY DEF Range
  <2>2. QED
    BY <1>2, <1>3, <2>1 DEF Talk
<1>6. StepTyped'
  BY <1>1 DEF step, ConvInv, StepTyped
<1>7. QED
  BY <1>1, <1>4, <1>5, <1>6 DEF ConvInv

LEMMA SummaryEndsConv ==
  ASSUME ConvInv, SummaryEnds
  PROVE  ConvInv'
<1>1. /\ summary # None /\ summary' = None /\ conv' = summary.new /\ Save
      /\ summarised' = summarised \cup summary.dropped
      /\ severed' = ((severed \cup (CallsOf(conv) \ CallsOf(summary.base)))
                     \cup (AnswersOf(conv) \ AnswersOf(summary.base)))
                     \cup (Open(summary.new) \ InFlight)
      /\ overwritten' = overwritten \cup (HeardIn(conv) \ HeardIn(summary.base))
      /\ UNCHANGED <<policy, step, inbox, kind, read, calls>>
  BY DEF SummaryEnds, radio
<1> DEFINE S == DOMAIN kind
<1>2. /\ calls \in Nat /\ conv \in Seq(TurnsOf(calls, S)) /\ summary.new \in Seq(TurnsOf(calls, S))
      /\ HeardIn(summary.new) \subseteq read /\ summary.dropped \subseteq read
  BY <1>1 DEF ConvInv, Talk
<1>3. Talk(calls, S, conv', inbox', read', summarised')
  BY <1>1, <1>2 DEF ConvInv, Talk
<1>4. Talk(calls, S, saved'.conv, saved'.inbox, saved'.read, saved'.summarised)
  BY <1>1, <1>2, <1>3, SaveConv
<1>5. /\ CallsOf(conv) \subseteq 1..calls /\ AnswersOf(conv) \subseteq 1..calls
      /\ HeardIn(conv) \subseteq S /\ Open(summary.new) \subseteq 1..calls
  BY <1>2, CallsMade
<1>6. severed' \subseteq 1..calls /\ overwritten' \subseteq S
  BY <1>1, <1>5 DEF ConvInv
<1>7. StepTyped'
  BY <1>1 DEF step, ConvInv, StepTyped
<1>8. QED
  BY <1>1, <1>3, <1>4, <1>6, <1>7 DEF ConvInv

LEMMA InterruptConv ==
  ASSUME ConvInv, Interrupt
  PROVE  ConvInv'
<1>1. /\ conv' = Compacted(conv) /\ summarised' = summarised \cup Dropped(conv) /\ Save
      /\ severed' = severed \cup InFlight /\ pc' = "stopped" /\ todo' = <<>> /\ results' = <<>>
      /\ UNCHANGED <<policy, sent, retries, inbox, kind, read, calls, summary, overwritten>>
  BY DEF Interrupt, radio
<1>2. calls \in Nat /\ Talk(calls, DOMAIN kind, conv', inbox', read', summarised')
  BY <1>1, CompactedTalk DEF ConvInv
<1>3. Talk(calls, DOMAIN kind, saved'.conv, saved'.inbox, saved'.read, saved'.summarised)
  BY <1>1, <1>2, SaveConv
<1>4. StepTyped'
  BY <1>1, NoTurn DEF ConvInv, StepTyped
<1>5. severed' \subseteq 1..calls
  BY <1>1, InFlightMade DEF ConvInv
<1>6. QED
  BY <1>1, <1>2, <1>3, <1>4, <1>5 DEF ConvInv

LEMMA CrashConv ==
  ASSUME ConvInv, CrashAndResume
  PROVE  ConvInv'
<1>1. /\ conv' = saved.conv /\ inbox' = saved.inbox /\ read' = saved.read
      /\ summarised' = saved.summarised /\ severed' = severed \cup Open(saved.conv)
      /\ summary' = None /\ pc' = "stopped" /\ todo' = <<>> /\ results' = <<>>
      /\ UNCHANGED <<policy, sent, retries, kind, calls, saved, overwritten>>
  BY DEF CrashAndResume
<1>2. StepTyped'
  BY <1>1, NoTurn DEF ConvInv, StepTyped
<1>3. calls \in Nat /\ saved.conv \in Seq(TurnsOf(calls, DOMAIN kind))
  BY DEF ConvInv, Talk
<1>4. Open(saved.conv) \subseteq 1..calls
  BY <1>3, CallsMade
<1>5. QED
  BY <1>1, <1>2, <1>4 DEF ConvInv

LEMMA NextConv == ConvInv /\ [Next]_vars => ConvInv'
<1> SUFFICES ASSUME ConvInv, [Next]_vars PROVE ConvInv'
  OBVIOUS
<1>1. CASE \E k \in Kinds : Arrive(k)
  BY <1>1, ArriveConv
<1>2. CASE \E s \in Situation, done \in BOOLEAN : Step(s, done)
  BY <1>2, StepConv
<1>3. CASE \E n \in 0..MaxCalls, size \in 0..1 : Reply(n, size)
  BY <1>3, ReplyConv
<1>4. CASE \E size \in 1..2 : ToolReturns(size)
  BY <1>4, ToolReturnsConv
<1>5. CASE \/ \E f \in Failure : ModelFails(f)
           \/ Refuse \/ NewRun \/ SummaryCancelled \/ UNCHANGED vars
  BY <1>5, PlaceConv
<1>6. CASE FlushCheckpoint
  BY <1>6, FlushConv
<1>7. CASE SummaryStarts
  BY <1>7, SummaryStartsConv
<1>8. CASE SummaryEnds
  BY <1>8, SummaryEndsConv
<1>9. CASE Interrupt
  BY <1>9, InterruptConv
<1>10. CASE CrashAndResume
  BY <1>10, CrashConv
<1>11. QED
  BY <1>1, <1>2, <1>3, <1>4, <1>5, <1>6, <1>7, <1>8, <1>9, <1>10 DEF Next

\* A conversation and its checkpoint hold turns that make and answer calls that
\* were made, an agent is in a tool exactly while calls of its reply are left,
\* and no message is both unread and read: agent.conversation, drain and the
\* loop of run_agent, under cuts and compaction, for any number of messages,
\* replies, calls and cuts.
THEOREM ConversationTypeCorrect == Spec => []TypeOK
<1>1. Spec => []ConvInv
  BY InitConv, NextConv, PTL DEF Spec
<1>2. QED
  BY <1>1, ConvInvIsTypeOK, PTL

(***************************************************************************)
(* What is addressed to the agent is read in full.                         *)
(***************************************************************************)

\* Relevance is a hundredth, and reaches the policy's skim threshold for a
\* message that is addressed to the agent.
LEMMA ScoreOfOne ==
  ASSUME policy \in Policies, NEW k \in Kinds
  PROVE  /\ ScoreMessage(k) \in 0..100
         /\ Addressed(k) => policy.skim <= ScoreMessage(k)
<1>1. /\ policy.mention \in 0..100 /\ policy.member \in 0..100 /\ policy.recent \in 0..100
      /\ policy.skim \in 0..100
      /\ {k.human, k.urgent, k.inner, k.mention, k.member, k.recent} \subseteq BOOLEAN
  BY ConversationConstants
<1> DEFINE top == Most({policy.mention, policy.skim})
           base == IF k.mention THEN top ELSE 0
           a == IF k.member THEN policy.member ELSE 0
           b == IF k.recent THEN policy.recent ELSE 0
           sum == base + a + b
           least == Least({100, sum})
<1>2. top \in 0..100 /\ policy.skim <= top
  <2>1. policy.mention \in Nat /\ policy.skim \in Nat
    BY <1>1
  <2>2. top \in {policy.mention, policy.skim} /\ top >= policy.skim
    BY <2>1, MostOfTwo
  <2> HIDE DEF top
  <2>3. top = policy.mention \/ top = policy.skim
    BY <2>2
  <2>4. QED
    BY <1>1, <2>1, <2>2, <2>3
<1> HIDE DEF top
<1>3. base \in Nat /\ (k.mention => policy.skim <= base)
  BY <1>1, <1>2
<1> HIDE DEF base
<1>4. sum \in Nat /\ base <= sum
  <2>1. a \in Nat /\ b \in Nat
    BY <1>1
  <2> HIDE DEF a, b
  <2>2. QED
    BY <1>3, <2>1
<1> HIDE DEF sum
<1>5. least \in {100, sum} /\ least <= 100 /\ least <= sum
  BY <1>4, LeastExists
<1>6. ScoreMessage(k) = IF k.human \/ k.urgent THEN 100 ELSE least
  BY DEF ScoreMessage, least, sum, a, b, base, top
<1> HIDE DEF least
<1>7. least \in 0..100 /\ (k.mention => policy.skim <= least)
  BY <1>1, <1>3, <1>4, <1>5
<1>8. QED
  BY <1>1, <1>6, <1>7 DEF Addressed

\* One such message has the whole batch read in full.
LEMMA AddressedEngages ==
  ASSUME ConvInv, NEW situation \in Situation, NEW done, NEW m \in Range(inbox),
         Addressed(kind[m])
  PROVE  TierOf(done, situation) = "engage"
<1> DEFINE scores == {ScoreMessage(kind[inbox[i]]) : i \in DOMAIN inbox}
           f1 == policy.floor[situation]
           f2 == policy.floor["default"]
           r == Most({ScoreBatch(inbox), f1, f2})
<1>1. policy \in Policies /\ kind \in Seq(Kinds) /\ inbox \in Seq(DOMAIN kind)
  BY DEF ConvInv, Talk
<1>2. \A i \in DOMAIN inbox : inbox[i] \in DOMAIN kind /\ kind[inbox[i]] \in Kinds
  BY <1>1
<1>3. PICK j \in DOMAIN inbox : inbox[j] = m
  BY DEF Range
<1>4. scores \subseteq 0..100 /\ ScoreMessage(kind[m]) \in scores
  BY <1>1, <1>2, <1>3, ScoreOfOne
<1>5. policy.skim \in 0..100 /\ policy.skim <= ScoreMessage(kind[m])
      /\ policy.ignore \in 0..100 /\ policy.ignore <= policy.skim
  BY <1>1, <1>2, <1>3, ScoreOfOne, ConversationConstants
<1>6. f1 \in 0..100 /\ f2 \in 0..100
  <2>1. policy.floor \in [Situation -> 0..100]
    BY <1>1, ConversationConstants
  <2>2. situation \in Situation /\ "default" \in Situation
    BY DEF Situation
  <2>3. QED
    BY <2>1, <2>2
<1> HIDE DEF scores, f1, f2
<1>7. /\ Most(scores) \in scores /\ \A n \in scores : n <= Most(scores)
  <2>1. scores \subseteq Nat /\ scores # {} /\ \A n \in scores : n <= 100
    BY <1>4
  <2>2. QED
    BY <2>1, MostExists
<1>8. ScoreBatch(inbox) = Most(scores)
  BY DEF ScoreBatch, scores
<1>9. ScoreBatch(inbox) \in 0..100 /\ policy.skim <= ScoreBatch(inbox)
  <2>1. ScoreMessage(kind[m]) <= Most(scores)
    BY <1>4, <1>7
  <2>2. Most(scores) \in 0..100 /\ ScoreMessage(kind[m]) \in 0..100
    BY <1>4, <1>7
  <2>3. policy.skim <= Most(scores)
    <3>1. \A x, y, z \in 0..100 : x <= y /\ y <= z => x <= z
      OBVIOUS
    <3>2. QED
      BY <1>5, <2>1, <2>2, <3>1
  <2>4. QED
    BY <1>8, <2>2, <2>3
<1>10. r \in 0..100 /\ ScoreBatch(inbox) <= r
  <2> DEFINE T == {ScoreBatch(inbox), f1, f2}
  <2>1. T \subseteq Nat /\ T # {} /\ \A n \in T : n <= 100
    BY <1>6, <1>9
  <2>2. ScoreBatch(inbox) \in T /\ T \subseteq 0..100
    BY <1>6, <1>9
  <2> HIDE DEF T
  <2>3. Most(T) \in T /\ \A n \in T : n <= Most(T)
    BY <2>1, MostExists
  <2>4. QED
    BY <2>2, <2>3 DEF T
<1> HIDE DEF r
<1>11. ~(r < policy.ignore) /\ ~(r < policy.skim)
  <2> DEFINE s == ScoreBatch(inbox)
             p == policy.skim
             q == policy.ignore
  <2>1. p \in 0..100 /\ q \in 0..100 /\ s \in 0..100 /\ r \in 0..100
        /\ q <= p /\ p <= s /\ s <= r
    BY <1>5, <1>9, <1>10
  <2> HIDE DEF p, q, s
  <2>2. ~(r < q) /\ ~(r < p)
    BY <2>1
  <2>3. QED
    BY <2>2 DEF p, q
<1>12. Tier(inbox, situation) = IF r < policy.ignore THEN "ignore"
                                ELSE IF r < policy.skim THEN "skim" ELSE "engage"
  BY DEF Tier, r, f1, f2
<1>13. QED
  BY <1>11, <1>12 DEF TierOf

\* Of the messages in known, those addressed to the agent are among what the
\* conversation c quotes and what is gone.
Kept(kinds, known, c, gone) ==
    \A m \in known : Addressed(kinds[m]) => m \in HeardIn(c) \cup gone

ReadInv ==
    /\ ConvInv
    /\ Kept(kind, read, conv, summarised \cup overwritten)
    /\ Kept(kind, saved.read, saved.conv, saved.summarised \cup overwritten)
    /\ summary # None => HeardIn(summary.base) \subseteq HeardIn(summary.new) \cup summary.dropped

LEMMA InitRead == Init => ReadInv
  BY InitConv DEF Init, ReadInv, Kept

LEMMA ArriveRead ==
  ASSUME ReadInv, NEW k \in Kinds, Arrive(k)
  PROVE  ReadInv'
<1>1. ConvInv'
  BY ArriveConv DEF ReadInv
<1>2. /\ read \subseteq DOMAIN kind /\ saved.read \subseteq DOMAIN kind /\ kind \in Seq(Kinds)
  BY DEF ReadInv, ConvInv, Talk
<1>3. \A m \in DOMAIN kind : kind'[m] = kind[m]
  BY <1>2 DEF Arrive
<1>4. UNCHANGED <<conv, read, summarised, summary, saved, overwritten>>
  BY DEF Arrive, disk, history
<1>5. QED
  BY <1>1, <1>2, <1>3, <1>4 DEF ReadInv, Kept

LEMMA StepRead ==
  ASSUME ReadInv, NEW situation \in Situation, NEW done \in BOOLEAN, Step(situation, done)
  PROVE  ReadInv'
<1> DEFINE tier == TierOf(done, situation)
           block == RadioBlock(inbox, tier)
           T == TurnsOf(calls, DOMAIN kind)
<1>1. ConvInv'
  BY StepConv DEF ReadInv
<1>2. /\ conv' = conv \o block /\ read' = read \cup Range(inbox)
      /\ UNCHANGED <<kind, summarised, summary, saved, overwritten>>
  BY DEF Step, TierOf, disk, history
<1>3. conv \in Seq(T) /\ inbox \in Seq(DOMAIN kind) /\ calls \in Nat
  BY DEF ReadInv, ConvInv, Talk
<1>4. tier \in {"engage", "skim", "ignore"}
  BY TierKnown
<1>5. block \in Seq(T) /\ (tier = "engage" => HeardIn(block) = Range(inbox))
  <2> HIDE DEF tier
  <2>1. QED
    BY <1>3, <1>4, BlockQuotes
<1>6. \A m \in Range(inbox) : Addressed(kind[m]) => tier = "engage"
  BY AddressedEngages DEF ReadInv
<1> HIDE DEF tier, block, T
<1>7. HeardIn(conv \o block) = HeardIn(conv) \cup HeardIn(block)
  BY ONLY <1>3, <1>5, Together
<1>8. Kept(kind', read', conv', summarised' \cup overwritten')
  <2>1. \A m \in read \cup Range(inbox) : Addressed(kind[m]) =>
            m \in ((HeardIn(conv) \cup HeardIn(block)) \cup summarised) \cup overwritten
    BY <1>5, <1>6 DEF ReadInv, Kept
  <2>2. QED
    BY <1>2, <1>7, <2>1 DEF Kept
<1>9. QED
  BY <1>1, <1>2, <1>8 DEF ReadInv, Kept

\* What a step does to the rest of the conversation quotes and drops nothing.
LEMMA TurnsRead ==
  ASSUME ReadInv, ConvInv', HeardIn(conv') = HeardIn(conv),
         UNCHANGED <<kind, read, summarised, saved, overwritten>>, summary' \in {summary, None}
  PROVE  ReadInv'
  BY DEF ReadInv, Kept

\* Compaction by rule, and the checkpoint of it.
LEMMA CompactRead ==
  ASSUME ReadInv, ConvInv', conv' = Compacted(conv), Save,
         summarised' = summarised \cup Dropped(conv),
         UNCHANGED <<kind, read, summary, overwritten>>
  PROVE  ReadInv'
<1>1. calls \in Nat /\ conv \in Seq(TurnsOf(calls, DOMAIN kind))
  BY DEF ReadInv, ConvInv, Talk
<1>2. HeardIn(conv) \subseteq HeardIn(Compacted(conv)) \cup Dropped(conv)
  BY <1>1, CompactedKeeps
<1>3. Kept(kind', read', conv', summarised' \cup overwritten')
  BY <1>2 DEF ReadInv, Kept
<1>4. saved'.conv = conv' /\ saved'.read = read' /\ saved'.summarised = summarised'
  BY DEF Save
<1>5. QED
  BY <1>3, <1>4 DEF ReadInv, Kept

LEMMA SummaryStartsRead ==
  ASSUME ReadInv, SummaryStarts
  PROVE  ReadInv'
<1>1. ConvInv'
  BY SummaryStartsConv DEF ReadInv
<1>2. /\ TooLong(conv) /\ summary' = LlmBasedSummary(conv)
      /\ UNCHANGED <<conv, kind, read, summarised, saved, overwritten>>
  BY DEF SummaryStarts, radio, history
<1>3. calls \in Nat /\ conv \in Seq(TurnsOf(calls, DOMAIN kind))
  BY DEF ReadInv, ConvInv, Talk
<1>4. HeardIn(conv) \subseteq HeardIn(Assemble(conv)) \cup Dropped(conv)
  BY <1>2, <1>3, AssembleKeeps
<1>5. summary'.base = conv /\ summary'.new = Assemble(conv) /\ summary'.dropped = Dropped(conv)
  BY <1>2 DEF LlmBasedSummary
<1>6. QED
  BY <1>1, <1>2, <1>4, <1>5 DEF ReadInv, Kept

\* What came after the copy was taken counts as overwritten.
LEMMA SummaryEndsRead ==
  ASSUME ReadInv, SummaryEnds
  PROVE  ReadInv'
<1>1. ConvInv'
  BY SummaryEndsConv DEF ReadInv
<1>2. /\ summary # None /\ summary' = None /\ conv' = summary.new /\ Save
      /\ summarised' = summarised \cup summary.dropped
      /\ overwritten' = overwritten \cup (HeardIn(conv) \ HeardIn(summary.base))
      /\ UNCHANGED <<kind, read>>
  BY DEF SummaryEnds, radio
<1>3. HeardIn(summary.base) \subseteq HeardIn(summary.new) \cup summary.dropped
  BY <1>2 DEF ReadInv
<1>4. Kept(kind', read', conv', summarised' \cup overwritten')
  BY <1>2, <1>3 DEF ReadInv, Kept
<1>5. saved'.conv = conv' /\ saved'.read = read' /\ saved'.summarised = summarised'
  BY <1>2 DEF Save
<1>6. QED
  BY <1>1, <1>2, <1>4, <1>5 DEF ReadInv, Kept

LEMMA CrashRead ==
  ASSUME ReadInv, CrashAndResume
  PROVE  ReadInv'
<1>1. ConvInv'
  BY CrashConv DEF ReadInv
<1>2. QED
  BY <1>1 DEF CrashAndResume, ReadInv, Kept

LEMMA NextRead == ReadInv /\ [Next]_vars => ReadInv'
<1> SUFFICES ASSUME ReadInv, [Next]_vars PROVE ReadInv'
  OBVIOUS
<1>1. CASE \E k \in Kinds : Arrive(k)
  BY <1>1, ArriveRead
<1>2. CASE \E s \in Situation, done \in BOOLEAN : Step(s, done)
  BY <1>2, StepRead
<1>3. CASE \E n \in 0..MaxCalls, size \in 0..1 : Reply(n, size)
  <2>1. PICK n \in 0..MaxCalls, size \in 0..1 : Reply(n, size)
    BY <1>3
  <2>2. ConvInv' /\ HeardIn(conv') = HeardIn(conv)
    BY <2>1, ReplyConv DEF ReadInv
  <2>3. UNCHANGED <<kind, read, summarised, saved, overwritten, summary>>
    BY <2>1 DEF Reply, radio, disk
  <2>4. QED
    BY <2>2, <2>3, TurnsRead
<1>4. CASE \E size \in 1..2 : ToolReturns(size)
  <2>1. PICK size \in 1..2 : ToolReturns(size)
    BY <1>4
  <2>2. ConvInv' /\ HeardIn(conv') = HeardIn(conv)
    BY <2>1, ToolReturnsConv DEF ReadInv
  <2>3. UNCHANGED <<kind, read, summarised, saved, overwritten, summary>>
    BY <2>1 DEF ToolReturns, radio, disk
  <2>4. QED
    BY <2>2, <2>3, TurnsRead
<1>5. CASE \/ \E f \in Failure : ModelFails(f)
           \/ Refuse \/ NewRun \/ SummaryCancelled \/ UNCHANGED vars
  <2>1. ConvInv'
    BY <1>5, PlaceConv DEF ReadInv
  <2>2. /\ UNCHANGED <<conv, kind, read, summarised, saved, overwritten>>
        /\ summary' \in {summary, None}
    BY <1>5 DEF ModelFails, Refuse, NewRun, SummaryCancelled, vars, radio, disk, history
  <2>3. QED
    BY <2>1, <2>2, TurnsRead
<1>6. CASE FlushCheckpoint
  <2>1. ConvInv'
    BY <1>6, FlushConv DEF ReadInv
  <2>2. QED
    BY <1>6, <2>1, CompactRead DEF FlushCheckpoint, radio, history
<1>7. CASE SummaryStarts
  BY <1>7, SummaryStartsRead
<1>8. CASE SummaryEnds
  BY <1>8, SummaryEndsRead
<1>9. CASE Interrupt
  <2>1. ConvInv'
    BY <1>9, InterruptConv DEF ReadInv
  <2>2. QED
    BY <1>9, <2>1, CompactRead DEF Interrupt, radio
<1>10. CASE CrashAndResume
  BY <1>10, CrashRead
<1>11. QED
  BY <1>1, <1>2, <1>3, <1>4, <1>5, <1>6, <1>7, <1>8, <1>9, <1>10 DEF Next

\* A message of the human, an URGENT one and one that mentions the agent is in
\* the conversation, or was summarised, or went with a conversation that a late
\* summary replaced: decide's tiers over score_batch, and compact_conversation,
\* for every policy, batch, failure and cut.
THEOREM AddressedMessagesAreRead == Spec => []AddressedIsRead
<1>1. Spec => []ReadInv
  BY InitRead, NextRead, PTL DEF Spec
<1>2. ReadInv => AddressedIsRead
  BY DEF ReadInv, Kept, AddressedIsRead
<1>3. QED
  BY <1>1, <1>2, PTL

(***************************************************************************)
(* Every call has its result at its place.                                 *)
(***************************************************************************)

\* Turn i makes calls a+1..a+n, and the n turns that follow are their results.
AnsweredBy(c, i, a, n) ==
    /\ c[i].calls = (a + 1)..(a + n) /\ i + n <= Len(c)
    /\ \A k \in 1..n : c[i + k].role = "tool" /\ c[i + k].answers = a + k
    /\ i + n < Len(c) => c[i + n + 1].role # "tool"
Answered(c, i) == \E a, n \in Nat : AnsweredBy(c, i, a, n)

\* Turn i is one of the results that follow another turn.
Belongs(c, i) ==
    /\ c[i].calls = {}
    /\ \E j \in 1..(i - 1) : /\ c[j].role # "tool"
                             /\ \A m \in (j + 1)..i : c[m].role = "tool"

\* Every turn is one or the other, but for the last of a conversation whose
\* calls are under way.
Matched(c, open) ==
    \A i \in 1..Len(c) :
        IF c[i].role = "tool" THEN Belongs(c, i)
        ELSE (open /\ i = Len(c)) \/ Answered(c, i)
Paired(c) == Matched(c, FALSE)

LastCalls(c) == c[Len(c)].calls
OpenEnded(c) ==
    /\ c # <<>> /\ c[Len(c)].role = "assistant"
    /\ LastCalls(c) # {} /\ LastCalls(c) \cap AnswersOf(c) = {}
    /\ Matched(c, TRUE)

\* Two turns play the same part.
Alike(t, u) == t.role = u.role /\ t.calls = u.calls /\ t.answers = u.answers

\* Where turn i of c is turn j of d, with what follows it in c, it is answered
\* there when it was.
LEMMA AnsweredMoves ==
  ASSUME NEW c, NEW d, Len(c) \in Nat, Len(d) \in Nat,
         NEW i \in 1..Len(c), NEW j \in 1..Len(d), Len(c) - i <= Len(d) - j,
         \A m \in i..Len(c) : Alike(d[j + (m - i)], c[m]),
         Len(c) - i < Len(d) - j =>
             \/ d[j + (Len(c) - i) + 1].role # "tool"
             \/ i < Len(c) /\ c[Len(c)].role # "tool",
         Answered(c, i)
  PROVE  Answered(d, j)
<1>1. PICK a \in Nat, n \in Nat : AnsweredBy(c, i, a, n)
  BY DEF Answered
<1>2. i + n <= Len(c) /\ j + n <= Len(d)
  BY <1>1 DEF AnsweredBy
<1>3. d[j].calls = (a + 1)..(a + n)
  <2>1. i \in i..Len(c) /\ j + (i - i) = j
    OBVIOUS
  <2>2. Alike(d[j], c[i])
    BY <2>1
  <2>3. QED
    BY <1>1, <2>2 DEF AnsweredBy, Alike
<1>4. ASSUME NEW k \in 1..n
      PROVE  d[j + k].role = "tool" /\ d[j + k].answers = a + k
  <2>1. i + k \in i..Len(c) /\ j + ((i + k) - i) = j + k
    BY <1>2
  <2>2. Alike(d[j + k], c[i + k])
    BY <2>1
  <2>3. QED
    BY <1>1, <2>2 DEF AnsweredBy, Alike
<1>5. ASSUME j + n < Len(d)
      PROVE  d[j + n + 1].role # "tool"
  <2>1. CASE i + n < Len(c)
    <3>1. i + n + 1 \in i..Len(c) /\ j + ((i + n + 1) - i) = j + n + 1
      BY <2>1
    <3>2. Alike(d[j + n + 1], c[i + n + 1])
      BY <3>1
    <3>3. QED
      BY <1>1, <2>1, <3>2 DEF AnsweredBy, Alike
  <2>2. CASE i + n = Len(c)
    <3>1. Len(c) - i = n /\ Len(c) - i < Len(d) - j
      BY <1>5, <2>2
    <3>2. CASE i < Len(c) /\ c[Len(c)].role # "tool"
      <4>1. n \in 1..n
        BY <2>2, <3>2
      <4>2. c[i + n].role = "tool"
        BY <1>1, <4>1 DEF AnsweredBy
      <4>3. QED
        BY <2>2, <3>2, <4>2
    <3>3. CASE d[j + (Len(c) - i) + 1].role # "tool"
      BY <3>1, <3>3
    <3>4. QED
      BY <3>1, <3>2, <3>3
  <2>3. QED
    BY <1>2, <2>1, <2>2
<1>6. AnsweredBy(d, j, a, n)
  BY <1>2, <1>3, <1>4, <1>5 DEF AnsweredBy
<1>7. QED
  BY <1>6 DEF Answered

\* Where turn i of c is turn j of d, with what precedes it in c from a turn
\* that is no result, it belongs there when it did.
LEMMA BelongsMoves ==
  ASSUME NEW c, NEW d, NEW i \in Nat \ {0}, NEW j \in Nat \ {0},
         NEW from \in 1..i, i - from < j,
         \A m \in from..i : Alike(d[j - (i - m)], c[m]),
         from = 1 \/ c[from].role # "tool",
         Belongs(c, i)
  PROVE  Belongs(d, j)
<1>1. PICK p \in 1..(i - 1) : /\ c[p].role # "tool"
                              /\ \A m \in (p + 1)..i : c[m].role = "tool"
  BY DEF Belongs
<1>2. from <= p
  <2>1. CASE p < from
    <3>1. from \in (p + 1)..i /\ from # 1
      BY <2>1
    <3>2. QED
      BY <1>1, <3>1
  <2>2. QED
    BY <2>1
<1>3. d[j].calls = {}
  <2>1. Alike(d[j - (i - i)], c[i]) /\ j - (i - i) = j
    OBVIOUS
  <2>2. QED
    BY <2>1 DEF Alike, Belongs
<1> DEFINE q == j - (i - p)
<1>4. q \in 1..(j - 1)
  BY <1>2
<1>5. d[q].role # "tool"
  <2>1. p \in from..i
    BY <1>2
  <2>2. Alike(d[q], c[p])
    BY <2>1
  <2>3. QED
    BY <1>1, <2>2 DEF Alike
<1>6. ASSUME NEW m \in (q + 1)..j
      PROVE  d[m].role = "tool"
  <2>1. i - (j - m) \in (p + 1)..i /\ i - (j - m) \in from..i
        /\ j - (i - (i - (j - m))) = m
    BY <1>2, <1>4
  <2>2. Alike(d[m], c[i - (j - m)]) /\ c[i - (j - m)].role = "tool"
    BY <1>1, <2>1
  <2>3. QED
    BY <2>2 DEF Alike
<1> HIDE DEF q
<1>7. QED
  BY <1>3, <1>4, <1>5, <1>6 DEF Belongs

\* A turn that is no result may follow a conversation whose calls are all
\* answered: it is complete if it makes no call, and under way if it does.
LEMMA MatchedAppend ==
  ASSUME NEW T, NEW c \in Seq(T), NEW t \in T, t.role # "tool", Paired(c)
  PROVE  /\ Matched(Append(c, t), TRUE)
         /\ t.calls = {} => Paired(Append(c, t))
<1> DEFINE d == Append(c, t)
<1>1. /\ Len(c) \in Nat /\ Len(d) = Len(c) + 1 /\ d[Len(c) + 1] = t
      /\ \A i \in 1..Len(c) : d[i] = c[i]
  BY AppendProperties
<1> HIDE DEF d
<1>2. ASSUME NEW i \in 1..Len(c)
      PROVE  IF d[i].role = "tool" THEN Belongs(d, i) ELSE Answered(d, i)
  <2>1. d[i] = c[i] /\ \A m \in 1..Len(c) : Alike(d[m], c[m])
    BY <1>1 DEF Alike
  <2>2. CASE c[i].role = "tool"
    <3>1. Belongs(c, i)
      BY <2>2 DEF Paired, Matched
    <3>2. \A m \in 1..i : i - (i - m) = m /\ Alike(d[i - (i - m)], c[m])
      BY <1>1, <2>1
    <3>3. i \in Nat \ {0} /\ 1 \in 1..i /\ i - 1 < i /\ (1 = 1 \/ c[1].role # "tool")
      BY <1>1
    <3>4. Belongs(d, i)
      BY <3>1, <3>2, <3>3, BelongsMoves
    <3>5. QED
      BY <2>1, <2>2, <3>4
  <2>3. CASE c[i].role # "tool"
    <3>1. Answered(c, i)
      BY <2>3 DEF Paired, Matched
    <3>2. \A m \in i..Len(c) : i + (m - i) = m /\ Alike(d[i + (m - i)], c[m])
      BY <1>1, <2>1
    <3>3. d[i + (Len(c) - i) + 1].role # "tool"
      BY <1>1
    <3>4. Len(d) \in Nat /\ i \in 1..Len(d) /\ Len(c) - i <= Len(d) - i
      BY <1>1
    <3>5. Answered(d, i)
      BY <1>1, <3>1, <3>2, <3>3, <3>4, AnsweredMoves
    <3>6. QED
      BY <2>1, <2>3, <3>5
  <2>4. QED
    BY <2>2, <2>3
<1>3. ASSUME t.calls = {}
      PROVE  Answered(d, Len(c) + 1)
  <2>1. AnsweredBy(d, Len(c) + 1, 0, 0)
    BY <1>1, <1>3 DEF AnsweredBy
  <2>2. QED
    BY <2>1 DEF Answered
<1>4. \A i \in 1..Len(d) : i \in 1..Len(c) \/ i = Len(c) + 1
  BY <1>1
<1>5. Matched(d, TRUE)
  BY <1>1, <1>2, <1>4 DEF Matched
<1>6. t.calls = {} => Paired(d)
  BY <1>1, <1>2, <1>3, <1>4 DEF Paired, Matched
<1>7. QED
  BY <1>5, <1>6 DEF d

\* The results of its calls complete a conversation.
LEMMA MatchedResults ==
  ASSUME NEW T, NEW c \in Seq(T), NEW r \in Seq(T), OpenEnded(c),
         NEW a \in Nat, NEW n \in Nat, LastCalls(c) = (a + 1)..(a + n), Len(r) = n,
         \A k \in 1..n : r[k].role = "tool" /\ r[k].calls = {} /\ r[k].answers = a + k
  PROVE  Paired(c \o r)
<1> DEFINE d == c \o r
<1>1. /\ Len(c) \in Nat \ {0} /\ c[Len(c)].role = "assistant" /\ Matched(c, TRUE)
      /\ LastCalls(c) = c[Len(c)].calls
  <2>1. c # <<>> /\ c[Len(c)].role = "assistant" /\ Matched(c, TRUE)
    BY DEF OpenEnded
  <2>2. Len(c) \in Nat \ {0}
    BY <2>1, EmptySeq
  <2>3. QED
    BY <2>1, <2>2 DEF LastCalls
<1>2. /\ Len(d) = Len(c) + n /\ \A i \in 1..Len(c) : d[i] = c[i]
      /\ \A k \in 1..n : d[Len(c) + k] = r[k]
  <2>1. Len(c \o r) = Len(c) + Len(r)
    BY ONLY c \in Seq(T), r \in Seq(T), Joined
  <2>2. \A i \in 1..Len(c) : (c \o r)[i] = c[i]
    BY ONLY c \in Seq(T), r \in Seq(T), Joined
  <2>3. \A k \in 1..Len(r) : (c \o r)[Len(c) + k] = r[k]
    BY ONLY c \in Seq(T), r \in Seq(T), Joined
  <2>4. QED
    BY <2>1, <2>2, <2>3
<1> HIDE DEF d
<1>3. \A m \in 1..Len(c) : Alike(d[m], c[m])
  BY <1>2 DEF Alike
<1>4. \A k \in 1..n : /\ d[Len(c) + k].role = "tool" /\ d[Len(c) + k].calls = {}
                      /\ d[Len(c) + k].answers = a + k
  BY <1>2
<1>5. ASSUME NEW i \in 1..Len(c), c[i].role = "tool"
      PROVE  Belongs(d, i)
  <2>1. Belongs(c, i)
    BY <1>1, <1>5 DEF Matched
  <2>2. i \in Nat \ {0} /\ 1 \in 1..i /\ i - 1 < i /\ (1 = 1 \/ c[1].role # "tool")
    BY <1>1
  <2>3. \A m \in 1..i : i - (i - m) = m /\ Alike(d[i - (i - m)], c[m])
    BY <1>1, <1>3
  <2>4. QED
    BY <2>1, <2>2, <2>3, BelongsMoves
<1>6. ASSUME NEW i \in 1..Len(c), i # Len(c), c[i].role # "tool"
      PROVE  Answered(d, i)
  <2>1. Answered(c, i)
    BY <1>1, <1>6 DEF Matched
  <2>2. i < Len(c) /\ c[Len(c)].role # "tool"
    BY <1>1, <1>6
  <2>3. \A m \in i..Len(c) : i + (m - i) = m /\ Alike(d[i + (m - i)], c[m])
    BY <1>1, <1>3
  <2>4. /\ Len(c) \in Nat /\ Len(d) \in Nat /\ i \in 1..Len(d)
        /\ Len(c) - i <= Len(d) - i
    BY <1>1, <1>2
  <2>5. QED
    BY <2>1, <2>2, <2>3, <2>4, AnsweredMoves
<1> DEFINE last == Len(c)
<1>7. last \in 1..Len(c) /\ last \in Nat \ {0} /\ Len(d) = last + n /\ d[last] = c[last]
      /\ d[last].role # "tool" /\ d[last].calls = (a + 1)..(a + n)
  <2>1. last \in 1..Len(c)
    BY <1>1
  <2>2. QED
    BY <1>1, <1>2, <2>1
<1>8. Answered(d, Len(c))
  <2>1. AnsweredBy(d, last, a, n)
    <3>1. \A k \in 1..n : d[last + k].role = "tool" /\ d[last + k].answers = a + k
      BY <1>4
    <3> HIDE DEF last
    <3>2. QED
      BY <1>7, <3>1 DEF AnsweredBy
  <2>2. QED
    BY <2>1 DEF Answered
<1>9. ASSUME NEW k \in 1..n
      PROVE  Belongs(d, Len(c) + k)
  <2>1. Len(c) \in 1..((Len(c) + k) - 1) /\ d[Len(c)].role # "tool"
    <3>1. last \in 1..((last + k) - 1)
      BY <1>7
    <3>2. QED
      BY <1>7, <3>1
  <2>2. \A m \in (Len(c) + 1)..(Len(c) + k) : d[m].role = "tool"
    <3> TAKE m \in (Len(c) + 1)..(Len(c) + k)
    <3>1. m - Len(c) \in 1..n /\ Len(c) + (m - Len(c)) = m
      BY <1>1
    <3>2. QED
      BY <1>4, <3>1
  <2>3. QED
    BY <1>4, <2>1, <2>2 DEF Belongs
<1>10. ASSUME NEW i \in 1..Len(d)
      PROVE  IF d[i].role = "tool" THEN Belongs(d, i) ELSE Answered(d, i)
  <2>1. CASE i <= Len(c)
    <3>1. i \in 1..Len(c) /\ d[i] = c[i]
      BY <1>1, <1>2, <2>1
    <3>2. CASE c[i].role = "tool"
      BY <1>5, <3>1, <3>2
    <3>3. CASE c[i].role # "tool" /\ i # Len(c)
      BY <1>6, <3>1, <3>3
    <3>4. CASE i = Len(c)
      BY <1>1, <1>8, <3>1, <3>4
    <3>5. QED
      BY <3>2, <3>3, <3>4
  <2>2. CASE i > Len(c)
    <3>1. i - Len(c) \in 1..n /\ Len(c) + (i - Len(c)) = i
      BY <1>1, <1>2, <2>2
    <3>2. Belongs(d, Len(c) + (i - Len(c))) /\ d[Len(c) + (i - Len(c))].role = "tool"
      BY <1>4, <1>9, <3>1
    <3>3. QED
      BY <3>1, <3>2
  <2>3. QED
    BY <1>1, <2>1, <2>2
<1>11. QED
  BY <1>10 DEF Paired, Matched, d

\* Compaction gives the head every result the tail would open with, so it parts
\* no call from its result.
LEMMA AssembleMatched ==
  ASSUME NEW n \in Nat, NEW S, NEW c \in Seq(TurnsOf(n, S)), TooLong(c),
         NEW open \in BOOLEAN, Matched(c, open)
  PROVE  Matched(Assemble(c), open)
<1> DEFINE k == TailStart(c)
           a == Assemble(c)
<1>1. /\ Len(c) \in Nat \ {0} /\ k \in 2..(Len(c) + 1)
      /\ Len(a) = (Len(c) - k) + 2 /\ a[1] = UserTurn({})
      /\ \A i \in 2..Len(a) : i + k - 2 \in k..Len(c) /\ a[i] = Tombstone(c[i + k - 2])
  BY Assembled
<1>2. k <= Len(c) => c[k].role # "tool"
  <2>1. c # <<>>
    BY LongHasTurns
  <2>2. QED
    BY <2>1, TailStarts
<1> HIDE DEF k, a
<1>3. \A i \in 2..Len(a) : Alike(a[i], c[i + k - 2])
  <2> TAKE i \in 2..Len(a)
  <2>1. i + k - 2 \in 1..Len(c)
    BY <1>1
  <2>2. c[i + k - 2] \in TurnsOf(n, S)
    BY <2>1, ElementOfSeq
  <2>3. QED
    BY <1>1, <2>2, Tombstones DEF Alike
<1>4. a[1].role = "user" /\ a[1].calls = {}
  BY <1>1, UserTurnIsTurn
<1>5. Answered(a, 1)
  <2>1. 1 < Len(a) => a[2].role # "tool"
    <3> SUFFICES ASSUME 1 < Len(a) PROVE a[2].role # "tool"
      OBVIOUS
    <3>1. k <= Len(c) /\ 2 \in 2..Len(a) /\ 2 + k - 2 = k
      BY <1>1
    <3>2. Alike(a[2], c[k])
      BY <1>3, <3>1
    <3>3. QED
      BY <1>2, <3>1, <3>2 DEF Alike
  <2>2. AnsweredBy(a, 1, 0, 0)
    BY <1>1, <1>4, <2>1 DEF AnsweredBy
  <2>3. QED
    BY <2>2 DEF Answered
<1>6. ASSUME NEW i \in 2..Len(a)
      PROVE  IF a[i].role = "tool" THEN Belongs(a, i)
             ELSE (open /\ i = Len(a)) \/ Answered(a, i)
  <2> DEFINE j == i + k - 2
  <2>1. j \in 1..Len(c) /\ k <= j /\ k <= Len(c) /\ Len(c) - j = Len(a) - i /\ Alike(a[i], c[j])
    BY <1>1, <1>3
  <2>2. j \in Int /\ i \in Int /\ k \in Int /\ j = i + k - 2
    BY <1>1
  <2> HIDE DEF j
  <2>3. \A m \in k..Len(c) : i - (j - m) \in 2..Len(a) /\ Alike(a[i - (j - m)], c[m])
    <3> TAKE m \in k..Len(c)
    <3>1. i - (j - m) \in 2..Len(a) /\ (i - (j - m)) + k - 2 = m
      BY <1>1, <2>2
    <3>2. QED
      BY <1>3, <3>1
  <2>4. CASE c[j].role = "tool"
    <3>1. Belongs(c, j)
      BY <2>1, <2>4 DEF Matched
    <3>2. /\ j \in Nat \ {0} /\ i \in Nat \ {0} /\ k \in 1..j /\ j - k < i
          /\ (k = 1 \/ c[k].role # "tool")
      BY <1>1, <1>2, <2>1, <2>2
    <3>3. \A m \in k..j : Alike(a[i - (j - m)], c[m])
      BY <1>1, <2>1, <2>3
    <3>4. Belongs(a, i)
      BY <3>1, <3>2, <3>3, BelongsMoves
    <3>5. QED
      BY <2>1, <2>4, <3>4 DEF Alike
  <2>5. CASE c[j].role # "tool" /\ Answered(c, j)
    <3>1. /\ Len(c) \in Nat /\ Len(a) \in Nat /\ i \in 1..Len(a) /\ Len(c) - j <= Len(a) - i
          /\ ~(Len(c) - j < Len(a) - i)
      BY <1>1, <2>1
    <3>2. \A m \in j..Len(c) : Alike(a[i + (m - j)], c[m])
      <4> TAKE m \in j..Len(c)
      <4>1. m \in k..Len(c) /\ i - (j - m) = i + (m - j)
        BY <1>1, <2>1, <2>2
      <4>2. QED
        BY <2>3, <4>1
    <3>3. Answered(a, i)
      BY <2>1, <2>5, <3>1, <3>2, AnsweredMoves
    <3>4. QED
      BY <2>1, <2>5, <3>3 DEF Alike
  <2>6. CASE c[j].role # "tool" /\ open /\ j = Len(c)
    <3>1. i = Len(a)
      BY <1>1, <2>1, <2>6
    <3>2. QED
      BY <2>1, <2>6, <3>1 DEF Alike
  <2>7. QED
    BY <2>1, <2>4, <2>5, <2>6 DEF Matched
<1>7. \A i \in 1..Len(a) : i = 1 \/ i \in 2..Len(a)
  BY <1>1
<1>8. Matched(a, open)
  BY <1>4, <1>5, <1>6, <1>7 DEF Matched
<1>9. QED
  BY <1>8 DEF a

LEMMA AssembleOpen ==
  ASSUME NEW n \in Nat, NEW S, NEW c \in Seq(TurnsOf(n, S)), TooLong(c), OpenEnded(c)
  PROVE  OpenEnded(Assemble(c)) /\ LastCalls(Assemble(c)) = LastCalls(c)
<1> DEFINE k == TailStart(c)
           a == Assemble(c)
<1>1. /\ Len(c) \in Nat \ {0} /\ k \in 2..(Len(c) + 1)
      /\ Len(a) = (Len(c) - k) + 2
      /\ \A i \in 2..Len(a) : i + k - 2 \in k..Len(c) /\ a[i] = Tombstone(c[i + k - 2])
  BY Assembled
<1>2. k <= Len(c)
  BY TailStarts DEF OpenEnded
<1>3. AnswersOf(a) \subseteq AnswersOf(c)
  BY AssembleKeeps
<1>4. Matched(a, TRUE)
  BY AssembleMatched DEF OpenEnded
<1> HIDE DEF k, a
<1>5. Len(a) \in 2..Len(a) /\ Len(a) + k - 2 = Len(c)
  BY <1>1, <1>2
<1>6. a[Len(a)] = Tombstone(c[Len(c)])
  BY <1>1, <1>5
<1>7. c[Len(c)] \in TurnsOf(n, S)
  BY <1>1, ElementOfSeq
<1>8. a[Len(a)].role = c[Len(c)].role /\ a[Len(a)].calls = c[Len(c)].calls
  BY <1>6, <1>7, Tombstones
<1>9. LastCalls(a) = LastCalls(c)
  BY <1>8 DEF LastCalls
<1>10. a # <<>>
  <2>1. Len(a) # 0
    BY <1>1, <1>2
  <2>2. QED
    BY <2>1
<1>11. OpenEnded(a)
  BY <1>3, <1>4, <1>8, <1>9, <1>10 DEF OpenEnded
<1>12. QED
  BY <1>9, <1>11 DEF a

LEMMA CompactedPairs ==
  ASSUME NEW n \in Nat, NEW S, NEW c \in Seq(TurnsOf(n, S))
  PROVE  /\ Paired(c) => Paired(Compacted(c))
         /\ OpenEnded(c) => OpenEnded(Compacted(c)) /\ LastCalls(Compacted(c)) = LastCalls(c)
<1>1. CASE TooLong(c)
  BY <1>1, AssembleMatched, AssembleOpen DEF Compacted, Paired
<1>2. CASE ~TooLong(c)
  BY <1>2 DEF Compacted
<1>3. QED
  BY <1>1, <1>2

\* The results that follow a turn are those of its calls,
LEMMA ResultsFollow ==
  ASSUME NEW T, NEW c \in Seq(T), Paired(c), NEW i \in 1..Len(c),
         c[i].role # "tool", c[i].calls # {}
  PROVE  /\ i + 1 <= Len(c) /\ c[i + 1].role = "tool"
         /\ ResultsFrom(c, i + 1) = c[i].calls
<1>1. Answered(c, i) /\ Len(c) \in Nat
  BY LenProperties DEF Paired, Matched
<1>2. PICK a \in Nat, n \in Nat : AnsweredBy(c, i, a, n)
  BY <1>1 DEF Answered
<1>3. /\ c[i].calls = (a + 1)..(a + n) /\ i + n <= Len(c)
      /\ \A k \in 1..n : c[i + k].role = "tool" /\ c[i + k].answers = a + k
      /\ i + n < Len(c) => c[i + n + 1].role # "tool"
  BY <1>2 DEF AnsweredBy
<1>4. n >= 1
  BY <1>3
<1>5. i + 1 <= Len(c) /\ c[i + 1].role = "tool"
  <2>1. 1 \in 1..n
    BY <1>4
  <2>2. QED
    BY <1>3, <2>1
<1> DEFINE run == {j \in (i + 1)..Len(c) : \A m \in (i + 1)..j : c[m].role = "tool"}
<1>6. \A k \in 1..n : i + k \in run
  <2> TAKE k \in 1..n
  <2>1. i + k \in (i + 1)..Len(c)
    BY <1>1, <1>3
  <2>2. \A m \in (i + 1)..(i + k) : c[m].role = "tool"
    <3> TAKE m \in (i + 1)..(i + k)
    <3>1. m - i \in 1..n /\ i + (m - i) = m
      OBVIOUS
    <3>2. QED
      BY <1>3, <3>1
  <2>3. QED
    BY <2>1, <2>2
<1>7. \A j \in run : j - i \in 1..n /\ i + (j - i) = j
  <2> TAKE j \in run
  <2>1. j \in (i + 1)..Len(c) /\ \A m \in (i + 1)..j : c[m].role = "tool"
    OBVIOUS
  <2>2. ~(j > i + n)
    <3> SUFFICES ASSUME j > i + n PROVE FALSE
      OBVIOUS
    <3>1. i + n + 1 \in (i + 1)..j /\ i + n < Len(c)
      BY <1>1, <2>1
    <3>2. QED
      BY <1>3, <2>1, <3>1
  <2>3. QED
    BY <2>1, <2>2
<1>8. ResultsFrom(c, i + 1) = {c[j].answers : j \in run}
  BY DEF ResultsFrom
<1> HIDE DEF run
<1>9. {c[j].answers : j \in run} \subseteq (a + 1)..(a + n)
  <2> SUFFICES ASSUME NEW j \in run PROVE c[j].answers \in (a + 1)..(a + n)
    OBVIOUS
  <2>1. j - i \in 1..n /\ c[i + (j - i)] = c[j]
    BY <1>7
  <2>2. c[j].answers = a + (j - i)
    BY <1>3, <2>1
  <2>3. \A k \in 1..n : a + k \in (a + 1)..(a + n)
    OBVIOUS
  <2>4. QED
    BY <2>1, <2>2, <2>3
<1>10. (a + 1)..(a + n) \subseteq {c[j].answers : j \in run}
  <2> SUFFICES ASSUME NEW x \in (a + 1)..(a + n) PROVE \E j \in run : c[j].answers = x
    OBVIOUS
  <2>1. x - a \in 1..n /\ a + (x - a) = x
    OBVIOUS
  <2>2. i + (x - a) \in run /\ c[i + (x - a)].answers = x
    BY <1>3, <1>6, <2>1
  <2>3. QED
    BY <2>2
<1>11. QED
  BY <1>3, <1>5, <1>8, <1>9, <1>10

\* and a result is that of a call of the turn that its run follows.
LEMMA ResultBelongs ==
  ASSUME NEW T, NEW c \in Seq(T), Paired(c), NEW i \in 1..Len(c), c[i].role = "tool"
  PROVE  \E j \in 1..(i - 1) : /\ c[j].role # "tool" /\ c[i].answers \in c[j].calls
                               /\ \A m \in (j + 1)..i : c[m].role = "tool"
<1>1. Belongs(c, i) /\ Len(c) \in Nat
  BY LenProperties DEF Paired, Matched
<1>2. PICK j \in 1..(i - 1) : c[j].role # "tool" /\ \A m \in (j + 1)..i : c[m].role = "tool"
  BY <1>1 DEF Belongs
<1>3. Answered(c, j)
  BY <1>1, <1>2 DEF Paired, Matched
<1>4. PICK a \in Nat, n \in Nat : AnsweredBy(c, j, a, n)
  BY <1>3 DEF Answered
<1>5. i - j \in 1..n /\ j + (i - j) = i
  <2>1. ~(i > j + n)
    <3> SUFFICES ASSUME i > j + n PROVE FALSE
      OBVIOUS
    <3>1. j + n + 1 \in (j + 1)..i /\ j + n < Len(c)
      BY <1>1
    <3>2. QED
      BY <1>2, <1>4, <3>1 DEF AnsweredBy
  <2>2. QED
    BY <2>1
<1>6. c[i].answers = a + (i - j) /\ c[j].calls = (a + 1)..(a + n)
  BY <1>4, <1>5 DEF AnsweredBy
<1>7. \A k \in 1..n : a + k \in (a + 1)..(a + n)
  OBVIOUS
<1>8. c[i].answers \in c[j].calls
  BY <1>5, <1>6, <1>7
<1>9. QED
  BY <1>2, <1>8

\* OpenAI's API takes such a conversation,
LEMMA OpenAITakesPaired ==
  ASSUME NEW T, NEW c \in Seq(T), Paired(c)
  PROVE  OpenAITakes(c)
<1>1. Len(c) \in Nat /\ DOMAIN c = 1..Len(c)
  BY LenProperties
<1>2. ASSUME NEW i \in 1..Len(c), NEW call \in c[i].calls
      PROVE  \E j \in (i + 1)..Least({Len(c), i + Cardinality(c[i].calls)}) :
                 c[j].answers = call
  <2>1. c[i].role # "tool"
    BY DEF Paired, Matched, Belongs
  <2>2. Answered(c, i)
    BY <2>1 DEF Paired, Matched
  <2>3. PICK a \in Nat, n \in Nat : AnsweredBy(c, i, a, n)
    BY <2>2 DEF Answered
  <2>4. c[i].calls = (a + 1)..(a + n) /\ i + n <= Len(c)
    BY <2>3 DEF AnsweredBy
  <2>5. Cardinality(c[i].calls) = n
    <3>1. Cardinality((a + 1)..(a + n)) =
              IF a + 1 > a + n THEN 0 ELSE (a + n) - (a + 1) + 1
      <4>1. a + 1 \in Int /\ a + n \in Int
        OBVIOUS
      <4>2. QED
        BY <4>1, FS_Interval
    <3>2. QED
      BY <2>4, <3>1
  <2>6. Least({Len(c), i + n}) = i + n
    <3>1. i + n \in Nat /\ i + n <= Len(c)
      BY <2>4
    <3>2. \E x \in {Len(c), i + n} : \A y \in {Len(c), i + n} : x <= y
      BY <1>1, <3>1
    <3>3. QED
      BY <1>1, <3>1, <3>2 DEF Least
  <2>7. call - a \in 1..n /\ a + (call - a) = call
    BY <2>4
  <2>8. c[i + (call - a)].answers = call
    BY <2>3, <2>7 DEF AnsweredBy
  <2>9. i + (call - a) \in (i + 1)..(i + n)
    BY <2>7
  <2>10. QED
    BY <2>5, <2>6, <2>8, <2>9
<1>3. \A i \in 1..Len(c) : c[i].role = "tool" =>
          \E j \in 1..(i - 1) : /\ c[i].answers \in c[j].calls
                                /\ \A m \in (j + 1)..i : c[m].role = "tool"
  BY ResultBelongs
<1>4. QED
  BY <1>1, <1>2, <1>3 DEF OpenAITakes

\* and so does Anthropic's, as _to_anthropic_messages writes it.
LEMMA AnthropicTakesPaired ==
  ASSUME NEW T, NEW c \in Seq(T), Paired(c)
  PROVE  AnthropicTakes(c)
<1>1. Len(c) \in Nat /\ DOMAIN c = 1..Len(c)
  BY LenProperties
<1>2. Begins(c) \subseteq 1..Len(c)
  BY <1>1 DEF Begins
<1>3. ASSUME NEW i \in Begins(c), c[i].calls # {}
      PROVE  LET after == {j \in Begins(c) : j > i}
             IN after # {} /\ ResultsFrom(c, Least(after)) = c[i].calls
  <2> DEFINE after == {j \in Begins(c) : j > i}
  <2>1. i \in 1..Len(c) /\ c[i].role # "tool"
    BY <1>2, <1>3 DEF Paired, Matched, Belongs
  <2>2. /\ i + 1 <= Len(c) /\ c[i + 1].role = "tool"
        /\ ResultsFrom(c, i + 1) = c[i].calls
    BY <1>3, <2>1, ResultsFollow
  <2>3. i + 1 \in after
    <3>1. i + 1 \in DOMAIN c /\ (i + 1) - 1 = i /\ i + 1 > i
      BY <1>1, <2>1, <2>2
    <3>2. QED
      BY <2>1, <2>2, <3>1 DEF Begins
  <2>4. \A j \in after : i + 1 <= j
    BY <1>2, <2>1
  <2>5. after \subseteq Nat
    BY <1>2
  <2> HIDE DEF after
  <2>6. Least(after) = i + 1
    <3> DEFINE least == Least(after)
    <3>1. least \in after /\ least <= i + 1
      BY <2>3, <2>5, LeastExists
    <3> HIDE DEF least
    <3>2. least \in Nat /\ i + 1 <= least /\ i \in Nat
      BY <2>1, <2>4, <2>5, <3>1
    <3>3. least = i + 1
      BY <3>1, <3>2
    <3>4. QED
      BY <3>3 DEF least
  <2>7. QED
    BY <2>2, <2>3, <2>6 DEF after
<1>4. ASSUME NEW i \in Begins(c), ResultsFrom(c, i) # {}
      PROVE  LET before == {j \in Begins(c) : j < i}
             IN before # {} /\ c[Most(before)].calls = ResultsFrom(c, i)
  <2> DEFINE before == {j \in Begins(c) : j < i}
  <2>1. i \in 1..Len(c)
    BY <1>2
  <2>2. c[i].role = "tool"
    <3>1. PICK j \in i..Len(c) : \A m \in i..j : c[m].role = "tool"
      BY <1>4 DEF ResultsFrom
    <3>2. i \in i..j
      BY <2>1
    <3>3. QED
      BY <3>1, <3>2
  <2>3. PICK j \in 1..(i - 1) : /\ c[j].role # "tool" /\ c[i].answers \in c[j].calls
                                /\ \A m \in (j + 1)..i : c[m].role = "tool"
    BY <2>1, <2>2, ResultBelongs
  <2>4. c[i - 1].role # "tool"
    <3>1. i # 1
      BY <2>3
    <3>2. QED
      BY <2>2, <3>1 DEF Begins
  <2>5. j = i - 1
    <3>1. CASE j < i - 1
      <4>1. i - 1 \in (j + 1)..i
        BY <2>1, <3>1
      <4>2. QED
        BY <2>3, <2>4, <4>1
    <3>2. QED
      BY <2>1, <3>1
  <2>6. j \in 1..Len(c) /\ c[j].calls # {} /\ j + 1 = i
    BY <1>1, <2>1, <2>3, <2>5
  <2>7. ResultsFrom(c, i) = c[j].calls
    <3>1. ResultsFrom(c, j + 1) = c[j].calls
      BY <2>3, <2>6, ResultsFollow
    <3>2. QED
      BY <2>6, <3>1
  <2>8. j \in before
    BY <1>1, <2>1, <2>3, <2>6 DEF Begins
  <2>9. before \subseteq Nat /\ \A m \in before : m <= j
    BY <1>2, <2>1, <2>6
  <2> HIDE DEF before
  <2>10. Most(before) = j
    <3>1. j \in Nat /\ before # {}
      BY <2>6, <2>8
    <3> DEFINE most == Most(before)
    <3>2. most \in before /\ j <= most
      BY <2>8, <2>9, <3>1, MostExists
    <3> HIDE DEF most
    <3>3. most \in Nat /\ most <= j
      BY <2>9, <3>2
    <3>4. most = j
      BY <3>1, <3>2, <3>3
    <3>5. QED
      BY <3>4 DEF most
  <2>11. QED
    BY <2>7, <2>8, <2>10 DEF before
<1>5. QED
  BY <1>3, <1>4 DEF AnthropicTakes

LEMMA PairedAcceptable ==
  ASSUME NEW T, NEW c \in Seq(T), Paired(c)
  PROVE  Acceptable(c)
  BY OpenAITakesPaired, AnthropicTakesPaired DEF Acceptable

\* A conversation is not both: the calls of its last turn are open.
LEMMA OpenIsOpen ==
  ASSUME NEW T, NEW c \in Seq(T), OpenEnded(c)
  PROVE  ~Paired(c) /\ LastCalls(c) \subseteq Open(c) /\ LastCalls(c) \subseteq CallsOf(c)
<1>1. /\ c # <<>> /\ c[Len(c)].role = "assistant" /\ c[Len(c)].calls = LastCalls(c)
      /\ LastCalls(c) # {} /\ LastCalls(c) \cap AnswersOf(c) = {}
  BY DEF OpenEnded, LastCalls
<1>2. Len(c) \in Nat \ {0} /\ DOMAIN c = 1..Len(c)
  BY <1>1, EmptySeq, LenProperties
<1>3. Len(c) \in DOMAIN c
  BY <1>2
<1>4. LastCalls(c) \subseteq CallsOf(c)
  BY <1>1, <1>3 DEF CallsOf
<1>5. ASSUME Paired(c) PROVE FALSE
  <2>1. Answered(c, Len(c))
    BY <1>1, <1>2, <1>5 DEF Paired, Matched
  <2>2. PICK a \in Nat, n \in Nat : AnsweredBy(c, Len(c), a, n)
    BY <2>1 DEF Answered
  <2>3. n = 0 /\ LastCalls(c) = (a + 1)..(a + n)
    BY <1>1, <1>2, <2>2 DEF AnsweredBy
  <2>4. QED
    BY <1>1, <2>3
<1>6. QED
  BY <1>1, <1>4, <1>5 DEF Open

(***************************************************************************)
(* No provider refuses it.                                                 *)
(***************************************************************************)

\* Of the calls a+1..a+n, those in rest are to be made and the others have
\* their results in done.
Halfway(a, n, rest, done) ==
    /\ Len(done) + Len(rest) = n
    /\ \A k \in 1..Len(done) : /\ done[k].role = "tool" /\ done[k].calls = {}
                               /\ done[k].answers = a + k
    /\ \A k \in 1..Len(rest) : rest[k] = a + Len(done) + k

InTool(c, rest, done) ==
    /\ OpenEnded(c)
    /\ \E a, n \in Nat : LastCalls(c) = (a + 1)..(a + n) /\ Halfway(a, n, rest, done)

\* A conversation and its summary.
Sides(base, new) ==
    \/ Paired(base) /\ Paired(new)
    \/ OpenEnded(base) /\ OpenEnded(new) /\ LastCalls(base) = LastCalls(new)

Pairs ==
    /\ IF pc = "tools" THEN InTool(conv, todo, results) ELSE Paired(conv)
    /\ pc = "calling" => sent
    /\ Paired(saved.conv) \/ OpenEnded(saved.conv)
    /\ summary # None =>
          /\ Sides(summary.base, summary.new)
          /\ pc = "tools" => \/ OpenEnded(summary.base) /\ LastCalls(summary.base) = InFlight
                             \/ CallsOf(summary.base) \cap InFlight = {}
    /\ ~refused

PairInv ==
    /\ ConvInv
    /\ pc # "tools" => results = <<>>
    /\ severed = {} => Pairs

\* What is in flight are the calls of the last turn.
Flight(rest, done) == Range(rest) \cup AnswersOf(done)

LEMMA FlightIsLast ==
  ASSUME NEW T, NEW c, NEW rest \in Seq(Nat), NEW done \in Seq(T), InTool(c, rest, done)
  PROVE  Flight(rest, done) = LastCalls(c)
<1>1. PICK a \in Nat, n \in Nat : LastCalls(c) = (a + 1)..(a + n) /\ Halfway(a, n, rest, done)
  BY DEF InTool
<1>2. /\ Len(rest) \in Nat /\ DOMAIN rest = 1..Len(rest)
      /\ Len(done) \in Nat /\ DOMAIN done = 1..Len(done)
  BY LenProperties
<1>3. /\ Len(done) + Len(rest) = n
      /\ \A k \in 1..Len(done) : done[k].answers = a + k
      /\ \A k \in 1..Len(rest) : rest[k] = a + Len(done) + k
  BY <1>1 DEF Halfway
<1>4. ASSUME NEW x \in Range(rest) PROVE x \in (a + 1)..(a + n)
  <2>1. PICK k \in 1..Len(rest) : rest[k] = x
    BY <1>2 DEF Range
  <2>2. x = a + Len(done) + k
    BY <1>3, <2>1
  <2> DEFINE l == Len(done)
             r == Len(rest)
  <2>3. x = a + l + k /\ k \in 1..r /\ l + r = n /\ l \in Nat /\ r \in Nat
    BY <1>2, <1>3, <2>2
  <2> HIDE DEF l, r
  <2>4. QED
    BY <2>3
<1>5. ASSUME NEW x \in AnswersOf(done) PROVE x \in (a + 1)..(a + n)
  <2>1. PICK k \in 1..Len(done) : done[k].answers = x
    BY <1>2 DEF AnswersOf
  <2>2. QED
    BY <1>2, <1>3, <2>1
<1>6. ASSUME NEW x \in (a + 1)..(a + n) PROVE x \in Range(rest) \cup AnswersOf(done)
  <2>1. CASE x - a <= Len(done)
    <3>1. x - a \in 1..Len(done) /\ a + (x - a) = x
      BY <2>1
    <3>2. x - a \in DOMAIN done /\ done[x - a].answers = x /\ x # 0
      BY <1>2, <1>3, <3>1
    <3>3. QED
      BY <3>2 DEF AnswersOf
  <2>2. CASE x - a > Len(done)
    <3> DEFINE l == Len(done)
               r == Len(rest)
               k == (x - a) - l
    <3>1. k \in 1..r /\ a + l + k = x
      <4>1. l \in Nat /\ r \in Nat /\ l + r = n /\ x - a > l
        BY <1>2, <1>3, <2>2
      <4> HIDE DEF l, r
      <4>2. QED
        BY <4>1
    <3>2. rest[k] = x /\ k \in DOMAIN rest
      BY <1>2, <1>3, <3>1
    <3>3. QED
      BY <3>2 DEF Range
  <2>3. QED
    BY <1>2, <2>1, <2>2
<1>7. QED
  BY <1>1, <1>4, <1>5, <1>6 DEF Flight

LEMMA AgentsFlight ==
  ASSUME ConvInv, InTool(conv, todo, results)
  PROVE  InFlight = LastCalls(conv)
<1> DEFINE T == TurnsOf(calls, DOMAIN kind)
<1>1. todo \in Seq(Nat) /\ results \in Seq(T)
  <2>1. todo \in Seq(1..calls) /\ results \in Seq(T) /\ 1..calls \subseteq Nat
    BY DEF ConvInv, StepTyped
  <2> HIDE DEF T
  <2>2. QED
    BY <2>1, SeqMonotonic
<1> HIDE DEF T
<1>2. Flight(todo, results) = LastCalls(conv)
  BY <1>1, FlightIsLast
<1>3. QED
  BY <1>2 DEF Flight, InFlight

LEMMA NothingInFlight ==
  ASSUME ConvInv, pc # "tools", results = <<>>
  PROVE  InFlight = {}
<1>1. todo = <<>>
  BY DEF ConvInv, StepTyped
<1>2. Range(<<>>) = {}
  BY DEF Range
<1>3. QED
  BY <1>1, <1>2, NoTurn DEF InFlight

LEMMA NothingIsPaired == Paired(<<>>)
  BY DEF Paired, Matched

LEMMA InitPairs == Init => PairInv
<1> SUFFICES ASSUME Init PROVE PairInv
  OBVIOUS
<1>1. ConvInv
  BY InitConv
<1>2. Pairs
  BY NothingIsPaired DEF Init, Pairs
<1>3. QED
  BY <1>1, <1>2 DEF Init, PairInv

\* A message or a step's block is a turn that is no result.
LEMMA PairedWith ==
  ASSUME NEW n \in Nat, NEW S, NEW c \in Seq(TurnsOf(n, S)), Paired(c),
         NEW heard \in SUBSET S
  PROVE  Paired(c \o <<UserTurn(heard)>>)
<1>1. UserTurn(heard) \in TurnsOf(n, S) /\ UserTurn(heard).role # "tool"
      /\ UserTurn(heard).calls = {}
  BY UserTurnIsTurn
<1>2. Paired(Append(c, UserTurn(heard)))
  BY <1>1, MatchedAppend
<1>3. Append(c, UserTurn(heard)) = c \o <<UserTurn(heard)>>
  BY <1>1, AppendIsConcat
<1>4. QED
  BY <1>2, <1>3

LEMMA ArrivePairs ==
  ASSUME PairInv, NEW k \in Kinds, Arrive(k)
  PROVE  PairInv'
<1>1. ConvInv'
  BY ArriveConv DEF PairInv
<1>2. UNCHANGED <<conv, pc, sent, todo, results, summary, saved, severed, refused>>
  BY DEF Arrive, step, disk, history
<1>3. QED
  BY <1>1, <1>2 DEF PairInv, Pairs, InFlight

LEMMA StepPairs ==
  ASSUME PairInv, NEW situation \in Situation, NEW done \in BOOLEAN, Step(situation, done)
  PROVE  PairInv'
<1> DEFINE tier == TierOf(done, situation)
           block == RadioBlock(inbox, tier)
           T == TurnsOf(calls, DOMAIN kind)
<1>1. ConvInv' /\ ConvInv
  BY StepConv DEF PairInv
<1>2. /\ conv' = conv \o block /\ pc = "idle"
      /\ UNCHANGED <<todo, results, summary, saved, severed, refused>>
      /\ pc' = "idle" \/ (pc' = "calling" /\ sent' = Acceptable(conv'))
  BY DEF Step, TierOf, disk, history
<1>3. conv \in Seq(T) /\ inbox \in Seq(DOMAIN kind) /\ calls \in Nat
  BY <1>1 DEF ConvInv, Talk
<1>4. ASSUME severed' = {}
      PROVE  Pairs'
  <2>1. Pairs /\ Paired(conv)
    BY <1>2, <1>4 DEF PairInv, Pairs
  <2>2. block = <<>> \/ \E heard \in SUBSET DOMAIN kind : block = <<UserTurn(heard)>>
    <3>1. tier \in {"engage", "skim", "ignore"}
      BY TierKnown
    <3> HIDE DEF tier
    <3>2. inbox # <<>> => inbox[Len(inbox)] \in DOMAIN kind
      BY <1>3
    <3>3. Range(inbox) \subseteq DOMAIN kind
      BY <1>3, RangeOfSeq
    <3>4. CASE inbox = <<>>
      BY <3>4 DEF RadioBlock
    <3>5. CASE inbox # <<>> /\ tier = "engage"
      BY <3>3, <3>5 DEF RadioBlock
    <3>6. CASE inbox # <<>> /\ tier = "skim"
      BY <3>2, <3>6 DEF RadioBlock
    <3>7. CASE inbox # <<>> /\ tier = "ignore"
      BY <3>7 DEF RadioBlock
    <3>8. QED
      BY <3>1, <3>4, <3>5, <3>6, <3>7
  <2> HIDE DEF block, T
  <2>3. Paired(conv')
    <3>1. CASE block = <<>>
      <4>1. conv' = conv
        BY <1>2, <1>3, <3>1
      <4>2. QED
        BY <2>1, <4>1
    <3>2. CASE \E heard \in SUBSET DOMAIN kind : block = <<UserTurn(heard)>>
      BY <1>2, <1>3, <2>1, <3>2, PairedWith DEF T
    <3>3. QED
      BY <2>2, <3>1, <3>2
  <2>4. Acceptable(conv')
    <3>1. conv' \in Seq(TurnsOf(calls', DOMAIN kind'))
      BY <1>1 DEF ConvInv, Talk
    <3>2. QED
      BY <2>3, <3>1, PairedAcceptable
  <2>5. QED
    BY <1>2, <2>1, <2>3, <2>4 DEF Pairs
<1> HIDE DEF block, T
<1>5. QED
  BY <1>1, <1>2, <1>4 DEF PairInv

LEMMA NudgedPaired ==
  ASSUME NEW n \in Nat, NEW S, NEW c \in Seq(TurnsOf(n, S)), Paired(c), NEW x,
         NEW nudge \in UnsentSignalNudge(x)
  PROVE  Paired(c \o nudge)
<1>1. nudge = <<>> \/ nudge = <<UserTurn({})>>
  BY DEF UnsentSignalNudge
<1>2. CASE nudge = <<>>
  BY <1>2, ConcatEmptySeq
<1>3. CASE nudge = <<UserTurn({})>>
  BY <1>3, PairedWith
<1>4. QED
  BY <1>1, <1>2, <1>3

\* A reply with calls is under way, and one without is complete.
LEMMA ReplyMatched ==
  ASSUME NEW m \in Nat, NEW n \in Nat, NEW S, NEW c \in Seq(TurnsOf(m, S)), Paired(c),
         NEW size \in 0..1
  PROVE  LET made == (m + 1)..(m + n)
             t == Turn("assistant", made, 0, {}, size)
         IN /\ Append(c, t) \in Seq(TurnsOf(m + n, S)) /\ LastCalls(Append(c, t)) = made
            /\ n = 0 => Paired(Append(c, t))
            /\ n # 0 => InTool(Append(c, t), [i \in 1..n |-> m + i], <<>>)
<1> DEFINE made == (m + 1)..(m + n)
           t == Turn("assistant", made, 0, {}, size)
           T == TurnsOf(m + n, S)
           d == Append(c, t)
           left == [i \in 1..n |-> m + i]
<1>1. /\ t \in T /\ t.role = "assistant" /\ t.calls = made /\ t.answers = 0
  <2>1. made \in SUBSET (1..(m + n)) /\ 0 \in 0..(m + n) /\ size \in 0..2 /\ {} \in SUBSET S
    OBVIOUS
  <2> HIDE DEF made
  <2>2. QED
    BY <2>1 DEF Turn, TurnsOf
<1>2. c \in Seq(T)
  <2>1. m <= m + n /\ m + n \in Nat /\ S \subseteq S
    OBVIOUS
  <2>2. QED
    BY <2>1, TurnsGrow
<1> HIDE DEF t, T
<1>3. /\ d \in Seq(T) /\ Len(d) = Len(c) + 1 /\ d[Len(c) + 1] = t /\ d # <<>>
  BY <1>1, <1>2, AppendProperties
<1>4. Matched(d, TRUE) /\ (made = {} => Paired(d))
  BY <1>1, <1>2, MatchedAppend
<1>5. AnswersOf(d) = AnswersOf(c) \cup ({t.answers} \ {0})
  BY <1>1, <1>2, Appended
<1>6. made \cap AnswersOf(d) = {}
  <2>1. AnswersOf(c) \subseteq 1..m
    BY CallsMade
  <2>2. QED
    BY <1>1, <1>5, <2>1
<1>7. LastCalls(d) = made /\ d[Len(d)].role = "assistant"
  BY <1>1, <1>3 DEF LastCalls
<1>8. ASSUME n # 0 PROVE InTool(d, left, <<>>)
  <2>1. m + 1 \in made
    BY <1>8
  <2>2. OpenEnded(d)
    BY <1>3, <1>4, <1>6, <1>7, <2>1 DEF OpenEnded
  <2>3. Len(left) = n /\ Len(<<>>) = 0
    OBVIOUS
  <2>4. Halfway(m, n, left, <<>>)
    <3>1. \A k \in 1..n : left[k] = m + 0 + k
      OBVIOUS
    <3> HIDE DEF left
    <3>2. QED
      BY <2>3, <3>1 DEF Halfway
  <2> HIDE DEF left
  <2>5. QED
    BY <1>7, <2>2, <2>4 DEF InTool
<1>9. ASSUME n = 0 PROVE made = {}
  BY <1>9
<1> HIDE DEF made, d, left
<1>10. QED
  BY <1>3, <1>4, <1>7, <1>8, <1>9 DEF made, d, left, t, T

LEMMA ReplyPairs ==
  ASSUME PairInv, NEW n \in 0..MaxCalls, NEW size \in 0..1, Reply(n, size)
  PROVE  PairInv'
<1> DEFINE made == (calls + 1)..(calls + n)
           t == Turn("assistant", made, 0, {}, size)
           left == [i \in 1..n |-> calls + i]
           S == DOMAIN kind
           c == Append(conv, t)
<1>1. ConvInv' /\ ConvInv
  BY ReplyConv DEF PairInv
<1>2. /\ calls \in Nat /\ n \in Nat /\ calls' = calls + n /\ pc = "calling"
      /\ Proceed(c, made, left, <<>>)
      /\ UNCHANGED <<kind, summary, saved, sent, refused>>
  BY <1>1, ConversationConstants DEF Reply, ConvInv, radio, disk
<1>3. conv \in Seq(TurnsOf(calls, S))
  BY <1>1 DEF ConvInv, Talk
<1>4. left = <<>> <=> n = 0
  <2>1. Len(left) = n
    BY <1>2
  <2>2. QED
    BY <1>2, <2>1
<1>5. pc' # "tools" => results' = <<>>
  BY <1>2 DEF Proceed, UnresolvedRef
<1>6. ASSUME severed' = {}
      PROVE  Pairs'
  <2>1. severed = {}
    BY <1>2, <1>6 DEF Proceed, UnresolvedRef
  <2>2. Pairs /\ Paired(conv)
    BY <1>2, <2>1 DEF PairInv, Pairs
  <2>3. /\ c \in Seq(TurnsOf(calls + n, S)) /\ LastCalls(c) = made
        /\ n = 0 => Paired(c)
        /\ n # 0 => InTool(c, left, <<>>)
    <3> HIDE DEF S
    <3>1. QED
      BY <1>2, <1>3, <2>2, ReplyMatched
  <2>4. CASE left = <<>> /\ pc' = "idle"
             /\ \E nudge \in UnsentSignalNudge(c) : conv' = (c \o <<>>) \o nudge
    <3>1. PICK nudge \in UnsentSignalNudge(c) : conv' = (c \o <<>>) \o nudge
      BY <2>4
    <3> HIDE DEF c, S, left
    <3>2. c \o <<>> = c
      BY <2>3, ConcatEmptySeq
    <3>3. Paired(conv')
      <4>1. calls + n \in Nat
        BY <1>2
      <4>2. Paired(c)
        BY <1>4, <2>3, <2>4
      <4>3. Paired(c \o nudge)
        BY <2>3, <4>1, <4>2, NudgedPaired
      <4>4. QED
        BY <3>1, <3>2, <4>3
    <3>4. QED
      BY <1>2, <2>2, <2>4, <3>3 DEF Pairs
  <2>5. CASE left # <<>> /\ pc' = "tools" /\ todo' = left /\ results' = <<>> /\ conv' = c
    <3>1. InTool(conv', todo', results')
      BY <1>4, <2>3, <2>5
    <3>2. InFlight' = made
      <4>1. Range(left) = made
        <5>1. \A k \in 1..n : left[k] \in made
          BY <1>2
        <5>2. \A x \in made : x - calls \in 1..n /\ left[x - calls] = x
          BY <1>2
        <5>3. DOMAIN left = 1..n
          OBVIOUS
        <5> HIDE DEF made, left
        <5>4. QED
          BY <5>1, <5>2, <5>3 DEF Range
      <4>2. InFlight' = Range(todo') \cup AnswersOf(results')
        BY DEF InFlight
      <4>3. QED
        BY <2>5, <4>1, <4>2, NoTurn
    <3>3. summary # None => CallsOf(summary.base) \cap made = {}
      <4> SUFFICES ASSUME summary # None PROVE CallsOf(summary.base) \cap made = {}
        OBVIOUS
      <4>1. summary.base \in Seq(TurnsOf(calls, S))
        BY <1>1 DEF ConvInv, Talk
      <4>2. CallsOf(summary.base) \subseteq 1..calls
        BY <1>2, <4>1, CallsMade
      <4>3. QED
        BY <1>2, <4>2
    <3> HIDE DEF made, c, left
    <3>4. QED
      BY <1>2, <2>2, <2>5, <3>1, <3>2, <3>3 DEF Pairs
  <2>6. CASE left # <<>> /\ UnresolvedRef(made)
    <3>1. calls + 1 \in made
      BY <1>2, <1>4, <2>6
    <3>2. QED
      BY <1>6, <2>6, <3>1 DEF UnresolvedRef
  <2> HIDE DEF made, c, left
  <2>7. QED
    BY <1>2, <2>4, <2>5, <2>6 DEF Proceed
<1>7. QED
  BY <1>1, <1>5, <1>6 DEF PairInv

LEMMA HalfwayOn ==
  ASSUME NEW S, S \subseteq Nat, NEW T, NEW rest \in Seq(S), rest # <<>>,
         NEW done \in Seq(T), NEW t \in T, t.role = "tool", t.calls = {}, t.answers = rest[1],
         NEW a \in Nat, NEW n \in Nat, Halfway(a, n, rest, done)
  PROVE  Halfway(a, n, Tail(rest), done \o <<t>>)
<1> DEFINE l == Len(done)
           r == Len(rest)
           d == done \o <<t>>
           left == Tail(rest)
<1>1. /\ l \in Nat /\ r \in Nat \ {0}
      /\ Len(left) = r - 1 /\ \A k \in 1..(r - 1) : left[k] = rest[k + 1]
  BY LenProperties, EmptySeq, HeadTailProperties
<1>2. /\ Len(d) = l + 1 /\ d[l + 1] = t /\ \A k \in 1..l : d[k] = done[k]
  <2>1. Append(done, t) = d
    BY AppendIsConcat
  <2>2. /\ Len(Append(done, t)) = l + 1 /\ Append(done, t)[l + 1] = t
        /\ \A k \in 1..l : Append(done, t)[k] = done[k]
    BY AppendProperties
  <2> HIDE DEF d
  <2>3. QED
    BY <2>1, <2>2
<1>3. /\ l + r = n
      /\ \A k \in 1..l : done[k].role = "tool" /\ done[k].calls = {} /\ done[k].answers = a + k
      /\ \A k \in 1..r : rest[k] = a + l + k
  BY DEF Halfway
<1> HIDE DEF l, r, d, left
<1>4. rest[1] = a + (l + 1)
  <2>1. 1 \in 1..r
    BY <1>1
  <2>2. rest[1] = a + l + 1
    BY <1>3, <2>1
  <2>3. QED
    BY <1>1, <2>2
<1>5. ASSUME NEW k \in 1..(l + 1)
      PROVE  d[k].role = "tool" /\ d[k].calls = {} /\ d[k].answers = a + k
  <2>1. CASE k \in 1..l
    BY <1>2, <1>3, <2>1
  <2>2. CASE k = l + 1
    BY <1>2, <1>4, <2>2
  <2>3. QED
    BY <1>1, <2>1, <2>2
<1>6. ASSUME NEW k \in 1..(r - 1)
      PROVE  left[k] = a + (l + 1) + k
  <2>1. k + 1 \in 1..r /\ a + l + (k + 1) = a + (l + 1) + k
    BY <1>1
  <2>2. QED
    BY <1>1, <1>3, <2>1
<1>7. (l + 1) + (r - 1) = n
  BY <1>1, <1>3
<1>8. Halfway(a, n, left, d)
  BY <1>1, <1>2, <1>5, <1>6, <1>7 DEF Halfway
<1>9. QED
  BY <1>8 DEF left, d

LEMMA ToolReturnsPairs ==
  ASSUME PairInv, NEW size \in 1..2, ToolReturns(size)
  PROVE  PairInv'
<1> DEFINE T == TurnsOf(calls, DOMAIN kind)
           t == ToolTurn(todo[1], size)
           done == results \o <<t>>
           left == Tail(todo)
<1>1. ConvInv' /\ ConvInv
  BY ToolReturnsConv DEF PairInv
<1>2. /\ pc = "tools" /\ Proceed(conv, InFlight, left, done)
      /\ UNCHANGED <<kind, calls, summary, saved, sent, refused>>
  BY DEF ToolReturns, ToolResult, radio, disk
<1>3. /\ calls \in Nat /\ conv \in Seq(T) /\ todo \in Seq(1..calls) /\ todo # <<>>
      /\ results \in Seq(T) /\ 1..calls \subseteq Nat
  BY <1>1, <1>2 DEF ConvInv, StepTyped, Talk
<1>4. t \in T /\ t.role = "tool" /\ t.calls = {} /\ t.answers = todo[1]
  <2>1. todo[1] \in 0..calls
    BY <1>3
  <2>2. QED
    BY <2>1 DEF ToolTurn, Turn, TurnsOf
<1>5. left \in Seq(1..calls)
  BY <1>3, HeadTailProperties
<1> HIDE DEF T, t, left
<1>6. done \in Seq(T)
  <2>1. <<t>> \in Seq(T)
    BY <1>4
  <2>2. QED
    BY <1>3, <2>1, ConcatProperties
<1>7. pc' # "tools" => results' = <<>>
  BY <1>2 DEF Proceed, UnresolvedRef
<1>8. ASSUME severed' = {}
      PROVE  Pairs'
  <2>1. severed = {}
    BY <1>2, <1>8 DEF Proceed, UnresolvedRef
  <2>2. Pairs /\ InTool(conv, todo, results)
    BY <1>2, <2>1 DEF PairInv, Pairs
  <2>3. PICK a \in Nat, n \in Nat :
            LastCalls(conv) = (a + 1)..(a + n) /\ Halfway(a, n, todo, results)
    BY <2>2 DEF InTool
  <2>4. Halfway(a, n, left, done)
    BY <1>3, <1>4, <2>3, HalfwayOn DEF left
  <2>5. OpenEnded(conv)
    BY <2>2 DEF InTool
  <2>6. InFlight = LastCalls(conv)
    BY <1>1, <2>2, AgentsFlight
  <2>7. InTool(conv, left, done)
    BY <2>3, <2>4, <2>5 DEF InTool
  <2> HIDE DEF done
  <2>8. CASE left = <<>> /\ pc' = "idle"
             /\ \E nudge \in UnsentSignalNudge(conv) : conv' = (conv \o done) \o nudge
    <3>1. PICK nudge \in UnsentSignalNudge(conv) : conv' = (conv \o done) \o nudge
      BY <2>8
    <3>2. Len(done) = n /\ \A k \in 1..n : /\ done[k].role = "tool" /\ done[k].calls = {}
                                           /\ done[k].answers = a + k
      <4>1. Len(left) = 0 /\ Len(done) \in Nat
        BY <1>6, <2>8, LenProperties
      <4>2. QED
        BY <2>4, <4>1 DEF Halfway
    <3>3. Paired(conv \o done)
      BY <1>3, <1>6, <2>3, <2>5, <3>2, MatchedResults
    <3>4. conv \o done \in Seq(T)
      BY <1>3, <1>6, ConcatProperties
    <3>5. Paired(conv')
      <4> DEFINE e == conv \o done
      <4>1. e \in Seq(TurnsOf(calls, DOMAIN kind)) /\ Paired(e) /\ conv' = e \o nudge
        BY <3>1, <3>3, <3>4 DEF T
      <4> HIDE DEF e
      <4>2. QED
        BY <1>3, <4>1, NudgedPaired
    <3>6. QED
      BY <1>2, <2>2, <2>8, <3>5 DEF Pairs
  <2>9. CASE left # <<>> /\ pc' = "tools" /\ todo' = left /\ results' = done /\ conv' = conv
    <3>1. Flight(left, done) = LastCalls(conv)
      <4>1. left \in Seq(Nat)
        BY <1>3, <1>5, SeqMonotonic
      <4>2. QED
        BY <1>6, <2>7, <4>1, FlightIsLast
    <3>2. InFlight' = InFlight
      <4>1. InFlight' = Flight(todo', results')
        BY DEF InFlight, Flight
      <4>2. QED
        BY <2>6, <2>9, <3>1, <4>1
    <3>3. QED
      BY <1>2, <2>2, <2>7, <2>9, <3>2 DEF Pairs
  <2>10. CASE left # <<>> /\ UnresolvedRef(InFlight)
    <3>1. LastCalls(conv) # {}
      BY <2>5 DEF OpenEnded
    <3>2. QED
      BY <1>8, <2>6, <2>10, <3>1 DEF UnresolvedRef
  <2>11. QED
    BY <1>2, <2>8, <2>9, <2>10 DEF Proceed
<1>9. QED
  BY <1>1, <1>7, <1>8 DEF PairInv

\* A model call fails, is refused, a run begins, a summary is given up.
LEMMA PlacePairs ==
  ASSUME PairInv,
         (\E f \in Failure : ModelFails(f)) \/ Refuse \/ NewRun \/ SummaryCancelled
            \/ UNCHANGED vars
  PROVE  PairInv'
<1>1. ConvInv'
  BY PlaceConv DEF PairInv
<1>2. /\ UNCHANGED <<conv, sent, todo, results, saved, severed>>
      /\ summary' \in {summary, None}
      /\ pc' = pc \/ (pc \in {"calling", "stopped"} /\ pc' \in {"idle", "stopped"})
      /\ refused' = refused \/ (pc = "calling" /\ ~sent)
  BY DEF ModelFails, Refuse, NewRun, SummaryCancelled, vars, step, radio, disk, history
<1>3. ASSUME severed' = {}
      PROVE  Pairs'
  <2>1. Pairs
    BY <1>2, <1>3 DEF PairInv
  <2>2. QED
    BY <1>2, <2>1 DEF Pairs, InFlight
<1>4. pc' # "tools" => results' = <<>>
  BY <1>2 DEF PairInv
<1>5. QED
  BY <1>1, <1>3, <1>4 DEF PairInv

LEMMA FlushPairs ==
  ASSUME PairInv, FlushCheckpoint
  PROVE  PairInv'
<1>1. ConvInv' /\ ConvInv
  BY FlushConv DEF PairInv
<1>2. /\ conv' = Compacted(conv) /\ saved'.conv = conv'
      /\ UNCHANGED <<pc, sent, todo, results, summary, severed, refused>>
  BY DEF FlushCheckpoint, Save, step, history
<1>3. calls \in Nat /\ conv \in Seq(TurnsOf(calls, DOMAIN kind))
  BY <1>1 DEF ConvInv, Talk
<1>4. /\ Paired(conv) => Paired(conv')
      /\ OpenEnded(conv) => OpenEnded(conv') /\ LastCalls(conv') = LastCalls(conv)
  BY <1>2, <1>3, CompactedPairs
<1>5. ASSUME severed' = {}
      PROVE  Pairs'
  <2>1. Pairs
    BY <1>2, <1>5 DEF PairInv
  <2>2. CASE pc = "tools"
    <3>1. InTool(conv', todo, results) /\ OpenEnded(conv')
      BY <1>4, <2>1, <2>2 DEF Pairs, InTool
    <3>2. QED
      BY <1>2, <2>1, <2>2, <3>1 DEF Pairs, InFlight
  <2>3. CASE pc # "tools"
    BY <1>2, <1>4, <2>1, <2>3 DEF Pairs
  <2>4. QED
    BY <2>2, <2>3
<1>6. QED
  BY <1>1, <1>2, <1>5 DEF PairInv

LEMMA SummaryStartsPairs ==
  ASSUME PairInv, SummaryStarts
  PROVE  PairInv'
<1>1. ConvInv' /\ ConvInv
  BY SummaryStartsConv DEF PairInv
<1>2. /\ TooLong(conv) /\ summary'.base = conv /\ summary'.new = Assemble(conv)
      /\ UNCHANGED <<conv, pc, sent, todo, results, saved, severed, refused>>
  BY DEF SummaryStarts, LlmBasedSummary, step, history
<1> DEFINE T == TurnsOf(calls, DOMAIN kind)
<1>3. /\ calls \in Nat /\ conv \in Seq(T) /\ todo \in Seq(1..calls) /\ results \in Seq(T)
      /\ 1..calls \subseteq Nat
  BY <1>1 DEF ConvInv, StepTyped, Talk
<1>4. Paired(conv) => Paired(Assemble(conv))
  BY <1>2, <1>3, AssembleMatched DEF Paired
<1>5. OpenEnded(conv) => /\ OpenEnded(Assemble(conv))
                         /\ LastCalls(Assemble(conv)) = LastCalls(conv)
  BY <1>2, <1>3, AssembleOpen
<1> HIDE DEF T
<1>6. ASSUME severed' = {}
      PROVE  Pairs'
  <2>1. Pairs
    BY <1>2, <1>6 DEF PairInv
  <2>2. CASE pc = "tools"
    <3>1. InTool(conv, todo, results) /\ OpenEnded(conv)
      BY <2>1, <2>2 DEF Pairs, InTool
    <3>2. InFlight = LastCalls(conv)
      BY <1>1, <3>1, AgentsFlight
    <3>3. InFlight' = LastCalls(conv)
      BY <1>2, <3>2 DEF InFlight
    <3>4. Sides(summary'.base, summary'.new)
      BY <1>2, <1>5, <3>1 DEF Sides
    <3>5. QED
      BY <1>2, <2>1, <2>2, <3>1, <3>3, <3>4 DEF Pairs
  <2>3. CASE pc # "tools"
    <3>1. Sides(summary'.base, summary'.new)
      BY <1>2, <1>4, <2>1, <2>3 DEF Pairs, Sides
    <3>2. QED
      BY <1>2, <2>1, <2>3, <3>1 DEF Pairs
  <2>4. QED
    BY <2>2, <2>3
<1>7. QED
  BY <1>1, <1>2, <1>6 DEF PairInv

\* A summary that severs no call replaces a conversation that has not moved on
\* by another in the same place.
LEMMA SummaryEndsPairs ==
  ASSUME PairInv, SummaryEnds
  PROVE  PairInv'
<1>1. ConvInv' /\ ConvInv
  BY SummaryEndsConv DEF PairInv
<1>2. /\ summary # None /\ summary' = None /\ conv' = summary.new /\ saved'.conv = conv'
      /\ severed' = ((severed \cup (CallsOf(conv) \ CallsOf(summary.base)))
                     \cup (AnswersOf(conv) \ AnswersOf(summary.base)))
                     \cup (Open(summary.new) \ InFlight)
      /\ UNCHANGED <<pc, sent, todo, results, refused>>
  BY DEF SummaryEnds, Save, step
<1> DEFINE T == TurnsOf(calls, DOMAIN kind)
<1>3. /\ conv \in Seq(T) /\ todo \in Seq(1..calls) /\ results \in Seq(T)
      /\ summary.base \in Seq(T) /\ summary.new \in Seq(T) /\ 1..calls \subseteq Nat
  BY <1>1, <1>2 DEF ConvInv, StepTyped, Talk
<1> HIDE DEF T
<1>4. ASSUME severed' = {}
      PROVE  Pairs'
  <2>1. /\ severed = {} /\ CallsOf(conv) \subseteq CallsOf(summary.base)
        /\ Open(summary.new) \subseteq InFlight
    BY <1>2, <1>4
  <2>2. Pairs /\ Sides(summary.base, summary.new)
    BY <1>2, <2>1 DEF PairInv, Pairs
  <2>3. CASE pc = "tools"
    <3>1. InTool(conv, todo, results) /\ OpenEnded(conv)
      BY <2>2, <2>3 DEF Pairs, InTool
    <3>3. InFlight = LastCalls(conv)
      BY <1>1, <3>1, AgentsFlight
    <3>4. LastCalls(conv) # {} /\ LastCalls(conv) \subseteq CallsOf(conv)
      BY <1>3, <3>1, OpenIsOpen DEF OpenEnded
    <3>5. OpenEnded(summary.base) /\ LastCalls(summary.base) = InFlight
      BY <1>2, <2>1, <2>2, <2>3, <3>3, <3>4 DEF Pairs
    <3>6. ~Paired(summary.base)
      BY <1>3, <3>5, OpenIsOpen
    <3>7. OpenEnded(summary.new) /\ LastCalls(summary.new) = LastCalls(conv)
      BY <2>2, <3>3, <3>5, <3>6 DEF Sides
    <3>8. InTool(conv', todo, results) /\ OpenEnded(conv')
      BY <1>2, <3>1, <3>7 DEF InTool
    <3>9. QED
      BY <1>2, <2>2, <2>3, <3>8 DEF Pairs
  <2>4. CASE pc # "tools"
    <3>1. InFlight = {}
      BY <1>1, <2>4, NothingInFlight DEF PairInv
    <3>2. Open(summary.new) = {}
      BY <2>1, <3>1
    <3>3. ~OpenEnded(summary.new)
      <4> SUFFICES ASSUME OpenEnded(summary.new) PROVE FALSE
        OBVIOUS
      <4>1. LastCalls(summary.new) \subseteq Open(summary.new)
        BY <1>3, OpenIsOpen
      <4>2. QED
        BY <3>2, <4>1 DEF OpenEnded
    <3>4. Paired(conv')
      BY <1>2, <2>2, <3>3 DEF Sides
    <3>5. QED
      BY <1>2, <2>2, <2>4, <3>4 DEF Pairs
  <2>5. QED
    BY <2>3, <2>4
<1>5. pc' # "tools" => results' = <<>>
  BY <1>2 DEF PairInv
<1>6. QED
  BY <1>1, <1>4, <1>5 DEF PairInv

\* An interrupt that severs no call finds the agent in no tool.
LEMMA InterruptPairs ==
  ASSUME PairInv, Interrupt
  PROVE  PairInv'
<1>1. ConvInv' /\ ConvInv
  BY InterruptConv DEF PairInv
<1>2. /\ conv' = Compacted(conv) /\ saved'.conv = conv' /\ severed' = severed \cup InFlight
      /\ pc' = "stopped" /\ results' = <<>>
      /\ UNCHANGED <<summary, sent, refused>>
  BY DEF Interrupt, Save
<1>3. calls \in Nat /\ conv \in Seq(TurnsOf(calls, DOMAIN kind))
  BY <1>1 DEF ConvInv, Talk
<1>4. Paired(conv) => Paired(conv')
  BY <1>2, <1>3, CompactedPairs
<1>5. ASSUME severed' = {}
      PROVE  Pairs'
  <2>1. Pairs /\ InFlight = {}
    BY <1>2, <1>5 DEF PairInv
  <2>2. pc # "tools"
    <3> SUFFICES ASSUME pc = "tools" PROVE FALSE
      OBVIOUS
    <3>1. InTool(conv, todo, results)
      BY <2>1 DEF Pairs
    <3>2. InFlight = LastCalls(conv)
      BY <1>1, <3>1, AgentsFlight
    <3>3. QED
      BY <2>1, <3>1, <3>2 DEF InTool, OpenEnded
  <2>3. QED
    BY <1>2, <1>4, <2>1, <2>2 DEF Pairs
<1>6. QED
  BY <1>1, <1>2, <1>5 DEF PairInv

\* A resume that severs no call finds none open in the checkpoint.
LEMMA CrashPairs ==
  ASSUME PairInv, CrashAndResume
  PROVE  PairInv'
<1>1. ConvInv' /\ ConvInv
  BY CrashConv DEF PairInv
<1>2. /\ conv' = saved.conv /\ severed' = severed \cup Open(saved.conv) /\ summary' = None
      /\ pc' = "stopped" /\ results' = <<>> /\ UNCHANGED <<saved, sent, refused>>
  BY DEF CrashAndResume
<1>3. ASSUME severed' = {}
      PROVE  Pairs'
  <2>1. Pairs /\ Open(saved.conv) = {}
    BY <1>2, <1>3 DEF PairInv
  <2>2. ~OpenEnded(saved.conv)
    <3> SUFFICES ASSUME OpenEnded(saved.conv) PROVE FALSE
      OBVIOUS
    <3>1. saved.conv \in Seq(TurnsOf(calls, DOMAIN kind))
      BY <1>1 DEF ConvInv, Talk
    <3>2. LastCalls(saved.conv) \subseteq Open(saved.conv)
      BY <3>1, OpenIsOpen
    <3>3. QED
      BY <2>1, <3>2 DEF OpenEnded
  <2>3. Paired(saved.conv)
    BY <2>1, <2>2 DEF Pairs
  <2>4. QED
    BY <1>2, <2>1, <2>3 DEF Pairs
<1>4. QED
  BY <1>1, <1>2, <1>3 DEF PairInv

LEMMA NextPairs == PairInv /\ [Next]_vars => PairInv'
<1> SUFFICES ASSUME PairInv, [Next]_vars PROVE PairInv'
  OBVIOUS
<1>1. CASE \E k \in Kinds : Arrive(k)
  BY <1>1, ArrivePairs
<1>2. CASE \E s \in Situation, done \in BOOLEAN : Step(s, done)
  BY <1>2, StepPairs
<1>3. CASE \E n \in 0..MaxCalls, size \in 0..1 : Reply(n, size)
  BY <1>3, ReplyPairs
<1>4. CASE \E size \in 1..2 : ToolReturns(size)
  BY <1>4, ToolReturnsPairs
<1>5. CASE \/ \E f \in Failure : ModelFails(f)
           \/ Refuse \/ NewRun \/ SummaryCancelled \/ UNCHANGED vars
  BY <1>5, PlacePairs
<1>6. CASE FlushCheckpoint
  BY <1>6, FlushPairs
<1>7. CASE SummaryStarts
  BY <1>7, SummaryStartsPairs
<1>8. CASE SummaryEnds
  BY <1>8, SummaryEndsPairs
<1>9. CASE Interrupt
  BY <1>9, InterruptPairs
<1>10. CASE CrashAndResume
  BY <1>10, CrashPairs
<1>11. QED
  BY <1>1, <1>2, <1>3, <1>4, <1>5, <1>6, <1>7, <1>8, <1>9, <1>10 DEF Next

\* No provider refuses a conversation as malformed as long as no cut and no late
\* summary parted a call from its result: the results of a reply enter it
\* together and at once, the tail of a compaction opens with none of them, and
\* both APIs take every conversation of that shape.
THEOREM RefusalsFollowACut == Spec => []RefusedOnlyAfterACut
<1>1. Spec => []PairInv
  BY InitPairs, NextPairs, PTL DEF Spec
<1>2. PairInv => RefusedOnlyAfterACut
  BY DEF PairInv, Pairs, RefusedOnlyAfterACut
<1>3. QED
  BY <1>1, <1>2, PTL

(***************************************************************************)
(* The pace of the channel.                                                *)
(***************************************************************************)
Queueing == {"waiting", "pacing", "sending", "backoff"}
Holding == {"pacing", "sending", "backoff"}

\* A bot stands in the gate once, or not at all, and who is past waiting is its
\* holder, the first.
OneHolder ==
    /\ gate \in Seq(Bots)
    /\ \A i, j \in DOMAIN gate : gate[i] = gate[j] => i = j
    /\ \A i \in DOMAIN gate : place[gate[i]] \in Queueing
    /\ \A b \in Bots : place[b] \in Holding => gate # <<>> /\ gate[1] = b

\* Who waits for its time waits long enough, and then sends.
WaitsLongEnough ==
    /\ since \in Nat
    /\ place \in [Bots -> Place] /\ timer \in [Bots -> Nat]
    /\ \A b \in Bots : place[b] = "pacing" => timer[b] + since >= MinInterval
    /\ \A b \in Bots : place[b] = "sending" => since >= MinInterval

PaceInv == OneHolder /\ WaitsLongEnough

LEMMA Positive == MinInterval \in Nat /\ MaxDelay \in Nat
BY ChatConstants

LEMMA GateIsSeq ==
  ASSUME PaceInv
  PROVE  /\ gate \in Seq(Bots) /\ Len(gate) \in Nat /\ DOMAIN gate = 1..Len(gate)
         /\ gate # <<>> => /\ Head(gate) = gate[1] /\ 1 \in DOMAIN gate
                           /\ Tail(gate) \in Seq(Bots) /\ Len(Tail(gate)) = Len(gate) - 1
                           /\ \A i \in 1..(Len(gate) - 1) : Tail(gate)[i] = gate[i + 1]
BY DEF PaceInv, OneHolder

\* A bot enters the gate at its end.
LEMMA EnterGate ==
  ASSUME PaceInv, NEW b \in Bots, \A i \in DOMAIN gate : gate[i] # b,
         gate' = Append(gate, b), place' = [place EXCEPT ![b] = "waiting"]
  PROVE  OneHolder'
<1>1. /\ gate' \in Seq(Bots) /\ DOMAIN gate' = 1..(Len(gate) + 1)
      /\ \A i \in 1..Len(gate) : gate'[i] = gate[i]
      /\ gate'[Len(gate) + 1] = b
  BY GateIsSeq
<1>2. \A i, j \in DOMAIN gate' : gate'[i] = gate'[j] => i = j
  BY <1>1, GateIsSeq DEF PaceInv, OneHolder
<1>3. \A c \in Bots : place'[c] = IF c = b THEN "waiting" ELSE place[c]
  BY DEF PaceInv, WaitsLongEnough
<1>4. \A i \in DOMAIN gate' : place'[gate'[i]] \in Queueing
  <2>1. TAKE i \in DOMAIN gate'
  <2>2. CASE i = Len(gate) + 1
    BY <1>1, <1>3, <2>2 DEF Queueing
  <2>3. CASE i # Len(gate) + 1
    <3>1. i \in DOMAIN gate /\ gate'[i] = gate[i] /\ gate[i] \in Bots /\ gate[i] # b
      BY <1>1, <2>1, <2>3, GateIsSeq
    <3>2. QED
      BY <1>3, <3>1 DEF PaceInv, OneHolder
  <2>4. QED
    BY <2>2, <2>3
<1>5. \A c \in Bots : place'[c] \in Holding => gate' # <<>> /\ gate'[1] = c
  <2>1. SUFFICES ASSUME NEW c \in Bots, place'[c] \in Holding
                 PROVE  gate' # <<>> /\ gate'[1] = c
    OBVIOUS
  <2>2. c # b /\ place[c] \in Holding
    BY <1>3, <2>1 DEF Holding
  <2>3. gate # <<>> /\ gate[1] = c
    BY <2>2 DEF PaceInv, OneHolder
  <2>4. QED
    BY <1>1, <2>3, GateIsSeq
<1>6. QED
  BY <1>1, <1>2, <1>4, <1>5 DEF OneHolder

\* The holder leaves the gate.
LEMMA LeaveGate ==
  ASSUME PaceInv, NEW b \in Bots, place[b] \in Holding,
         NEW next \in Place \ Queueing,
         gate' = Tail(gate), place' = [place EXCEPT ![b] = next]
  PROVE  OneHolder'
<1>1. gate # <<>> /\ gate[1] = b
  BY DEF PaceInv, OneHolder
<1>2. /\ gate' \in Seq(Bots) /\ DOMAIN gate' = 1..(Len(gate) - 1)
      /\ \A i \in 1..(Len(gate) - 1) : gate'[i] = gate[i + 1]
  BY <1>1, GateIsSeq
<1>3. \A i \in DOMAIN gate' : /\ i \in Nat /\ i + 1 \in DOMAIN gate /\ 1 \in DOMAIN gate
                              /\ gate'[i] = gate[i + 1] /\ i + 1 # 1
  BY <1>1, <1>2, GateIsSeq
<1>4. \A i, j \in DOMAIN gate' : gate'[i] = gate'[j] => i = j
  <2>1. TAKE i, j \in DOMAIN gate'
  <2>2. gate'[i] = gate'[j] => i + 1 = j + 1
    BY <1>3 DEF PaceInv, OneHolder
  <2>3. QED
    BY <1>3, <2>2
<1>5. \A c \in Bots : place'[c] = IF c = b THEN next ELSE place[c]
  BY DEF PaceInv, WaitsLongEnough
<1>6. \A i \in DOMAIN gate' : place'[gate'[i]] \in Queueing
  <2>1. TAKE i \in DOMAIN gate'
  <2>2. gate[i + 1] # b /\ gate[i + 1] \in Bots /\ place[gate[i + 1]] \in Queueing
    BY <1>1, <1>3, GateIsSeq DEF PaceInv, OneHolder
  <2>3. QED
    BY <1>3, <1>5, <2>2
<1>7. \A c \in Bots : place'[c] \notin Holding
  BY <1>1, <1>5 DEF PaceInv, OneHolder, Holding, Queueing
<1>8. QED
  BY <1>2, <1>4, <1>6, <1>7 DEF OneHolder

\* Steps that leave gate and places alone.
LEMMA SameGate ==
  ASSUME PaceInv, gate' = gate, place' = place
  PROVE  OneHolder'
BY DEF PaceInv, OneHolder

\* A bot that is not in the gate, or holds it and goes on holding it.
LEMMA StaysPut ==
  ASSUME PaceInv, NEW b \in Bots, NEW next, gate' = gate,
         place' = [place EXCEPT ![b] = next],
         \/ place[b] \notin Queueing /\ next \notin Queueing
         \/ gate # <<>> /\ gate[1] = b /\ next \in Holding
  PROVE  OneHolder'
<1>1. \A c \in Bots : place'[c] = IF c = b THEN next ELSE place[c]
  BY DEF PaceInv, WaitsLongEnough
<1>2. \A i \in DOMAIN gate : gate[i] \in Bots /\ place[gate[i]] \in Queueing
  BY GateIsSeq DEF PaceInv, OneHolder
<1>3. \A i \in DOMAIN gate : place'[gate[i]] \in Queueing
  BY <1>1, <1>2 DEF Holding, Queueing
<1>4. \A c \in Bots : place'[c] \in Holding => gate # <<>> /\ gate[1] = c
  BY <1>1 DEF PaceInv, OneHolder, Holding, Queueing
<1>5. QED
  BY <1>3, <1>4 DEF PaceInv, OneHolder

LEMMA PaceInit == ChatInit => PaceInv
<1> SUFFICES ASSUME ChatInit PROVE PaceInv
  OBVIOUS
<1>1. gate = <<>> /\ \A b \in Bots : place[b] = "starting"
  BY DEF ChatInit
<1>2. OneHolder
  BY <1>1 DEF OneHolder, Holding
<1>3. WaitsLongEnough
  BY Positive DEF ChatInit, WaitsLongEnough, Place
<1>4. QED
  BY <1>2, <1>3 DEF PaceInv

LEMMA StartPaced == ASSUME PaceInv, NEW b \in Bots, StartFails(b) \/ Start(b) PROVE PaceInv'
<1>1. PICK next \in {"down", "idle", "dead"} : place' = [place EXCEPT ![b] = next]
  BY DEF StartFails, Start
<1>2. /\ place[b] = "starting" /\ gate' = gate /\ timer' = timer /\ since' = since
  BY DEF StartFails, Start
<1>3. OneHolder'
  BY <1>1, <1>2, StaysPut DEF Queueing
<1>4. WaitsLongEnough'
  BY <1>1, <1>2 DEF PaceInv, WaitsLongEnough, Place
<1>5. QED
  BY <1>3, <1>4 DEF PaceInv

LEMMA TakeItemPaced == ASSUME PaceInv, NEW b \in Bots, TakeItem(b) PROVE PaceInv'
<1>1. /\ place[b] = "idle" /\ place' = [place EXCEPT ![b] = "waiting"]
      /\ gate' = Append(gate, b) /\ timer' = timer /\ since' = since
  BY DEF TakeItem
<1>2. \A i \in DOMAIN gate : gate[i] # b
  BY <1>1 DEF PaceInv, OneHolder, Queueing
<1>3. OneHolder'
  BY <1>1, <1>2, EnterGate
<1>4. WaitsLongEnough'
  BY <1>1 DEF PaceInv, WaitsLongEnough, Place
<1>5. QED
  BY <1>3, <1>4 DEF PaceInv

LEMMA PacePaced == ASSUME PaceInv, NEW b \in Bots, Pace(b) \/ PaceEnds(b) PROVE PaceInv'
<1>1. gate' = gate /\ since' = since /\ place[b] \in {"waiting", "pacing"}
  BY DEF Pace, PaceEnds, Hold
<1>2. gate # <<>> /\ gate[1] = b
  BY GateIsSeq DEF Pace, PaceEnds, PaceInv, OneHolder, Holding
<1>3. \/ /\ place' = [place EXCEPT ![b] = "pacing"] /\ since < MinInterval
         /\ timer' = [timer EXCEPT ![b] = MinInterval - since]
      \/ /\ place' = [place EXCEPT ![b] = "sending"] /\ timer' = timer
         /\ since < MinInterval => place[b] = "pacing" /\ timer[b] = 0
  <2>1. CASE PaceEnds(b)
    BY <2>1 DEF PaceEnds
  <2>2. CASE Pace(b) /\ since < MinInterval
    BY <2>2 DEF Pace
  <2>3. CASE Pace(b) /\ ~(since < MinInterval)
    BY <2>3 DEF Pace
  <2>4. QED
    BY <2>1, <2>2, <2>3
<1>4. OneHolder'
  BY <1>1, <1>2, <1>3, StaysPut DEF Holding
<1>5. WaitsLongEnough'
  BY <1>1, <1>3, Positive DEF PaceInv, WaitsLongEnough, Place
<1>6. QED
  BY <1>4, <1>5 DEF PaceInv

\* Nobody but the holder paces or sends.
LEMMA DonePaced ==
  ASSUME PaceInv, NEW b \in Bots, place[b] = "sending", DoneWith(b),
         since' \in {0, since}
  PROVE  PaceInv'
<1>1. /\ place' = [place EXCEPT ![b] = "idle"] /\ gate' = Tail(gate) /\ timer' = timer
  BY DEF DoneWith, LetGo
<1>2. OneHolder'
  BY <1>1, LeaveGate DEF Place, Holding, Queueing
<1>3. \A c \in Bots : place'[c] \notin {"pacing", "sending"}
  BY <1>1 DEF PaceInv, OneHolder, WaitsLongEnough, Holding
<1>4. WaitsLongEnough'
  BY <1>1, <1>3 DEF PaceInv, WaitsLongEnough, Place
<1>5. QED
  BY <1>2, <1>4 DEF PaceInv

LEMMA RateLimitedPaced == ASSUME PaceInv, NEW b \in Bots, RateLimited(b) PROVE PaceInv'
<1>1. CASE GiveUp(b)
  BY <1>1, DonePaced DEF RateLimited, GiveUp
<1>2. CASE ~GiveUp(b)
  <2>1. PICK delay \in 1..MaxDelay : timer' = [timer EXCEPT ![b] = delay]
    BY <1>2 DEF RateLimited
  <2>2. /\ place[b] = "sending" /\ place' = [place EXCEPT ![b] = "backoff"]
        /\ gate' = gate /\ since' = since
    BY <1>2 DEF RateLimited
  <2>3. OneHolder'
    BY <2>2, StaysPut DEF PaceInv, OneHolder, Holding
  <2>4. WaitsLongEnough'
    BY <2>1, <2>2, Positive DEF PaceInv, WaitsLongEnough, Place
  <2>5. QED
    BY <2>3, <2>4 DEF PaceInv
<1>3. QED
  BY <1>1, <1>2

\* The holder goes to the end of the gate.
LEMMA BackoffEndsPaced == ASSUME PaceInv, NEW b \in Bots, BackoffEnds(b) PROVE PaceInv'
<1>1. /\ place[b] = "backoff" /\ place' = [place EXCEPT ![b] = "waiting"]
      /\ gate' = Append(Tail(gate), b) /\ timer' = timer /\ since' = since
  BY DEF BackoffEnds, TryAgain
<1>2. gate # <<>> /\ gate[1] = b
  BY <1>1 DEF PaceInv, OneHolder, Holding
<1>3. /\ gate' \in Seq(Bots) /\ DOMAIN gate' = 1..Len(gate) /\ gate' # <<>>
      /\ \A i \in 1..Len(gate) : gate'[i] = IF i = Len(gate) THEN b ELSE gate[i + 1]
  <2>1. Tail(gate) \in Seq(Bots) /\ Len(Tail(gate)) = Len(gate) - 1
    BY <1>2, GateIsSeq
  <2>2. Len(gate) \in Nat /\ Len(gate) # 0
    BY <1>2, GateIsSeq
  <2>3. /\ gate' \in Seq(Bots) /\ Len(gate') = Len(gate) /\ DOMAIN gate' = 1..Len(gate)
        /\ \A i \in 1..(Len(gate) - 1) : gate'[i] = Tail(gate)[i]
        /\ gate'[Len(gate)] = b
    BY <1>1, <2>1, <2>2
  <2>4. \A i \in 1..(Len(gate) - 1) : Tail(gate)[i] = gate[i + 1]
    BY <1>2, GateIsSeq
  <2>5. \A i \in 1..Len(gate) : gate'[i] = IF i = Len(gate) THEN b ELSE gate[i + 1]
    <3>1. TAKE i \in 1..Len(gate)
    <3>2. CASE i = Len(gate)
      BY <2>3, <3>2
    <3>3. CASE i # Len(gate)
      <4>1. i \in 1..(Len(gate) - 1)
        BY <2>2, <3>3
      <4>2. QED
        BY <2>3, <2>4, <3>3, <4>1
    <3>4. QED
      BY <3>2, <3>3
  <2>6. gate' # <<>>
    BY <2>2, <2>3
  <2>7. QED
    BY <2>3, <2>5, <2>6
<1>4. \A i \in DOMAIN gate' :
          \/ i = Len(gate) /\ gate'[i] = b
          \/ i # Len(gate) /\ i \in Nat /\ i + 1 \in DOMAIN gate /\ i + 1 # 1
             /\ gate'[i] = gate[i + 1] /\ gate[i + 1] # b
  <2>1. TAKE i \in DOMAIN gate'
  <2>2. CASE i = Len(gate)
    BY <1>3, <2>2
  <2>3. CASE i # Len(gate)
    <3>1. Len(gate) \in Nat /\ DOMAIN gate = 1..Len(gate) /\ i \in 1..Len(gate)
      BY <1>3, GateIsSeq
    <3>2. i \in Nat /\ i + 1 \in DOMAIN gate /\ i + 1 # 1 /\ 1 \in DOMAIN gate
      BY <2>3, <3>1
    <3>3. gate[i + 1] # b
      BY <1>2, <3>2 DEF PaceInv, OneHolder
    <3>4. gate'[i] = gate[i + 1]
      BY <1>3, <2>3, <3>1
    <3>5. QED
      BY <2>3, <3>2, <3>3, <3>4
  <2>4. QED
    BY <2>2, <2>3
<1>5. \A i, j \in DOMAIN gate' : gate'[i] = gate'[j] => i = j
  <2>1. TAKE i, j \in DOMAIN gate'
  <2>2. HAVE gate'[i] = gate'[j]
  <2>3. CASE i = Len(gate) \/ j = Len(gate)
    BY <1>4, <2>2, <2>3
  <2>4. CASE i # Len(gate) /\ j # Len(gate)
    <3>1. i \in Nat /\ j \in Nat /\ i + 1 = j + 1
      BY <1>4, <2>2, <2>4 DEF PaceInv, OneHolder
    <3>2. QED
      BY <3>1
  <2>5. QED
    BY <2>3, <2>4
<1>6. \A c \in Bots : place'[c] = IF c = b THEN "waiting" ELSE place[c]
  BY <1>1 DEF PaceInv, WaitsLongEnough
<1>7. \A i \in DOMAIN gate' : place'[gate'[i]] \in Queueing
  <2>1. TAKE i \in DOMAIN gate'
  <2>2. CASE gate'[i] = b
    BY <1>6, <2>2 DEF Queueing
  <2>3. CASE gate'[i] # b
    <3>1. i + 1 \in DOMAIN gate /\ gate'[i] = gate[i + 1] /\ gate[i + 1] \in Bots
      BY <1>4, <2>3, GateIsSeq
    <3>2. QED
      BY <1>6, <2>3, <3>1 DEF PaceInv, OneHolder
  <2>4. QED
    BY <2>2, <2>3
<1>8. \A c \in Bots : place'[c] \notin Holding
  BY <1>2, <1>6 DEF PaceInv, OneHolder, Holding
<1>9. OneHolder'
  BY <1>3, <1>5, <1>7, <1>8 DEF OneHolder
<1>10. WaitsLongEnough'
  BY <1>1, <1>6 DEF PaceInv, WaitsLongEnough, Place
<1>11. QED
  BY <1>9, <1>10 DEF PaceInv

LEMMA StopPaced == ASSUME PaceInv, StopAll PROVE PaceInv'
<1>1. /\ place' = [b \in Bots |-> "closed"] /\ gate' = <<>> /\ since' = since
      /\ timer' = [b \in Bots |-> 0]
  BY DEF StopAll
<1>2. OneHolder'
  BY <1>1 DEF OneHolder, Holding
<1>3. WaitsLongEnough'
  BY <1>1 DEF PaceInv, WaitsLongEnough, Place
<1>4. QED
  BY <1>2, <1>3 DEF PaceInv

\* Time brings the end of a wait no nearer than the end of the interval.
LEMMA TickPaced == ASSUME PaceInv, Tick PROVE PaceInv'
<1>1. /\ gate' = gate /\ place' = place
      /\ timer' = [b \in Bots |-> Sooner(timer[b])]
      /\ since' = IF since < MinInterval THEN since + 1 ELSE since
  BY DEF Tick
<1>2. OneHolder'
  BY <1>1, SameGate
<1>3. WaitsLongEnough'
  BY <1>1, Positive DEF PaceInv, WaitsLongEnough, Sooner
<1>4. QED
  BY <1>2, <1>3 DEF PaceInv

LEMMA PaceNext == PaceInv /\ [ChatNext]_chatVars => PaceInv'
<1> SUFFICES ASSUME PaceInv, [ChatNext]_chatVars PROVE PaceInv'
  OBVIOUS
<1>1. CASE UNCHANGED <<gate, place, timer, since>>
  BY <1>1, SameGate DEF PaceInv, WaitsLongEnough
<1>2. ASSUME NEW b \in Bots, NEW n \in 1..MaxChunks, Publish(b, n) PROVE PaceInv'
  BY <1>1, <1>2 DEF Publish, sender
<1>3. CASE DrainMailbox
  BY <1>1, <1>3 DEF DrainMailbox
<1>4. ASSUME NEW b \in Bots, Send(b) PROVE PaceInv'
  <2>1. CASE SendSucceeds(b) \/ SendFails(b)
    BY <2>1, DonePaced DEF SendSucceeds, SendFails, GiveUp
  <2>2. QED
    BY <1>4, <2>1, TakeItemPaced, PacePaced, RateLimitedPaced, BackoffEndsPaced DEF Send
<1>5. CASE Write
  BY <1>1, <1>5 DEF Write, sender
<1>6. ASSUME NEW m \in 1..MaxTraffic, NEW b \in Bots, HandleInboundMessage(m, b)
      PROVE  PaceInv'
  BY <1>1, <1>6 DEF HandleInboundMessage, sender
<1>7. CASE UNCHANGED chatVars
  BY <1>1, <1>7 DEF chatVars, sender
<1>8. QED
  BY <1>2, <1>3, <1>4, <1>5, <1>6, <1>7, StartPaced, StopPaced, TickPaced DEF ChatNext

\* Only who sends adds to the channel.
LEMMA PacedStep == PaceInv /\ [ChatNext]_chatVars => (channel' # channel => since >= MinInterval)
<1> SUFFICES ASSUME PaceInv, [ChatNext]_chatVars, channel' # channel PROVE since >= MinInterval
  OBVIOUS
<1>1. ASSUME NEW b \in Bots, Send(b) PROVE SendSucceeds(b)
  BY <1>1 DEF Send, TakeItem, Pace, PaceEnds, SendFails, GiveUp, RateLimited, BackoffEnds
<1>2. ASSUME NEW b \in Bots, SendSucceeds(b) PROVE since >= MinInterval
  BY <1>2 DEF SendSucceeds, PaceInv, WaitsLongEnough
<1>3. PICK b \in Bots : Send(b)
  BY DEF ChatNext, chatVars, sender, Publish, DrainMailbox, StartFails, Start, StopAll, Write,
     HandleInboundMessage, Tick
<1>4. QED
  BY <1>1, <1>2, <1>3

LEMMA PaceInvariant == ChatSpec => []PaceInv
<1>1. QED
  BY PaceInit, PaceNext, PTL DEF ChatSpec

\* However many bots have something to say, whatever Discord answers, two posts
\* of the channel are MinInterval apart (_channel_gates, _sender_loop).
THEOREM ChannelIsPaced == ChatSpec => PacedPosts
<1>1. PaceInv /\ [ChatNext]_chatVars => [channel' # channel => since >= MinInterval]_chatVars
  BY PacedStep
<1>2. QED
  BY <1>1, PaceInvariant, PTL DEF ChatSpec, PacedPosts

(***************************************************************************)
(* The way back.                                                           *)
(***************************************************************************)
\* A message first seen no longer ago than the memory of the sights reaches is
\* in that memory; one that was never seen has become no command.
Remembers ==
    /\ taken \in [1..MaxTraffic -> Nat]
    /\ DOMAIN first \subseteq 1..MaxTraffic /\ DOMAIN seen \subseteq DOMAIN first
    /\ \A m \in DOMAIN first : first[m] \in Nat
    /\ \A m \in DOMAIN seen : seen[m] \in Nat
    /\ \A m \in DOMAIN first : first[m] <= DedupTTL => m \in DOMAIN seen /\ seen[m] <= first[m]
    /\ \A m \in (1..MaxTraffic) \ DOMAIN first : taken[m] = 0
    /\ late \subseteq DOMAIN first

TakenInv == Remembers /\ TakenOnce

LEMMA TTLIsNat == DedupTTL \in Nat
BY ChatConstants

LEMMA TakenInit == ChatInit => TakenInv
<1> SUFFICES ASSUME ChatInit PROVE TakenInv
  OBVIOUS
<1>1. DOMAIN seen = {} /\ DOMAIN first = {} /\ late = {}
  BY DEF ChatInit
<1>2. taken = [m \in 1..MaxTraffic |-> 0]
  BY DEF ChatInit
<1>3. QED
  BY <1>1, <1>2 DEF TakenInv, Remembers, TakenOnce

LEMMA HandleKeeps ==
  ASSUME TakenInv, NEW m \in 1..MaxTraffic, NEW b \in Bots, HandleInboundMessage(m, b)
  PROVE  TakenInv'
<1> DEFINE R == Remembered(m)
<1>1. /\ DOMAIN R = {x \in DOMAIN seen : seen[x] <= DedupTTL}
      /\ \A x \in DOMAIN R : R[x] = seen[x]
  BY DEF Remembered
<1>2. /\ DOMAIN seen' = DOMAIN R \cup {m}
      /\ \A x \in DOMAIN R : seen'[x] = seen[x]
      /\ m \notin DOMAIN R => seen'[m] = 0
      /\ taken' = IF m \in DOMAIN R THEN taken ELSE [taken EXCEPT ![m] = @ + 1]
  BY <1>1 DEF HandleInboundMessage, Noted
<1>3. /\ DOMAIN first' = DOMAIN first \cup {m}
      /\ \A x \in DOMAIN first : first'[x] = first[x]
      /\ m \notin DOMAIN first => first'[m] = 0
  BY DEF HandleInboundMessage, Noted
<1>4. late' = IF m \in DOMAIN first /\ first[m] > DedupTTL THEN late \cup {m} ELSE late
  BY DEF HandleInboundMessage
<1> HIDE DEF R
<1>5. \A x \in DOMAIN first : first[x] <= DedupTTL => x \in DOMAIN R
  BY <1>1, TTLIsNat DEF TakenInv, Remembers
<1>6. m \in DOMAIN R => m \in DOMAIN first
  BY <1>1 DEF TakenInv, Remembers
<1>7. Remembers'
  <2>1. taken' \in [1..MaxTraffic -> Nat]
    BY <1>2 DEF TakenInv, Remembers
  <2>2. /\ DOMAIN first' \subseteq 1..MaxTraffic /\ DOMAIN seen' \subseteq DOMAIN first'
        /\ late' \subseteq DOMAIN first'
    BY <1>1, <1>2, <1>3, <1>4 DEF TakenInv, Remembers
  <2>3. /\ \A x \in DOMAIN first' : first'[x] \in Nat
        /\ \A x \in DOMAIN seen' : seen'[x] \in Nat
    BY <1>1, <1>2, <1>3 DEF TakenInv, Remembers
  <2>4. \A x \in DOMAIN first' :
            first'[x] <= DedupTTL => x \in DOMAIN seen' /\ seen'[x] <= first'[x]
    <3>1. TAKE x \in DOMAIN first'
    <3>2. HAVE first'[x] <= DedupTTL
    <3>3. CASE x \in DOMAIN first
      BY <1>2, <1>3, <1>5, <3>2, <3>3 DEF TakenInv, Remembers
    <3>4. CASE x \notin DOMAIN first
      BY <1>2, <1>3, <1>6, <3>1, <3>4
    <3>5. QED
      BY <3>3, <3>4
  <2>5. \A x \in (1..MaxTraffic) \ DOMAIN first' : taken'[x] = 0
    BY <1>2, <1>3 DEF TakenInv, Remembers
  <2>6. QED
    BY <2>1, <2>2, <2>3, <2>4, <2>5 DEF Remembers
<1>8. TakenOnce'
  <2>1. SUFFICES ASSUME NEW x \in DOMAIN first'
                 PROVE  taken'[x] >= 1 /\ (x \notin late' => taken'[x] = 1)
    BY DEF TakenOnce
  <2>2. CASE x # m
    BY <1>2, <1>3, <1>4, <2>1, <2>2 DEF TakenInv, Remembers, TakenOnce
  <2>3. CASE x = m /\ m \notin DOMAIN first
    BY <1>2, <1>6, <2>3 DEF TakenInv, Remembers
  <2>4. CASE x = m /\ m \in DOMAIN first /\ first[m] <= DedupTTL
    BY <1>2, <1>4, <1>5, <2>4, TTLIsNat DEF TakenInv, Remembers, TakenOnce
  <2>5. CASE x = m /\ m \in DOMAIN first /\ ~(first[m] <= DedupTTL)
    <3>1. x \in late'
      BY <1>4, <2>5, TTLIsNat DEF TakenInv, Remembers
    <3>2. taken[m] \in Nat /\ taken[m] >= 1
      BY <2>5 DEF TakenInv, Remembers, TakenOnce
    <3>3. QED
      BY <1>2, <2>5, <3>1, <3>2 DEF TakenInv, Remembers
  <2>6. QED
    BY <2>2, <2>3, <2>4, <2>5
<1>9. QED
  BY <1>7, <1>8 DEF TakenInv

\* Both ages grow together.
LEMMA TickKeeps == ASSUME TakenInv, Tick PROVE TakenInv'
<1>1. /\ seen' = [m \in DOMAIN seen |-> Older(seen[m])]
      /\ first' = [m \in DOMAIN first |-> Older(first[m])]
      /\ late' = late /\ taken' = taken
  BY DEF Tick
<1>2. \A n \in Nat : Older(n) \in Nat /\ n <= Older(n) /\ (n <= DedupTTL => Older(n) = n + 1)
  BY TTLIsNat DEF Older
<1>3. Remembers'
  <2>1. \A m \in DOMAIN first' : first'[m] <= DedupTTL =>
            m \in DOMAIN seen' /\ seen'[m] <= first'[m]
    <3>1. TAKE m \in DOMAIN first'
    <3>2. HAVE first'[m] <= DedupTTL
    <3>3. first[m] \in Nat /\ first'[m] = Older(first[m])
      BY <1>1, <3>1 DEF TakenInv, Remembers
    <3>4. first[m] <= DedupTTL /\ first'[m] = first[m] + 1
      BY <1>2, <3>2, <3>3, TTLIsNat
    <3>5. m \in DOMAIN first /\ m \in DOMAIN seen /\ seen[m] \in Nat /\ seen[m] <= first[m]
      BY <1>1, <3>1, <3>4 DEF TakenInv, Remembers
    <3>6. seen'[m] = seen[m] + 1
      BY <1>1, <1>2, <3>3, <3>4, <3>5, TTLIsNat
    <3>7. QED
      BY <1>1, <3>3, <3>4, <3>5, <3>6
  <2>2. QED
    BY <1>1, <1>2, <2>1 DEF TakenInv, Remembers
<1>4. TakenOnce'
  BY <1>1 DEF TakenInv, TakenOnce
<1>5. QED
  BY <1>3, <1>4 DEF TakenInv

LEMMA TakenNext == TakenInv /\ [ChatNext]_chatVars => TakenInv'
<1> SUFFICES ASSUME TakenInv, [ChatNext]_chatVars PROVE TakenInv'
  OBVIOUS
<1>1. CASE UNCHANGED <<seen, first, late, taken>>
  BY <1>1 DEF TakenInv, Remembers, TakenOnce
<1>2. ASSUME NEW b \in Bots, Send(b) PROVE TakenInv'
  BY <1>1, <1>2 DEF Send, TakeItem, Pace, PaceEnds, SendSucceeds, SendFails, GiveUp,
     DoneWith, RateLimited, BackoffEnds, inbound
<1>3. ASSUME NEW b \in Bots, NEW n \in 1..MaxChunks, Publish(b, n) PROVE TakenInv'
  BY <1>1, <1>3 DEF Publish, inbound
<1>4. ASSUME NEW b \in Bots, StartFails(b) \/ Start(b) PROVE TakenInv'
  BY <1>1, <1>4 DEF StartFails, Start, inbound
<1>5. CASE DrainMailbox \/ StopAll
  BY <1>1, <1>5 DEF DrainMailbox, StopAll, inbound
<1>6. CASE Write
  BY <1>1, <1>6 DEF Write
<1>7. CASE UNCHANGED chatVars
  BY <1>1, <1>7 DEF chatVars, inbound
<1>8. QED
  BY <1>2, <1>3, <1>4, <1>5, <1>6, <1>7, HandleKeeps, TickKeeps DEF ChatNext

\* A message in the channel becomes one command, however many bots see it,
\* while its first sight is remembered (_inbound_already_seen).
THEOREM MessagesAreTakenOnce == ChatSpec => []TakenOnce
<1>1. TakenInv => TakenOnce
  BY DEF TakenInv
<1>2. QED
  BY <1>1, TakenInit, TakenNext, PTL DEF ChatSpec
(***************************************************************************)
(* Posts in their order.                                                   *)
(***************************************************************************)

\* What holds of 0, and of every number up to n after one of which it holds,
\* holds of all of them: S are those of which it does.
LEMMA UpTo ==
  ASSUME NEW n \in Nat, NEW S, 0 \in S, \A i \in 1..n : i - 1 \in S => i \in S
  PROVE  0..n \subseteq S
<1> DEFINE bad == (0..n) \ S
<1> SUFFICES ASSUME bad # {} PROVE FALSE
  OBVIOUS
<1>1. bad \subseteq Nat
  OBVIOUS
<1>2. PICK i \in bad : \A j \in bad : i <= j
  <2> HIDE DEF bad
  <2> QED
    BY <1>1, LeastExists
<1>3. i \in 1..n /\ i - 1 \in 0..n /\ ~(i <= i - 1)
  OBVIOUS
<1>4. i - 1 \in S
  BY <1>2, <1>3
<1>5. QED
  BY <1>3, <1>4

\* Flattening adds one sequence after the other.
LEMMA FlattenAdds ==
  ASSUME NEW S, NEW parts \in Seq(Seq(S))
  PROVE  \E flat \in [0..Len(parts) -> Seq(S)] :
             /\ flat[0] = <<>>
             /\ \A i \in 1..Len(parts) : flat[i] = flat[i - 1] \o parts[i]
             /\ FlattenSeq(parts) = flat[Len(parts)]
<1> DEFINE n == Len(parts)
           Eq(g, m) == g = [i \in 1..m |-> IF i = 1 THEN parts[i] ELSE g[i - 1] \o parts[i]]
           F == CHOOSE g : Eq(g, n)
           Solved == {m \in 0..n : \E g \in [1..m -> Seq(S)] : Eq(g, m)}
<1>1. n \in Nat /\ \A i \in 1..n : parts[i] \in Seq(S)
  BY LenProperties
<1>2. 0 \in Solved
  <2> DEFINE g == [i \in 1..0 |-> <<>>]
  <2>1. g \in [1..0 -> Seq(S)] /\ Eq(g, 0)
    OBVIOUS
  <2> HIDE DEF g, Eq
  <2>2. \E s \in [1..0 -> Seq(S)] : Eq(s, 0)
    BY <2>1
  <2>3. 0 \in 0..n
    BY <1>1
  <2>4. QED
    BY <2>2, <2>3
<1>3. ASSUME NEW m \in 1..n, m - 1 \in Solved PROVE m \in Solved
  <2>1. PICK g \in [1..(m - 1) -> Seq(S)] : Eq(g, m - 1)
    BY <1>3
  <2> DEFINE h == [i \in 1..m |->
                      IF i # m THEN g[i] ELSE IF i = 1 THEN parts[i] ELSE g[i - 1] \o parts[i]]
  <2>2. \A i \in 1..m : i # m => i \in 1..(m - 1)
    BY <1>1
  <2>3. m # 1 => m - 1 \in 1..(m - 1) /\ m - 1 # m /\ m - 1 \in 1..m
    BY <1>1
  <2>4. h \in [1..m -> Seq(S)]
    <3>1. m # 1 => g[m - 1] \o parts[m] \in Seq(S)
      BY <1>1, <2>3, ConcatProperties
    <3>2. \A i \in 1..m : h[i] \in Seq(S)
      BY <1>1, <2>2, <3>1
    <3>3. QED
      BY <3>2
  <2>5. \A i \in 1..m : h[i] = IF i = 1 THEN parts[i] ELSE h[i - 1] \o parts[i]
    <3>1. TAKE i \in 1..m
    <3>2. CASE i = m
      BY <2>3, <3>2
    <3>3. CASE i # m
      <4>1. i \in 1..(m - 1) /\ h[i] = g[i]
        BY <2>2, <3>3
      <4>2. g[i] = IF i = 1 THEN parts[i] ELSE g[i - 1] \o parts[i]
        BY <2>1, <4>1
      <4>3. i # 1 => i - 1 \in 1..m /\ i - 1 # m /\ h[i - 1] = g[i - 1]
        BY <4>1
      <4>4. QED
        BY <4>1, <4>2, <4>3
    <3>4. QED
      BY <3>2, <3>3
  <2> HIDE DEF h
  <2>6. Eq(h, m)
    BY <2>4, <2>5
  <2> HIDE DEF Eq
  <2>7. \E s \in [1..m -> Seq(S)] : Eq(s, m)
    BY <2>4, <2>6
  <2>8. m \in 0..n
    OBVIOUS
  <2>9. QED
    BY <2>7, <2>8
<1>4. n \in Solved
  <2> HIDE DEF Solved
  <2>1. 0..n \subseteq Solved
    BY <1>1, <1>2, <1>3, UpTo
  <2>2. n \in 0..n
    BY <1>1
  <2>3. QED
    BY <2>1, <2>2
<1>5. Eq(F, n)
  <2> HIDE DEF Eq
  <2> QED
    BY <1>4
<1>6. \A i \in 1..n : F[i] = IF i = 1 THEN parts[i] ELSE F[i - 1] \o parts[i]
  <2> HIDE DEF F
  <2> QED
    BY <1>5
<1>7. FlattenSeq(parts) = IF n = 0 THEN parts ELSE F[n]
  BY DEF FlattenSeq
<1> HIDE DEF F, Solved, Eq
<1> DEFINE flat == [i \in 0..n |-> IF i = 0 THEN <<>> ELSE F[i]]
           Good == {i \in 0..n : flat[i] \in Seq(S)}
<1>8. \A i \in 1..n : i - 1 \in 0..n /\ flat[i] = F[i]
  BY <1>1
<1>9. ASSUME NEW i \in 1..n, i - 1 \in Good
      PROVE  i \in Good /\ flat[i] = flat[i - 1] \o parts[i]
  <2>1. flat[i] = flat[i - 1] \o parts[i]
    <3>1. CASE i = 1
      BY <1>1, <1>6, <1>8, <3>1, ConcatEmptySeq
    <3>2. CASE i # 1
      <4>1. i - 1 \in 1..n
        BY <3>2
      <4>2. QED
        BY <1>6, <1>8, <3>2, <4>1
    <3>3. QED
      BY <3>1, <3>2
  <2>2. flat[i - 1] \o parts[i] \in Seq(S)
    BY <1>1, <1>9, ConcatProperties
  <2>3. i \in 0..n
    OBVIOUS
  <2> HIDE DEF flat
  <2>4. QED
    BY <2>1, <2>2, <2>3
<1>10. 0 \in Good
  BY <1>1
<1>11. 0..n \subseteq Good
  <2> HIDE DEF Good
  <2> QED
    BY <1>1, <1>9, <1>10, UpTo
<1>12. flat \in [0..n -> Seq(S)]
  BY <1>11
<1>13. \A i \in 1..n : flat[i] = flat[i - 1] \o parts[i]
  BY <1>8, <1>9, <1>11
<1>14. FlattenSeq(parts) = flat[n]
  <2>1. CASE n = 0
    <3>1. parts = <<>>
      BY <2>1, EmptySeq
    <3>2. QED
      BY <1>7, <2>1, <3>1
  <2>2. CASE n # 0
    BY <1>1, <1>7, <2>2
  <2>3. QED
    BY <2>1, <2>2
<1>15. flat[0] = <<>>
  BY <1>1
<1> HIDE DEF flat
<1>16. QED
  BY <1>12, <1>13, <1>14, <1>15

\* p is of an earlier event than q, or an earlier chunk of the same.
Less(p, q) == p[1] < q[1] \/ (p[1] = q[1] /\ p[2] < q[2])
Rising(c) == \A i, j \in DOMAIN c : i < j => Less(c[i], c[j])

LEMMA ChatBounds == MaxTraffic \in Nat /\ MaxChunks \in Nat
BY ChatConstants

LEMMA PostIsPair ==
  ASSUME NEW p \in Post
  PROVE  /\ p = <<p[1], p[2]>> /\ p[1] \in 1..MaxTraffic /\ p[2] \in 1..MaxChunks
         /\ p[1] \in Nat /\ p[2] \in Nat
BY ChatBounds DEF Post

LEMMA LessOrders ==
  ASSUME NEW p \in Post, NEW q \in Post
  PROVE  /\ p # q <=> Less(p, q) \/ Less(q, p)
         /\ ~(Less(p, q) /\ Less(q, p)) /\ ~Less(p, p)
         /\ \A r \in Post : Less(p, q) /\ Less(q, r) => Less(p, r)
<1>1. p = <<p[1], p[2]>> /\ q = <<q[1], q[2]>>
  BY PostIsPair
<1>2. p[1] \in Nat /\ p[2] \in Nat /\ q[1] \in Nat /\ q[2] \in Nat
  BY PostIsPair
<1>3. p # q => p[1] # q[1] \/ p[2] # q[2]
  BY <1>1
<1>4. ~Less(p, p) /\ ~(Less(p, q) /\ Less(q, p))
  BY <1>2 DEF Less
<1>5. p # q <=> Less(p, q) \/ Less(q, p)
  <2>1. p # q => Less(p, q) \/ Less(q, p)
    BY <1>2, <1>3 DEF Less
  <2>2. QED
    BY <1>4, <2>1
<1>6. ASSUME NEW r \in Post, Less(p, q), Less(q, r) PROVE Less(p, r)
  <2>1. r[1] \in Nat /\ r[2] \in Nat
    BY PostIsPair
  <2>2. QED
    BY <1>2, <1>6, <2>1 DEF Less
<1>7. QED
  BY <1>4, <1>5, <1>6

LEMMA RisingJoin ==
  ASSUME NEW c \in Seq(Post), NEW d \in Seq(Post), Rising(c), Rising(d),
         \A p \in Range(c), q \in Range(d) : Less(p, q)
  PROVE  c \o d \in Seq(Post) /\ Rising(c \o d) /\ Range(c \o d) = Range(c) \cup Range(d)
<1> DEFINE e == c \o d
<1>1. /\ e \in Seq(Post) /\ Len(e) = Len(c) + Len(d) /\ Range(e) = Range(c) \cup Range(d)
      /\ \A i \in 1..(Len(c) + Len(d)) : e[i] = IF i <= Len(c) THEN c[i] ELSE d[i - Len(c)]
  BY ConcatProperties, RangeConcatenation
<1>2. /\ DOMAIN e = 1..Len(e) /\ DOMAIN c = 1..Len(c) /\ DOMAIN d = 1..Len(d)
      /\ Len(c) \in Nat /\ Len(d) \in Nat
  BY <1>1, LenProperties
<1> HIDE DEF e
<1>3. ASSUME NEW i \in DOMAIN e, NEW j \in DOMAIN e, i < j PROVE Less(e[i], e[j])
  <2>1. CASE j <= Len(c)
    BY <1>1, <1>2, <1>3, <2>1 DEF Rising
  <2>2. CASE ~(i <= Len(c))
    <3>1. /\ i - Len(c) \in DOMAIN d /\ j - Len(c) \in DOMAIN d /\ i - Len(c) < j - Len(c)
          /\ ~(j <= Len(c))
      BY <1>1, <1>2, <1>3, <2>2
    <3>2. e[i] = d[i - Len(c)] /\ e[j] = d[j - Len(c)]
      BY <1>1, <1>2, <2>2, <3>1
    <3>3. QED
      BY <3>1, <3>2 DEF Rising
  <2>3. CASE i <= Len(c) /\ ~(j <= Len(c))
    <3>1. i \in DOMAIN c /\ j - Len(c) \in DOMAIN d
      BY <1>1, <1>2, <2>3
    <3>2. e[i] = c[i] /\ e[j] = d[j - Len(c)]
      BY <1>1, <1>2, <2>3
    <3>3. QED
      BY <3>1, <3>2 DEF Range
  <2>4. QED
    BY <1>1, <1>2, <1>3, <2>1, <2>2, <2>3
<1>4. QED
  BY <1>1, <1>3 DEF Rising, e

Published == [bot : Bots, chunks : 1..MaxChunks]
Ascending(c) == \A i, j \in DOMAIN c : i < j => c[i] < c[j]

\* The bus and what it was given.
BusTyped ==
    /\ published \in Seq(Published) /\ written \in Nat
    /\ Len(published) + written <= MaxTraffic
    /\ mailbox \in Seq(DOMAIN published) /\ Ascending(mailbox) /\ Len(mailbox) <= MailboxMax

LEMMA EventsAreKnown ==
  ASSUME BusTyped, NEW e \in DOMAIN published
  PROVE  /\ e \in 1..MaxTraffic /\ published[e].bot \in Bots
         /\ published[e].chunks \in 1..MaxChunks
<1>1. /\ Len(published) \in Nat /\ DOMAIN published = 1..Len(published)
      /\ published[e] \in Published
  BY LenProperties DEF BusTyped
<1>2. e \in 1..MaxTraffic
  BY <1>1, ChatBounds DEF BusTyped
<1>3. QED
  BY <1>1, <1>2 DEF Published

LEMMA SplitRises ==
  ASSUME BusTyped, NEW e \in DOMAIN published
  PROVE  /\ SplitContent(e) \in Seq(Post) /\ Rising(SplitContent(e))
         /\ Range(SplitContent(e)) = Posts(e) /\ Posts(e) \subseteq Post
         /\ \A p \in Posts(e) : p[1] = e
<1> DEFINE s == SplitContent(e)
           n == published[e].chunks
<1>1. e \in 1..MaxTraffic /\ n \in 1..MaxChunks
  BY EventsAreKnown
<1>2. s = [k \in 1..n |-> <<e, k>>]
  BY DEF SplitContent
<1> HIDE DEF s
<1>3. n \in Nat /\ 1..n \subseteq 1..MaxChunks
  BY <1>1, ChatBounds
<1>4. \A k \in 1..n : <<e, k>> \in Post
  BY <1>1, <1>3 DEF Post
<1> HIDE DEF n
<1>5. s \in Seq(Post)
  BY <1>2, <1>3, <1>4
<1>6. Rising(s)
  BY <1>2 DEF Rising, Less
<1>7. Posts(e) = {<<e, k>> : k \in 1..n}
  BY DEF Posts, n
<1>8. Range(s) = Posts(e)
  BY <1>2, <1>7 DEF Range
<1>9. QED
  BY <1>4, <1>5, <1>6, <1>7, <1>8 DEF s

\* What the drain of the mailbox adds to an outbox: all posts of the bot's
\* events in it, in their order.
LEMMA DrainedPosts ==
  ASSUME BusTyped, NEW b \in Bots
  PROVE  \E new \in Seq(Post) :
             /\ Enqueued(b) = outbox[b] \o new /\ Rising(new)
             /\ \A p : p \in Range(new) <=>
                    \E e \in Range(mailbox) : published[e].bot = b /\ p \in Posts(e)
<1> DEFINE parts == [i \in DOMAIN mailbox |-> Routed(b, mailbox[i])]
           n == Len(mailbox)
<1>1. /\ n \in Nat /\ DOMAIN mailbox = 1..n
      /\ \A i \in 1..n : mailbox[i] \in DOMAIN published /\ mailbox[i] \in Nat
  <2>1. n \in Nat /\ DOMAIN mailbox = 1..n /\ \A i \in 1..n : mailbox[i] \in DOMAIN published
    BY LenProperties DEF BusTyped
  <2>2. QED
    BY <2>1, EventsAreKnown
<1>2. ASSUME NEW i \in 1..n
      PROVE  /\ Routed(b, mailbox[i]) \in Seq(Post) /\ Rising(Routed(b, mailbox[i]))
             /\ \A p : p \in Range(Routed(b, mailbox[i])) <=>
                         published[mailbox[i]].bot = b /\ p \in Posts(mailbox[i])
             /\ \A p \in Range(Routed(b, mailbox[i])) : p[1] = mailbox[i]
  <2>1. mailbox[i] \in DOMAIN published
    BY <1>1
  <2>2. CASE published[mailbox[i]].bot = b
    BY <2>1, <2>2, SplitRises DEF Routed
  <2>3. CASE published[mailbox[i]].bot # b
    BY <2>3, EmptySeq DEF Routed, Rising, Range
  <2>4. QED
    BY <2>2, <2>3
<1>3. /\ parts \in Seq(Seq(Post)) /\ Len(parts) = n
      /\ \A i \in 1..n : parts[i] = Routed(b, mailbox[i])
  BY <1>1, <1>2
<1>4. Enqueued(b) = outbox[b] \o FlattenSeq(parts)
  BY DEF Enqueued
<1> HIDE DEF parts
<1>5. PICK flat \in [0..n -> Seq(Post)] :
          /\ flat[0] = <<>>
          /\ \A i \in 1..n : flat[i] = flat[i - 1] \o parts[i]
          /\ FlattenSeq(parts) = flat[n]
  <2>1. \E flat \in [0..Len(parts) -> Seq(Post)] :
            /\ flat[0] = <<>>
            /\ \A i \in 1..Len(parts) : flat[i] = flat[i - 1] \o parts[i]
            /\ FlattenSeq(parts) = flat[Len(parts)]
    <3>1. parts \in Seq(Seq(Post))
      BY <1>3
    <3>2. QED
      BY ONLY <3>1, FlattenAdds
  <2> HIDE DEF n
  <2>2. QED
    BY <1>3, <2>1
<1> DEFINE Holds(i) == \A p : p \in Range(flat[i]) <=> \E j \in 1..i : p \in Range(parts[j])
           Good == {i \in 0..n : Rising(flat[i]) /\ Holds(i)}
<1>6. 0 \in Good
  <2>1. Rising(flat[0]) /\ Range(flat[0]) = {}
    BY <1>5 DEF Rising, Range
  <2>2. QED
    BY <1>1, <2>1
<1>7. ASSUME NEW i \in 1..n, i - 1 \in Good PROVE i \in Good
  <2> DEFINE c == flat[i - 1]
             d == parts[i]
  <2>1. c \in Seq(Post) /\ Rising(c) /\ Holds(i - 1)
    BY <1>5, <1>7
  <2>2. d \in Seq(Post) /\ Rising(d)
    BY <1>2, <1>3
  <2>3. flat[i] = c \o d
    BY <1>5
  <2>4. ASSUME NEW p \in Range(c), NEW q \in Range(d) PROVE Less(p, q)
    <3>1. PICK j \in 1..(i - 1) : p \in Range(parts[j])
      BY <2>1, <2>4
    <3>2. j \in 1..n /\ j < i
      BY <1>1
    <3>3. mailbox[j] < mailbox[i]
      BY <1>1, <3>2 DEF BusTyped, Ascending
    <3>4. p[1] = mailbox[j]
      BY <1>2, <1>3, <3>1, <3>2
    <3>5. q[1] = mailbox[i]
      BY <1>2, <1>3, <2>4
    <3>6. QED
      BY <3>3, <3>4, <3>5 DEF Less
  <2>5. Rising(c \o d) /\ Range(c \o d) = Range(c) \cup Range(d)
    <3> HIDE DEF c, d
    <3> QED
      BY <2>1, <2>2, <2>4, RisingJoin
  <2>6. Holds(i)
    <3>1. 1..i = (1..(i - 1)) \cup {i}
      BY <1>1
    <3>2. QED
      BY <2>1, <2>3, <2>5, <3>1
  <2>7. i \in 0..n /\ Rising(flat[i])
    BY <2>3, <2>5
  <2> HIDE DEF Holds, c, d
  <2>8. QED
    BY <2>6, <2>7
<1>8. n \in Good
  <2> HIDE DEF Good
  <2>1. 0..n \subseteq Good
    BY <1>1, <1>6, <1>7, UpTo
  <2>2. QED
    BY <1>1, <2>1
<1>9. \A p : p \in Range(flat[n]) <=>
          \E e \in Range(mailbox) : published[e].bot = b /\ p \in Posts(e)
  <2>1. \A p : p \in Range(flat[n]) <=> \E j \in 1..n : p \in Range(Routed(b, mailbox[j]))
    BY <1>3, <1>8
  <2>2. Range(mailbox) = {mailbox[j] : j \in 1..n}
    BY <1>1 DEF Range
  <2>3. \A p : p \in Range(flat[n]) <=>
            \E j \in 1..n : published[mailbox[j]].bot = b /\ p \in Posts(mailbox[j])
    BY <1>2, <2>1
  <2>4. QED
    BY <2>2, <2>3
<1>10. flat[n] \in Seq(Post) /\ Rising(flat[n])
  BY <1>1, <1>5, <1>8
<1>11. QED
  BY <1>4, <1>5, <1>9, <1>10

\* The channel and the bots, besides what keeps the pace.
BotsTyped ==
    /\ outbox \in [Bots -> Seq(Post)] /\ hand \in [Bots -> Post \cup {Nothing}]
    /\ attempt \in [Bots -> 0..MaxSendRetries]
    /\ \A b \in Bots : place[b] \in Queueing => hand[b] \in Post
    /\ \A b \in Bots : place[b] = "backoff" => attempt[b] < MaxSendRetries
    /\ channel \in Seq(Post) /\ lost \subseteq Post
    /\ since <= MinInterval /\ unseen \subseteq (1..written) \X Bots

ChatTyped == PaceInv /\ BusTyped /\ BotsTyped

LEMMA SurfaceTyped == ChatTyped /\ TakenInv => ChatTypeOK
<1> SUFFICES ASSUME ChatTyped, TakenInv PROVE ChatTypeOK
  OBVIOUS
<1>1. published \in Seq([bot : Bots, chunks : 1..MaxChunks])
  BY DEF ChatTyped, BusTyped, Published
<1>2. gate \in Seq(Bots) /\ IsInjective(gate)
  BY DEF ChatTyped, PaceInv, OneHolder, IsInjective
<1>3. place \in [Bots -> Place] /\ timer \in [Bots -> Nat] /\ since \in 0..MinInterval
  BY Positive DEF ChatTyped, BotsTyped, PaceInv, WaitsLongEnough
<1>4. DOMAIN seen \subseteq DOMAIN first /\ late \subseteq DOMAIN first
  BY DEF TakenInv, Remembers
<1>5. QED
  BY <1>1, <1>2, <1>3, <1>4 DEF ChatTyped, BusTyped, BotsTyped, ChatTypeOK

LEMMA InitChatTyped == ChatInit => BusTyped /\ BotsTyped
<1> SUFFICES ASSUME ChatInit PROVE BusTyped /\ BotsTyped
  OBVIOUS
<1>1. BusTyped
  BY ChatBounds, ChatConstants DEF ChatInit, BusTyped, Ascending
<1>2. MaxSendRetries \in Nat /\ MinInterval \in Nat
  BY ChatConstants
<1>3. BotsTyped
  BY <1>2 DEF ChatInit, BotsTyped, Queueing
<1>4. QED
  BY <1>1, <1>3

\* Whatever changes neither.
LEMMA SameBus ==
  ASSUME BusTyped, UNCHANGED <<published, mailbox, written>>
  PROVE  BusTyped'
BY DEF BusTyped, Ascending

LEMMA EventPublished ==
  ASSUME ChatTyped, NEW b \in Bots, NEW n \in 1..MaxChunks, Publish(b, n)
  PROVE  /\ BusTyped' /\ BotsTyped'
         /\ published' = Append(published, [bot |-> b, chunks |-> n])
         /\ DOMAIN published' = DOMAIN published \cup {Len(published) + 1}
         /\ \A e \in DOMAIN published : /\ published'[e] = published[e]
                                        /\ e # Len(published) + 1 /\ e < Len(published) + 1
         /\ published'[Len(published) + 1].bot = b
         /\ \/ /\ Range(mailbox') = Range(mailbox) \cup {Len(published) + 1}
               /\ lost' = lost
            \/ /\ Range(mailbox') = (Range(mailbox) \ {Head(mailbox)}) \cup {Len(published) + 1}
               /\ lost' = lost \cup Posts(Head(mailbox))
<1> DEFINE new == Len(published) + 1
           pub == Append(published, [bot |-> b, chunks |-> n])
<1>1. /\ published \in Seq(Published) /\ Len(published) \in Nat
      /\ DOMAIN published = 1..Len(published) /\ [bot |-> b, chunks |-> n] \in Published
  BY LenProperties DEF ChatTyped, BusTyped, Published
<1>2. /\ pub \in Seq(Published) /\ Len(pub) = new /\ DOMAIN pub = 1..new
      /\ \A e \in 1..Len(published) : pub[e] = published[e]
      /\ pub[new] = [bot |-> b, chunks |-> n]
  BY <1>1, AppendProperties, LenProperties
<1>3. /\ published' = pub /\ EnqueueMailbox(new) /\ written' = written
      /\ Len(published) + written < MaxTraffic
      /\ UNCHANGED <<outbox, hand, attempt, place, channel, since, unseen>>
  BY DEF Publish, sender, inbound
<1> HIDE DEF pub
<1>4. /\ mailbox \in Seq(DOMAIN published) /\ Ascending(mailbox)
      /\ Len(mailbox) \in Nat /\ Len(mailbox) <= MailboxMax /\ DOMAIN mailbox = 1..Len(mailbox)
      /\ MailboxMax \in Nat /\ MailboxMax # 0 /\ written \in Nat
  BY LenProperties, ChatConstants DEF ChatTyped, BusTyped
<1>5. /\ DOMAIN published \subseteq DOMAIN pub /\ new \in DOMAIN pub
      /\ \A e \in DOMAIN published : e < new /\ e # new
      /\ DOMAIN pub = DOMAIN published \cup {new}
  BY <1>1, <1>2
<1>6. ASSUME NEW box \in Seq(DOMAIN published), Ascending(box)
      PROVE  /\ Append(box, new) \in Seq(DOMAIN pub) /\ Ascending(Append(box, new))
             /\ Range(Append(box, new)) = Range(box) \cup {new}
  <2> DEFINE c == Append(box, new)
  <2>1. box \in Seq(DOMAIN pub)
    BY <1>5, SeqMonotonic
  <2>2. /\ c \in Seq(DOMAIN pub) /\ Len(c) = Len(box) + 1 /\ c[Len(box) + 1] = new
        /\ \A i \in 1..Len(box) : c[i] = box[i]
    BY <1>5, <2>1, AppendProperties
  <2>3. /\ Len(box) \in Nat /\ DOMAIN box = 1..Len(box) /\ DOMAIN c = 1..(Len(box) + 1)
        /\ \A i \in 1..Len(box) : box[i] \in DOMAIN published
    BY <1>6, <2>2, LenProperties
  <2> HIDE DEF c
  <2>4. Ascending(c)
    <3>1. SUFFICES ASSUME NEW i \in DOMAIN c, NEW j \in DOMAIN c, i < j PROVE c[i] < c[j]
      BY DEF Ascending
    <3>2. i \in DOMAIN box /\ c[i] = box[i]
      BY <2>2, <2>3, <3>1
    <3>3. CASE j = Len(box) + 1
      BY <1>5, <2>2, <2>3, <3>2, <3>3
    <3>4. CASE j # Len(box) + 1
      <4>1. j \in DOMAIN box /\ c[j] = box[j]
        BY <2>2, <2>3, <3>4
      <4>2. QED
        BY <1>6, <3>1, <3>2, <4>1 DEF Ascending
    <3>5. QED
      BY <3>3, <3>4
  <2>5. Range(c) = Range(box) \cup {new}
    <3>1. DOMAIN c = DOMAIN box \cup {Len(box) + 1}
      BY <2>3
    <3>2. QED
      BY <2>2, <2>3, <3>1 DEF Range
  <2>6. QED
    BY <2>2, <2>4, <2>5 DEF c
<1>7. CASE Len(mailbox) < MailboxMax
  <2>1. mailbox' = Append(mailbox, new) /\ lost' = lost
    BY <1>3, <1>7 DEF EnqueueMailbox
  <2>2. mailbox' \in Seq(DOMAIN published') /\ Ascending(mailbox')
        /\ Range(mailbox') = Range(mailbox) \cup {new}
    BY <1>3, <1>4, <1>6, <2>1
  <2>3. Len(mailbox') <= MailboxMax
    BY <1>4, <1>7, <2>1
  <2>4. BusTyped'
    BY <1>1, <1>2, <1>3, <1>4, <2>2, <2>3, ChatBounds DEF BusTyped
  <2>5. BotsTyped'
    BY <1>3, <2>1 DEF ChatTyped, BotsTyped
  <2>6. QED
    BY <1>2, <1>3, <1>5, <2>1, <2>2, <2>4, <2>5 DEF pub
<1>8. CASE ~(Len(mailbox) < MailboxMax)
  <2>1. mailbox' = Append(Tail(mailbox), new) /\ lost' = lost \cup Posts(Head(mailbox))
    BY <1>3, <1>8 DEF EnqueueMailbox
  <2>2. Len(mailbox) # 0 /\ mailbox # <<>>
    BY <1>4, <1>8
  <2>3. /\ Tail(mailbox) \in Seq(DOMAIN published) /\ Len(Tail(mailbox)) = Len(mailbox) - 1
        /\ \A i \in 1..(Len(mailbox) - 1) : Tail(mailbox)[i] = mailbox[i + 1]
        /\ Head(mailbox) = mailbox[1] /\ DOMAIN Tail(mailbox) = 1..(Len(mailbox) - 1)
    BY <1>4, <2>2
  <2>4. Ascending(Tail(mailbox))
    <3>1. SUFFICES ASSUME NEW i \in DOMAIN Tail(mailbox), NEW j \in DOMAIN Tail(mailbox), i < j
                   PROVE  Tail(mailbox)[i] < Tail(mailbox)[j]
      BY DEF Ascending
    <3>2. i + 1 \in DOMAIN mailbox /\ j + 1 \in DOMAIN mailbox /\ i + 1 < j + 1
      BY <1>4, <2>3, <3>1
    <3>3. QED
      BY <1>4, <2>3, <3>2 DEF Ascending
  <2>5. Range(Tail(mailbox)) = Range(mailbox) \ {Head(mailbox)}
    <3>1. 1 \in DOMAIN mailbox
      BY <1>4, <2>2
    <3>2. ASSUME NEW i \in DOMAIN Tail(mailbox)
          PROVE  /\ i + 1 \in DOMAIN mailbox /\ Tail(mailbox)[i] = mailbox[i + 1]
                 /\ mailbox[i + 1] # Head(mailbox)
      <4>1. i + 1 \in DOMAIN mailbox /\ 1 < i + 1 /\ Tail(mailbox)[i] = mailbox[i + 1]
        BY <1>4, <2>3
      <4>2. mailbox[1] < mailbox[i + 1]
        BY <1>4, <3>1, <4>1 DEF Ascending
      <4>3. mailbox[1] \in Nat
        BY <1>1, <1>4, <3>1
      <4>4. QED
        BY <2>3, <4>1, <4>2, <4>3
    <3>3. ASSUME NEW i \in DOMAIN mailbox, mailbox[i] # Head(mailbox)
          PROVE  i - 1 \in DOMAIN Tail(mailbox) /\ Tail(mailbox)[i - 1] = mailbox[i]
      <4>1. i # 1
        BY <2>3, <3>3
      <4>2. i - 1 \in 1..(Len(mailbox) - 1) /\ (i - 1) + 1 = i
        BY <1>4, <4>1
      <4>3. QED
        BY <2>3, <4>2
    <3>4. Range(Tail(mailbox)) \subseteq Range(mailbox) \ {Head(mailbox)}
      BY <3>2 DEF Range
    <3>5. Range(mailbox) \ {Head(mailbox)} \subseteq Range(Tail(mailbox))
      <4>1. SUFFICES ASSUME NEW e \in Range(mailbox), e # Head(mailbox)
                     PROVE  e \in Range(Tail(mailbox))
        OBVIOUS
      <4>2. PICK i \in DOMAIN mailbox : mailbox[i] = e
        BY DEF Range
      <4>3. QED
        BY <3>3, <4>1, <4>2 DEF Range
    <3>6. QED
      BY <3>4, <3>5
  <2>6. mailbox' \in Seq(DOMAIN published') /\ Ascending(mailbox')
        /\ Range(mailbox') = (Range(mailbox) \ {Head(mailbox)}) \cup {new}
    BY <1>3, <1>6, <2>1, <2>3, <2>4, <2>5
  <2>7. Len(mailbox') <= MailboxMax
    <3>1. Len(mailbox') = Len(Tail(mailbox)) + 1
      BY <2>1, <2>3
    <3>2. QED
      BY <1>4, <2>3, <3>1
  <2>8. BusTyped'
    BY <1>1, <1>2, <1>3, <1>4, <2>6, <2>7, ChatBounds DEF BusTyped
  <2>9. Posts(Head(mailbox)) \subseteq Post
    <3>1. Head(mailbox) \in DOMAIN published
      BY <1>4, <2>2, <2>3
    <3>2. QED
      BY <3>1, SplitRises DEF ChatTyped
  <2>10. BotsTyped'
    BY <1>3, <2>1, <2>9 DEF ChatTyped, BotsTyped
  <2>11. QED
    BY <1>2, <1>3, <1>5, <2>1, <2>6, <2>8, <2>10 DEF pub
<1>9. QED
  BY <1>7, <1>8

LEMMA StepTypedPosts ==
  ASSUME ChatTyped, NEW b \in Bots,
         StartFails(b) \/ Start(b) \/ Pace(b) \/ PaceEnds(b) \/ BackoffEnds(b)
  PROVE  BusTyped' /\ BotsTyped'
<1>1. /\ UNCHANGED <<published, mailbox, written, hand, outbox, channel, lost, since, unseen>>
      /\ \/ attempt' = attempt
         \/ place[b] = "backoff" /\ attempt' = [attempt EXCEPT ![b] = @ + 1]
  BY DEF StartFails, Start, Pace, PaceEnds, BackoffEnds, TryAgain, inbound
<1>2. PICK next \in {"down", "idle", "dead", "pacing", "sending", "waiting"} :
          /\ place' = [place EXCEPT ![b] = next]
          /\ next \in Queueing => place[b] \in Queueing
  <2>1. CASE StartFails(b) \/ Start(b)
    BY <2>1 DEF StartFails, Start, Queueing
  <2>2. CASE Pace(b)
    BY <2>2 DEF Pace, Queueing
  <2>3. CASE PaceEnds(b) \/ BackoffEnds(b)
    BY <2>3 DEF PaceEnds, BackoffEnds, TryAgain, Queueing
  <2>4. QED
    BY <2>1, <2>2, <2>3
<1>3. \A c \in Bots : place'[c] = IF c = b THEN next ELSE place[c]
  BY <1>2 DEF ChatTyped, PaceInv, WaitsLongEnough
<1>4. BusTyped'
  BY <1>1, SameBus DEF ChatTyped
<1>5. attempt' \in [Bots -> 0..MaxSendRetries] /\ \A c \in Bots : c # b => attempt'[c] = attempt[c]
  <2>1. CASE attempt' = attempt
    BY <2>1 DEF ChatTyped, BotsTyped
  <2>2. CASE attempt' # attempt
    <3>1. attempt[b] \in Nat /\ attempt[b] + 1 \in 0..MaxSendRetries
      BY <1>1, <2>2, ChatConstants DEF ChatTyped, BotsTyped
    <3>2. attempt' = [attempt EXCEPT ![b] = attempt[b] + 1]
      BY <1>1, <2>2
    <3>3. QED
      BY <3>1, <3>2 DEF ChatTyped, BotsTyped
  <2>3. QED
    BY <2>1, <2>2
<1>6. \A c \in Bots : place'[c] = "backoff" => attempt'[c] < MaxSendRetries
  BY <1>2, <1>3, <1>5 DEF ChatTyped, BotsTyped
<1>7. \A c \in Bots : place'[c] \in Queueing => hand'[c] \in Post
  BY <1>1, <1>2, <1>3 DEF ChatTyped, BotsTyped
<1>8. BotsTyped'
  BY <1>1, <1>5, <1>6, <1>7 DEF ChatTyped, BotsTyped
<1>9. QED
  BY <1>4, <1>8

\* The head and the rest of what waits.
LEMMA TakenFromOutbox ==
  ASSUME NEW c \in Seq(Post), Rising(c), c # <<>>
  PROVE  /\ Head(c) \in Post /\ Tail(c) \in Seq(Post) /\ Rising(Tail(c))
         /\ Range(c) = Range(Tail(c)) \cup {Head(c)}
         /\ \A q \in Range(Tail(c)) : Less(Head(c), q)
<1>1. /\ Len(c) \in Nat /\ Len(c) # 0 /\ DOMAIN c = 1..Len(c) /\ 1 \in DOMAIN c
      /\ Tail(c) \in Seq(Post) /\ Len(Tail(c)) = Len(c) - 1 /\ Head(c) = c[1]
      /\ DOMAIN Tail(c) = 1..(Len(c) - 1)
      /\ \A i \in 1..(Len(c) - 1) : Tail(c)[i] = c[i + 1]
  OBVIOUS
<1> DEFINE t == Tail(c)
<1> HIDE DEF t
<1>2. \A i \in DOMAIN t : /\ i + 1 \in DOMAIN c /\ 1 < i + 1 /\ t[i] = c[i + 1]
  BY <1>1 DEF t
<1>3. \A i \in DOMAIN c : i = 1 \/ (i - 1 \in DOMAIN t /\ t[i - 1] = c[i])
  BY <1>1 DEF t
<1>4. Range(c) = Range(t) \cup {Head(c)}
  <2>1. Range(t) \cup {Head(c)} \subseteq Range(c)
    BY <1>1, <1>2 DEF Range
  <2>2. Range(c) \subseteq Range(t) \cup {Head(c)}
    BY <1>1, <1>3 DEF Range
  <2>3. QED
    BY <2>1, <2>2
<1>5. \A q \in Range(t) : Less(Head(c), q)
  BY <1>1, <1>2 DEF Range, Rising
<1>6. Rising(t)
  <2>1. SUFFICES ASSUME NEW i \in DOMAIN t, NEW j \in DOMAIN t, i < j PROVE Less(t[i], t[j])
    BY DEF Rising
  <2>2. i + 1 < j + 1
    BY <1>1, <2>1 DEF t
  <2>3. QED
    BY <1>2, <2>2 DEF Rising
<1>7. QED
  BY <1>1, <1>4, <1>5, <1>6 DEF t

\* The posts that bot b has still to send.
Held(b) == {p \in {hand[b]} : place[b] \in Queueing}
Waits(b) == Range(outbox[b]) \cup Held(b)

\* They stand in order,
LinedUp ==
    \A b \in Bots : /\ Rising(outbox[b])
                    /\ \A p \in Held(b), q \in Range(outbox[b]) : Less(p, q)

\* are the bot's own,
OwnPosts == \A b \in Bots : \A p \in Waits(b) : p[1] \in DOMAIN published /\ published[p[1]].bot = b

\* come after what the channel shows of the bot and before what is in the
\* mailbox,
Later ==
    /\ \A i \in DOMAIN channel : channel[i][1] \in DOMAIN published
    /\ \A b \in Bots, i \in DOMAIN channel : published[channel[i][1]].bot = b =>
           \A p \in Waits(b) : Less(channel[i], p)
    /\ \A e \in Range(mailbox) : /\ \A b \in Bots : \A p \in Waits(b) : p[1] < e
                                 /\ \A i \in DOMAIN channel : channel[i][1] < e

\* and are all there is besides what was shown or lost.
Accounted ==
    \A b \in Bots : place[b] # "closed" =>
        \A e \in DOMAIN published : published[e].bot = b =>
            \A p \in Posts(e) : e \in Range(mailbox) \/ p \in lost \cup Range(channel) \cup Waits(b)

OrderInv == LinedUp /\ OwnPosts /\ Later /\ Accounted /\ PostsInOrder

LEMMA InitOrder == ChatInit => OrderInv
<1> SUFFICES ASSUME ChatInit PROVE OrderInv
  OBVIOUS
<1>1. \A b \in Bots : Rising(outbox[b]) /\ Range(outbox[b]) = {} /\ Held(b) = {} /\ Waits(b) = {}
  BY DEF ChatInit, Held, Waits, Queueing, Range, Rising
<1>2. Range(mailbox) = {} /\ DOMAIN channel = {} /\ DOMAIN published = {}
  BY DEF ChatInit, Range
<1>3. PostsInOrder
  BY <1>2 DEF PostsInOrder, IsInjective
<1>4. QED
  BY <1>1, <1>2, <1>3 DEF OrderInv, LinedUp, OwnPosts, Later, Accounted

\* Steps that send, take and drop no post.
LEMMA SameOrder ==
  ASSUME OrderInv, UNCHANGED <<published, mailbox, outbox, hand, channel, lost>>,
         \A b \in Bots : place'[b] \in Queueing <=> place[b] \in Queueing,
         \A b \in Bots : place'[b] # "closed" => place[b] # "closed"
  PROVE  OrderInv'
<1>1. \A b \in Bots : Held(b)' = Held(b) /\ Waits(b)' = Waits(b)
  BY DEF Held, Waits
<1>2. \A e : Posts(e)' = Posts(e)
  BY DEF Posts
<1>3. \A p, q : Before(p, q)' = Before(p, q)
  BY DEF Before
<1>4. LinedUp' /\ OwnPosts'
  BY <1>1 DEF OrderInv, LinedUp, OwnPosts
<1>5. Later'
  BY <1>1 DEF OrderInv, Later
<1>6. Accounted'
  BY <1>1, <1>2 DEF OrderInv, Accounted
<1>7. PostsInOrder'
  BY <1>2, <1>3 DEF OrderInv, PostsInOrder
<1>8. QED
  BY <1>4, <1>5, <1>6, <1>7 DEF OrderInv

LEMMA TakeItemOrder ==
  ASSUME ChatTyped, OrderInv, NEW b \in Bots, TakeItem(b)
  PROVE  BusTyped' /\ BotsTyped' /\ OrderInv'
<1> DEFINE h == Head(outbox[b])
           t == Tail(outbox[b])
<1>1. /\ h \in Post /\ t \in Seq(Post) /\ Rising(t) /\ Range(outbox[b]) = Range(t) \cup {h}
      /\ \A q \in Range(t) : Less(h, q)
  <2>1. outbox[b] \in Seq(Post) /\ Rising(outbox[b]) /\ outbox[b] # <<>>
    BY DEF TakeItem, ChatTyped, BotsTyped, OrderInv, LinedUp
  <2>2. QED
    BY ONLY <2>1, TakenFromOutbox
<1>2. /\ place[b] = "idle" /\ hand' = [hand EXCEPT ![b] = h]
      /\ outbox' = [outbox EXCEPT ![b] = t] /\ place' = [place EXCEPT ![b] = "waiting"]
      /\ attempt' = [attempt EXCEPT ![b] = 1]
      /\ UNCHANGED <<published, mailbox, written, channel, lost, since, unseen>>
  BY DEF TakeItem, inbound
<1> HIDE DEF h, t
<1>3. \A c \in Bots : /\ place'[c] = IF c = b THEN "waiting" ELSE place[c]
                      /\ hand'[c] = IF c = b THEN h ELSE hand[c]
                      /\ outbox'[c] = IF c = b THEN t ELSE outbox[c]
                      /\ attempt'[c] = IF c = b THEN 1 ELSE attempt[c]
  BY <1>2 DEF ChatTyped, PaceInv, WaitsLongEnough, BotsTyped
<1>4. BusTyped'
  BY <1>2, SameBus DEF ChatTyped
<1>5. BotsTyped'
  <2>1. attempt' \in [Bots -> 0..MaxSendRetries]
    BY <1>2, ChatConstants DEF ChatTyped, BotsTyped
  <2>2. outbox' \in [Bots -> Seq(Post)] /\ hand' \in [Bots -> Post \cup {Nothing}]
    BY <1>1, <1>2 DEF ChatTyped, BotsTyped
  <2>3. QED
    BY <1>1, <1>2, <1>3, <2>1, <2>2 DEF ChatTyped, BotsTyped
<1>6. \A c \in Bots : Held(c)' = IF c = b THEN {h} ELSE Held(c)
  BY <1>3 DEF Held, Queueing
<1>7. \A c \in Bots : Waits(c)' = Waits(c)
  <2>1. Held(b) = {}
    BY <1>2 DEF Held, Queueing
  <2>2. QED
    BY <1>1, <1>3, <1>6, <2>1 DEF Waits
<1>8. \A e : Posts(e)' = Posts(e)
  BY <1>2 DEF Posts
<1>9. LinedUp'
  BY <1>1, <1>3, <1>6 DEF OrderInv, LinedUp
<1>10. OwnPosts' /\ Later'
  BY <1>2, <1>7 DEF OrderInv, OwnPosts, Later
<1>11. Accounted'
  BY <1>2, <1>3, <1>7, <1>8 DEF OrderInv, Accounted
<1>12. PostsInOrder'
  <2>1. \A p, q : Before(p, q)' = Before(p, q)
    BY <1>2 DEF Before
  <2>2. QED
    BY <1>2, <1>8, <2>1 DEF OrderInv, PostsInOrder
<1>13. QED
  BY <1>4, <1>5, <1>9, <1>10, <1>11, <1>12 DEF OrderInv

\* What a bot that sends has left once it is done with its post.
LEMMA DoneLeaves ==
  ASSUME ChatTyped, OrderInv, NEW b \in Bots, place[b] = "sending", DoneWith(b)
  PROVE  /\ hand[b] \in Post /\ hand[b] \in Waits(b)
         /\ \A c \in Bots : /\ Held(c)' = IF c = b THEN {} ELSE Held(c)
                            /\ place'[c] # "closed" => place[c] # "closed"
         /\ \A c \in Bots : /\ Waits(c)' \subseteq Waits(c)
                            /\ Waits(c) \subseteq Waits(c)' \cup {hand[b]}
         /\ \A q \in Waits(b)' : Less(hand[b], q)
         /\ \A e : Posts(e)' = Posts(e)
         /\ LinedUp' /\ OwnPosts'
<1>1. /\ place' = [place EXCEPT ![b] = "idle"] /\ hand' = [hand EXCEPT ![b] = Nothing]
      /\ UNCHANGED <<published, outbox>>
  BY DEF DoneWith
<1>2. \A c \in Bots : /\ place'[c] = IF c = b THEN "idle" ELSE place[c]
                      /\ hand'[c] = IF c = b THEN Nothing ELSE hand[c]
  BY <1>1 DEF ChatTyped, PaceInv, WaitsLongEnough, BotsTyped
<1>3. hand[b] \in Post /\ Held(b) = {hand[b]}
  BY DEF ChatTyped, BotsTyped, Held, Queueing
<1>4. \A c \in Bots : Held(c)' = IF c = b THEN {} ELSE Held(c)
  BY <1>2 DEF Held, Queueing
<1>5. \A c \in Bots : /\ Waits(c)' \subseteq Waits(c)
                      /\ Waits(c) \subseteq Waits(c)' \cup {hand[b]}
  BY <1>1, <1>3, <1>4 DEF Waits
<1>6. \A q \in Waits(b)' : Less(hand[b], q)
  BY <1>1, <1>3, <1>4 DEF Waits, OrderInv, LinedUp
<1>7. LinedUp'
  BY <1>1, <1>4 DEF OrderInv, LinedUp
<1>8. OwnPosts'
  BY <1>1, <1>5 DEF OrderInv, OwnPosts
<1>9. \A e : Posts(e)' = Posts(e)
  BY <1>1 DEF Posts
<1>10. QED
  BY <1>2, <1>3, <1>4, <1>5, <1>6, <1>7, <1>8, <1>9 DEF Waits

LEMMA DoneTyped ==
  ASSUME ChatTyped, NEW b \in Bots, place[b] = "sending", DoneWith(b),
         channel' \in Seq(Post), lost' \subseteq Post, since' \in {0, since}
  PROVE  BusTyped' /\ BotsTyped'
<1>1. /\ place' = [place EXCEPT ![b] = "idle"] /\ hand' = [hand EXCEPT ![b] = Nothing]
      /\ attempt' = [attempt EXCEPT ![b] = 0]
      /\ UNCHANGED <<published, mailbox, written, outbox, unseen>>
  BY DEF DoneWith, inbound
<1>2. \A c \in Bots : /\ place'[c] = IF c = b THEN "idle" ELSE place[c]
                      /\ hand'[c] = IF c = b THEN Nothing ELSE hand[c]
                      /\ attempt'[c] = IF c = b THEN 0 ELSE attempt[c]
  BY <1>1 DEF ChatTyped, PaceInv, WaitsLongEnough, BotsTyped
<1>3. BusTyped'
  BY <1>1, SameBus DEF ChatTyped
<1>4. attempt' \in [Bots -> 0..MaxSendRetries] /\ hand' \in [Bots -> Post \cup {Nothing}]
  BY <1>1, ChatConstants DEF ChatTyped, BotsTyped
<1>5. since' <= MinInterval
  BY Positive DEF ChatTyped, BotsTyped
<1>6. \A c \in Bots : place'[c] \in Queueing => hand'[c] \in Post
  BY <1>2 DEF ChatTyped, BotsTyped, Queueing
<1>7. \A c \in Bots : place'[c] = "backoff" => attempt'[c] < MaxSendRetries
  BY <1>2 DEF ChatTyped, BotsTyped
<1>8. BotsTyped'
  BY <1>1, <1>4, <1>5, <1>6, <1>7 DEF ChatTyped, BotsTyped
<1>9. QED
  BY <1>3, <1>8

\* A post that is given up is known to be lost.
LEMMA GiveUpOrder ==
  ASSUME ChatTyped, OrderInv, NEW b \in Bots, place[b] = "sending", GiveUp(b)
  PROVE  BusTyped' /\ BotsTyped' /\ OrderInv'
<1>1. /\ DoneWith(b) /\ lost' = lost \cup {hand[b]}
      /\ UNCHANGED <<since, channel, published, mailbox>>
  BY DEF GiveUp, DoneWith
<1>2. /\ hand[b] \in Post
      /\ \A c \in Bots : place'[c] # "closed" => place[c] # "closed"
      /\ \A c \in Bots : /\ Waits(c)' \subseteq Waits(c)
                         /\ Waits(c) \subseteq Waits(c)' \cup {hand[b]}
      /\ \A e : Posts(e)' = Posts(e)
      /\ LinedUp' /\ OwnPosts'
  BY <1>1, DoneLeaves
<1>3. BusTyped' /\ BotsTyped'
  <2>1. channel' \in Seq(Post) /\ lost' \subseteq Post
    BY <1>1, <1>2 DEF ChatTyped, BotsTyped
  <2>2. QED
    BY <1>1, <2>1, DoneTyped
<1>4. Later'
  BY <1>1, <1>2 DEF OrderInv, Later
<1>5. Accounted'
  BY <1>1, <1>2 DEF OrderInv, Accounted
<1>6. PostsInOrder'
  <2>1. \A p, q : Before(p, q)' = Before(p, q)
    BY <1>1 DEF Before
  <2>2. QED
    BY <1>1, <1>2, <2>1 DEF OrderInv, PostsInOrder
<1>7. QED
  BY <1>2, <1>3, <1>4, <1>5, <1>6 DEF OrderInv

\* A post that is sent comes after what the channel shows of its bot, and all
\* posts of the bot before it were shown or lost.
LEMMA SendSucceedsOrder ==
  ASSUME ChatTyped, OrderInv, NEW b \in Bots, SendSucceeds(b)
  PROVE  BusTyped' /\ BotsTyped' /\ OrderInv'
<1> DEFINE h == hand[b]
           n == Len(channel)
<1>1. /\ DoneWith(b) /\ lost' = lost /\ channel' = Append(channel, h) /\ since' = 0
      /\ place[b] = "sending" /\ UNCHANGED <<published, mailbox>>
  BY DEF SendSucceeds, DoneWith
<1>2. /\ h \in Post /\ h \in Waits(b)
      /\ \A c \in Bots : place'[c] # "closed" => place[c] # "closed"
      /\ \A c \in Bots : /\ Waits(c)' \subseteq Waits(c)
                         /\ Waits(c) \subseteq Waits(c)' \cup {h}
      /\ \A q \in Waits(b)' : Less(h, q)
      /\ \A e : Posts(e)' = Posts(e)
      /\ LinedUp' /\ OwnPosts'
  BY <1>1, DoneLeaves
<1> HIDE DEF h
<1>3. channel \in Seq(Post) /\ n \in Nat /\ DOMAIN channel = 1..n
  BY DEF ChatTyped, BotsTyped
<1>4. /\ channel' \in Seq(Post) /\ DOMAIN channel' = 1..(n + 1) /\ channel'[n + 1] = h
      /\ \A i \in 1..n : channel'[i] = channel[i]
  BY <1>1, <1>2, <1>3
<1>5. \A i \in DOMAIN channel' : i = n + 1 \/ i \in DOMAIN channel
  BY <1>3, <1>4
<1>6. /\ DOMAIN channel \subseteq DOMAIN channel' /\ n + 1 \in DOMAIN channel'
      /\ n + 1 \notin DOMAIN channel
  BY <1>3, <1>4
<1>7. Range(channel') = Range(channel) \cup {h}
  BY <1>3, <1>4, <1>5, <1>6 DEF Range
<1>8. BusTyped' /\ BotsTyped'
  <2>1. lost' \subseteq Post
    BY <1>1 DEF ChatTyped, BotsTyped
  <2>2. QED
    BY <1>1, <1>4, <2>1, DoneTyped
<1>9. h[1] \in DOMAIN published /\ published[h[1]].bot = b
  BY <1>2 DEF OrderInv, OwnPosts
<1>10. Later'
  <2>1. \A i \in DOMAIN channel' : channel'[i][1] \in DOMAIN published'
    BY <1>1, <1>3, <1>4, <1>5, <1>9 DEF OrderInv, Later
  <2>2. ASSUME NEW c \in Bots, NEW i \in DOMAIN channel', published[channel'[i][1]].bot = c,
               NEW p \in Waits(c)'
        PROVE  Less(channel'[i], p)
    <3>1. CASE i = n + 1
      BY <1>2, <1>4, <1>9, <2>2, <3>1
    <3>2. CASE i \in DOMAIN channel
      BY <1>2, <1>3, <1>4, <2>2, <3>2 DEF OrderInv, Later
    <3>3. QED
      BY <1>5, <3>1, <3>2
  <2>3. ASSUME NEW e \in Range(mailbox')
        PROVE  /\ \A c \in Bots : \A p \in Waits(c)' : p[1] < e
               /\ \A i \in DOMAIN channel' : channel'[i][1] < e
    <3>1. e \in Range(mailbox)
      BY <1>1
    <3>2. \A c \in Bots : \A p \in Waits(c) : p[1] < e
      BY <3>1 DEF OrderInv, Later
    <3>3. \A i \in DOMAIN channel : channel[i][1] < e
      BY <3>1 DEF OrderInv, Later
    <3>4. QED
      BY <1>2, <1>3, <1>4, <1>5, <3>2, <3>3
  <2>4. QED
    BY <1>1, <2>1, <2>2, <2>3 DEF Later
<1>11. Accounted'
  BY <1>1, <1>2, <1>7 DEF OrderInv, Accounted
<1>12. PostsInOrder'
  <2>1. \A p, q : Before(p, q)' = Before(p, q)
    BY <1>1 DEF Before
  <2>2. ASSUME NEW i \in DOMAIN channel PROVE channel[i] # h
    <3>1. channel[i] \in Post /\ channel[i][1] \in DOMAIN published
      BY <1>3 DEF OrderInv, Later
    <3>2. CASE published[channel[i][1]].bot = b
      <4>1. Less(channel[i], h)
        BY <1>2, <3>2 DEF OrderInv, Later
      <4>2. h \in Post
        BY <1>2
      <4>3. QED
        BY ONLY <3>1, <4>1, <4>2, LessOrders
    <3>3. CASE published[channel[i][1]].bot # b
      BY <1>9, <3>3
    <3>4. QED
      BY <3>2, <3>3
  <2>3. IsInjective(channel')
    <3>1. SUFFICES ASSUME NEW i \in DOMAIN channel', NEW j \in DOMAIN channel',
                          channel'[i] = channel'[j]
                   PROVE  i = j
      BY DEF IsInjective
    <3>2. QED
      BY <1>3, <1>4, <1>5, <2>2, <3>1 DEF OrderInv, PostsInOrder, IsInjective
  <2>4. ASSUME NEW i \in DOMAIN channel', NEW e \in DOMAIN published, NEW p \in Posts(e),
               Before(p, channel'[i])
        PROVE  p \in lost \cup {channel'[j] : j \in 1..(i - 1)}
    <3>1. CASE i \in DOMAIN channel
      <4>1. channel'[i] = channel[i]
        BY <1>3, <1>4, <3>1
      <4>2. p \in lost \cup {channel[j] : j \in 1..(i - 1)}
        BY <2>4, <3>1, <4>1 DEF OrderInv, PostsInOrder
      <4>3. 1..(i - 1) \subseteq 1..n
        BY <1>3, <3>1
      <4>4. QED
        BY <1>4, <4>2, <4>3
    <3>2. CASE i = n + 1
      <4>1. p \in Post /\ p[1] = e
        BY SplitRises DEF ChatTyped
      <4>2. Less(p, h) /\ published[e].bot = b
        BY <1>4, <1>9, <2>4, <3>2, <4>1 DEF Before, Less
      <4>3. p \notin Waits(b)
        <5>1. ~Less(h, p) /\ p # h
          <6>1. h \in Post
            BY <1>2
          <6>2. QED
            BY ONLY <4>1, <4>2, <6>1, LessOrders
        <5>2. QED
          BY <1>2, <5>1
      <4>4. e \notin Range(mailbox)
        <5>1. ASSUME e \in Range(mailbox) PROVE FALSE
          <6>1. h[1] < e
            BY <1>2, <5>1 DEF OrderInv, Later
          <6>2. h[1] \in Nat /\ e \in Nat
            BY <1>9, EventsAreKnown DEF ChatTyped
          <6>3. QED
            BY <4>1, <4>2, <6>1, <6>2 DEF Less
        <5>2. QED
          BY <5>1
      <4>5. p \in lost \cup Range(channel)
        BY <1>1, <4>2, <4>3, <4>4 DEF OrderInv, Accounted
      <4>6. (n + 1) - 1 = n
        BY <1>3
      <4>7. Range(channel) = {channel'[j] : j \in 1..(i - 1)}
        BY <1>3, <1>4, <3>2, <4>6 DEF Range
      <4>8. QED
        BY <4>5, <4>7
    <3>3. QED
      BY <1>5, <3>1, <3>2
  <2>5. QED
    BY <1>1, <1>2, <2>1, <2>3, <2>4 DEF PostsInOrder
<1>13. QED
  BY <1>2, <1>8, <1>10, <1>11, <1>12 DEF OrderInv

\* A new event comes last; what the mailbox drops is known to be lost.
LEMMA PublishOrder ==
  ASSUME ChatTyped, OrderInv, NEW b \in Bots, NEW n \in 1..MaxChunks, Publish(b, n)
  PROVE  BusTyped' /\ BotsTyped' /\ OrderInv'
<1> DEFINE new == Len(published) + 1
<1>1. /\ BusTyped' /\ BotsTyped'
      /\ DOMAIN published' = DOMAIN published \cup {new}
      /\ \A e \in DOMAIN published : published'[e] = published[e] /\ e # new /\ e < new
      /\ \/ /\ Range(mailbox') = Range(mailbox) \cup {new}
            /\ lost' = lost
         \/ /\ Range(mailbox') = (Range(mailbox) \ {Head(mailbox)}) \cup {new}
            /\ lost' = lost \cup Posts(Head(mailbox))
  BY EventPublished
<1> HIDE DEF new
<1>2. UNCHANGED <<place, outbox, hand, channel>>
  BY DEF Publish, sender
<1>3. \A c \in Bots : Held(c)' = Held(c) /\ Waits(c)' = Waits(c)
  BY <1>2 DEF Held, Waits
<1>4. \A e \in DOMAIN published : Posts(e)' = Posts(e)
  BY <1>1 DEF Posts
<1>5. \A e \in Range(mailbox') : e = new \/ e \in Range(mailbox)
  BY <1>1
<1>6. LinedUp'
  BY <1>2, <1>3 DEF OrderInv, LinedUp
<1>7. OwnPosts'
  BY <1>1, <1>3 DEF OrderInv, OwnPosts
<1>8. Later'
  <2>1. \A i \in DOMAIN channel : channel[i][1] \in DOMAIN published
    BY DEF OrderInv, Later
  <2>2. ASSUME NEW e \in Range(mailbox')
        PROVE  /\ \A c \in Bots : \A p \in Waits(c) : p[1] < e
               /\ \A i \in DOMAIN channel : channel[i][1] < e
    <3>1. CASE e \in Range(mailbox)
      BY <3>1 DEF OrderInv, Later
    <3>2. CASE e = new
      BY <1>1, <2>1, <3>2 DEF OrderInv, OwnPosts
    <3>3. QED
      BY <1>5, <3>1, <3>2
  <2>3. QED
    BY <1>1, <1>2, <1>3, <2>1, <2>2 DEF OrderInv, Later
<1>9. Accounted'
  <2>1. SUFFICES ASSUME NEW c \in Bots, place[c] # "closed", NEW e \in DOMAIN published',
                        published'[e].bot = c, NEW p \in Posts(e)', e \notin Range(mailbox')
                 PROVE  p \in lost' \cup Range(channel) \cup Waits(c)
    BY <1>2, <1>3 DEF Accounted
  <2>2. e # new /\ e \in DOMAIN published
    BY <1>1, <2>1
  <2>3. published[e].bot = c /\ p \in Posts(e)
    BY <1>1, <1>4, <2>1, <2>2
  <2>4. e \in Range(mailbox) \/ p \in lost \cup Range(channel) \cup Waits(c)
    BY <2>1, <2>2, <2>3 DEF OrderInv, Accounted
  <2>5. QED
    BY <1>1, <2>1, <2>3, <2>4
<1>10. PostsInOrder'
  <2>1. IsInjective(channel')
    BY <1>2 DEF OrderInv, PostsInOrder
  <2>2. ASSUME NEW i \in DOMAIN channel, NEW e \in DOMAIN published', NEW p \in Posts(e)',
               Before(p, channel[i])'
        PROVE  p \in lost' \cup {channel[j] : j \in 1..(i - 1)}
    <3>1. channel[i][1] \in DOMAIN published /\ p[1] = e
      BY <1>1, SplitRises DEF OrderInv, Later, Posts
    <3>2. e # new
      <4>1. ASSUME e = new PROVE FALSE
        <5>1. channel[i][1] < e /\ channel[i][1] \in Nat
          BY <1>1, <3>1, <4>1, EventsAreKnown DEF ChatTyped
        <5>2. e \in Nat
          BY <1>1, <4>1 DEF BusTyped, new, ChatTyped
        <5>3. p[1] < channel[i][1] \/ p[1] = channel[i][1]
          BY <1>2, <2>2 DEF Before
        <5>4. QED
          BY <3>1, <5>1, <5>2, <5>3
      <4>2. QED
        BY <4>1
    <3>3. e \in DOMAIN published /\ p \in Posts(e)
      BY <1>1, <1>4, <2>2, <3>2
    <3>4. /\ published'[p[1]] = published[p[1]] /\ channel' = channel
          /\ published'[channel[i][1]] = published[channel[i][1]]
      BY <1>1, <1>2, <3>1, <3>3
    <3>5. Before(p, channel[i])
      BY <2>2, <3>4 DEF Before
    <3>6. p \in lost \cup {channel[j] : j \in 1..(i - 1)}
      BY <3>3, <3>5 DEF OrderInv, PostsInOrder
    <3>7. QED
      BY <1>1, <3>6
  <2>3. QED
    BY <1>2, <2>1, <2>2 DEF PostsInOrder
<1>11. QED
  BY <1>1, <1>6, <1>7, <1>8, <1>9, <1>10 DEF OrderInv

\* The mailbox goes to the ends of the outboxes.
LEMMA DrainOrder ==
  ASSUME ChatTyped, OrderInv, DrainMailbox
  PROVE  BusTyped' /\ BotsTyped' /\ OrderInv'
<1>1. /\ outbox' = [b \in Bots |-> Enqueued(b)] /\ mailbox' = <<>>
      /\ UNCHANGED <<published, place, hand, attempt, since, channel, lost, written, unseen>>
  BY DEF DrainMailbox, inbound
<1>2. ASSUME NEW b \in Bots
      PROVE  /\ outbox'[b] \in Seq(Post) /\ Rising(outbox'[b])
             /\ \A p : p \in Range(outbox'[b]) <=>
                    \/ p \in Range(outbox[b])
                    \/ \E e \in Range(mailbox) : published[e].bot = b /\ p \in Posts(e)
  <2>1. PICK new \in Seq(Post) :
            /\ Enqueued(b) = outbox[b] \o new /\ Rising(new)
            /\ \A p : p \in Range(new) <=>
                   \E e \in Range(mailbox) : published[e].bot = b /\ p \in Posts(e)
    BY DrainedPosts DEF ChatTyped
  <2>2. outbox[b] \in Seq(Post) /\ Rising(outbox[b])
    BY DEF ChatTyped, BotsTyped, OrderInv, LinedUp
  <2>3. ASSUME NEW p \in Range(outbox[b]), NEW q \in Range(new) PROVE Less(p, q)
    <3>1. PICK e \in Range(mailbox) : q \in Posts(e)
      BY <2>1
    <3>2. e \in DOMAIN published
      BY RangeOfSeq DEF ChatTyped, BusTyped
    <3>3. q[1] = e
      BY <3>1, <3>2, SplitRises DEF ChatTyped
    <3>4. p[1] < e
      BY DEF OrderInv, Later, Waits
    <3>5. QED
      BY <3>3, <3>4 DEF Less
  <2>4. /\ outbox[b] \o new \in Seq(Post) /\ Rising(outbox[b] \o new)
        /\ Range(outbox[b] \o new) = Range(outbox[b]) \cup Range(new)
    <3>1. new \in Seq(Post) /\ Rising(new)
      BY <2>1
    <3>2. \A p \in Range(outbox[b]), q \in Range(new) : Less(p, q)
      BY <2>3
    <3>3. QED
      BY ONLY <2>2, <3>1, <3>2, RisingJoin
  <2>5. outbox'[b] = outbox[b] \o new
    BY <1>1, <2>1
  <2>6. QED
    BY <2>1, <2>4, <2>5
<1>3. \A b \in Bots : Held(b)' = Held(b)
  BY <1>1 DEF Held
<1>4. \A b \in Bots : \A p : p \in Waits(b)' <=>
          \/ p \in Waits(b)
          \/ \E e \in Range(mailbox) : published[e].bot = b /\ p \in Posts(e)
  BY <1>2, <1>3 DEF Waits
<1>5. \A e : Posts(e)' = Posts(e)
  BY <1>1 DEF Posts
<1>6. \A e \in Range(mailbox) : e \in DOMAIN published /\ \A p \in Posts(e) : p[1] = e
  BY RangeOfSeq, SplitRises DEF ChatTyped, BusTyped
<1>7. Range(mailbox') = {}
  BY <1>1 DEF Range
<1>8. BusTyped'
  <2> DEFINE none == <<>>
  <2>1. none \in Seq(DOMAIN published) /\ Ascending(none) /\ Len(none) <= MailboxMax
    BY ChatConstants DEF Ascending
  <2> HIDE DEF none
  <2>2. mailbox' = none /\ published' = published /\ written' = written
    BY <1>1 DEF none
  <2>3. QED
    BY <2>1, <2>2 DEF ChatTyped, BusTyped, Ascending
<1>9. BotsTyped'
  <2>1. outbox' \in [Bots -> Seq(Post)]
    BY <1>1, <1>2
  <2>2. QED
    BY <1>1, <2>1 DEF ChatTyped, BotsTyped
<1>10. LinedUp'
  <2>1. SUFFICES ASSUME NEW b \in Bots, NEW p \in Held(b), NEW q \in Range(outbox'[b])
                 PROVE  Less(p, q)
    BY <1>2, <1>3 DEF LinedUp
  <2>2. CASE q \in Range(outbox[b])
    BY <2>2 DEF OrderInv, LinedUp
  <2>3. CASE q \notin Range(outbox[b])
    <3>1. PICK e \in Range(mailbox) : q \in Posts(e)
      BY <1>2, <2>1, <2>3
    <3>2. p[1] < e /\ q[1] = e
      BY <1>6, <3>1 DEF OrderInv, Later, Waits
    <3>3. QED
      BY <3>2 DEF Less
  <2>4. QED
    BY <2>2, <2>3
<1>11. OwnPosts'
  <2>1. SUFFICES ASSUME NEW b \in Bots, NEW p \in Waits(b)'
                 PROVE  p[1] \in DOMAIN published /\ published[p[1]].bot = b
    BY <1>1 DEF OwnPosts
  <2>2. CASE p \in Waits(b)
    BY <2>2 DEF OrderInv, OwnPosts
  <2>3. CASE p \notin Waits(b)
    BY <1>4, <1>6, <2>1, <2>3
  <2>4. QED
    BY <2>2, <2>3
<1>12. Later'
  <2>1. ASSUME NEW b \in Bots, NEW i \in DOMAIN channel, published[channel[i][1]].bot = b,
               NEW p \in Waits(b)'
        PROVE  Less(channel[i], p)
    <3>1. CASE p \in Waits(b)
      BY <2>1, <3>1 DEF OrderInv, Later
    <3>2. CASE p \notin Waits(b)
      <4>1. PICK e \in Range(mailbox) : p \in Posts(e)
        BY <1>4, <2>1, <3>2
      <4>2. channel[i][1] < e /\ p[1] = e
        BY <1>6, <4>1 DEF OrderInv, Later
      <4>3. QED
        BY <4>2 DEF Less
    <3>3. QED
      BY <3>1, <3>2
  <2>2. QED
    BY <1>1, <1>7, <2>1 DEF OrderInv, Later
<1>13. Accounted'
  <2>1. SUFFICES ASSUME NEW b \in Bots, place[b] # "closed", NEW e \in DOMAIN published,
                        published[e].bot = b, NEW p \in Posts(e)
                 PROVE  p \in lost \cup Range(channel) \cup Waits(b)'
    BY <1>1, <1>5 DEF Accounted
  <2>2. e \in Range(mailbox) \/ p \in lost \cup Range(channel) \cup Waits(b)
    BY <2>1 DEF OrderInv, Accounted
  <2>3. QED
    BY <1>4, <2>1, <2>2
<1>14. PostsInOrder'
  <2>1. \A p, q : Before(p, q)' = Before(p, q)
    BY <1>1 DEF Before
  <2>2. QED
    BY <1>1, <1>5, <2>1 DEF OrderInv, PostsInOrder
<1>15. QED
  BY <1>8, <1>9, <1>10, <1>11, <1>12, <1>13, <1>14 DEF OrderInv

\* Who is stopped sends nothing any more.
LEMMA StopOrder ==
  ASSUME ChatTyped, OrderInv, StopAll
  PROVE  BusTyped' /\ BotsTyped' /\ OrderInv'
<1>1. /\ place' = [b \in Bots |-> "closed"] /\ hand' = [b \in Bots |-> Nothing]
      /\ attempt' = [b \in Bots |-> 0]
      /\ UNCHANGED <<published, mailbox, written, outbox, since, channel, lost, unseen>>
  BY DEF StopAll, inbound
<1>2. \A b \in Bots : Held(b)' = {} /\ Waits(b)' \subseteq Waits(b)
  BY <1>1 DEF Held, Waits, Queueing
<1>3. BusTyped'
  BY <1>1, SameBus DEF ChatTyped
<1>4. BotsTyped'
  BY <1>1, ChatConstants DEF ChatTyped, BotsTyped, Queueing
<1>5. LinedUp' /\ OwnPosts'
  BY <1>1, <1>2 DEF OrderInv, LinedUp, OwnPosts
<1>6. Later' /\ Accounted'
  BY <1>1, <1>2 DEF OrderInv, Later, Accounted
<1>7. PostsInOrder'
  <2>1. \A e : Posts(e)' = Posts(e)
    BY <1>1 DEF Posts
  <2>2. \A p, q : Before(p, q)' = Before(p, q)
    BY <1>1 DEF Before
  <2>3. QED
    BY <1>1, <2>1, <2>2 DEF OrderInv, PostsInOrder
<1>8. QED
  BY <1>3, <1>4, <1>5, <1>6, <1>7 DEF OrderInv

\* Steps of a sender, or of its start, that send, take and drop nothing.
LEMMA QuietOrder ==
  ASSUME ChatTyped, OrderInv, NEW b \in Bots,
         StartFails(b) \/ Start(b) \/ Pace(b) \/ PaceEnds(b) \/ BackoffEnds(b)
  PROVE  BusTyped' /\ BotsTyped' /\ OrderInv'
<1>1. UNCHANGED <<published, mailbox, outbox, hand, channel, lost>>
  BY DEF StartFails, Start, Pace, PaceEnds, BackoffEnds, TryAgain
<1>2. PICK next \in Place \ {"closed"} :
          /\ place' = [place EXCEPT ![b] = next]
          /\ next \in Queueing <=> place[b] \in Queueing
          /\ place[b] # "closed"
  <2>1. CASE StartFails(b) \/ Start(b)
    BY <2>1 DEF StartFails, Start, Queueing, Place
  <2>2. CASE Pace(b)
    BY <2>2 DEF Pace, Queueing, Place
  <2>3. CASE PaceEnds(b) \/ BackoffEnds(b)
    BY <2>3 DEF PaceEnds, BackoffEnds, TryAgain, Queueing, Place
  <2>4. QED
    BY <2>1, <2>2, <2>3
<1>3. \A c \in Bots : place'[c] = IF c = b THEN next ELSE place[c]
  BY <1>2 DEF ChatTyped, PaceInv, WaitsLongEnough
<1>4. OrderInv'
  BY <1>1, <1>2, <1>3, SameOrder
<1>5. QED
  BY <1>4, StepTypedPosts

LEMMA RateLimitedOrder ==
  ASSUME ChatTyped, OrderInv, NEW b \in Bots, RateLimited(b)
  PROVE  BusTyped' /\ BotsTyped' /\ OrderInv'
<1>1. CASE GiveUp(b)
  BY <1>1, GiveUpOrder DEF RateLimited
<1>2. CASE ~GiveUp(b)
  <2>1. /\ place[b] = "sending" /\ place' = [place EXCEPT ![b] = "backoff"]
        /\ attempt[b] < MaxSendRetries
        /\ UNCHANGED <<published, mailbox, outbox, hand, attempt, channel, lost, since, written,
                       unseen>>
    BY <1>2 DEF RateLimited, inbound
  <2>2. \A c \in Bots : place'[c] = IF c = b THEN "backoff" ELSE place[c]
    BY <2>1 DEF ChatTyped, PaceInv, WaitsLongEnough
  <2>3. OrderInv'
    BY <2>1, <2>2, SameOrder DEF Queueing
  <2>4. BusTyped'
    BY <2>1, SameBus DEF ChatTyped
  <2>5. BotsTyped'
    BY <2>1, <2>2 DEF ChatTyped, BotsTyped, Queueing
  <2>6. QED
    BY <2>3, <2>4, <2>5
<1>3. QED
  BY <1>1, <1>2

\* What goes on around the posts.
LEMMA OutsideOrder ==
  ASSUME ChatTyped, OrderInv,
         \/ Write \/ Tick \/ UNCHANGED chatVars
         \/ \E m \in 1..MaxTraffic, b \in Bots : HandleInboundMessage(m, b)
  PROVE  BusTyped' /\ BotsTyped' /\ OrderInv'
<1>1. /\ UNCHANGED <<published, mailbox, outbox, place, hand, attempt, channel, lost>>
      /\ since' \in {since, since + 1}
  BY DEF Write, Tick, HandleInboundMessage, chatVars, sender
<1>2. OrderInv'
  BY <1>1, SameOrder
<1>3. since' <= MinInterval
  <2>1. since' = since \/ (since < MinInterval /\ since' = since + 1)
    BY DEF Write, Tick, HandleInboundMessage, chatVars
  <2>2. since \in Nat /\ since <= MinInterval /\ MinInterval \in Nat
    BY Positive DEF ChatTyped, PaceInv, WaitsLongEnough, BotsTyped
  <2>3. QED
    BY <2>1, <2>2
<1>4. CASE Write
  <2>1. /\ written' = written + 1 /\ Len(published) + written < MaxTraffic
        /\ unseen' = unseen \cup {<<written + 1, b>> : b \in Bots}
    BY <1>4 DEF Write
  <2>2. written \in Nat /\ Len(published) \in Nat
    BY DEF ChatTyped, BusTyped
  <2>3. written' \in Nat /\ Len(published') + written' <= MaxTraffic
    BY <1>1, <2>1, <2>2, ChatBounds
  <2>4. BusTyped'
    BY <1>1, <2>3 DEF ChatTyped, BusTyped, Ascending
  <2>5. unseen' \subseteq (1..written') \X Bots
    <3>1. 1..written \subseteq 1..written' /\ written + 1 \in 1..written'
      BY <2>1, <2>2
    <3>2. QED
      BY <2>1, <3>1 DEF ChatTyped, BotsTyped
  <2>6. QED
    BY <1>1, <1>2, <1>3, <2>4, <2>5 DEF ChatTyped, BotsTyped
<1>5. CASE ~Write
  <2>1. written' = written /\ unseen' \subseteq unseen
    BY <1>5 DEF Tick, HandleInboundMessage, chatVars, inbound
  <2>2. BusTyped'
    BY <1>1, <2>1, SameBus DEF ChatTyped
  <2>3. QED
    BY <1>1, <1>2, <1>3, <2>1, <2>2 DEF ChatTyped, BotsTyped
<1>6. QED
  BY <1>4, <1>5

LEMMA NextOrder ==
  ChatTyped /\ OrderInv /\ [ChatNext]_chatVars => BusTyped' /\ BotsTyped' /\ OrderInv'
<1> SUFFICES ASSUME ChatTyped, OrderInv, [ChatNext]_chatVars
             PROVE  BusTyped' /\ BotsTyped' /\ OrderInv'
  OBVIOUS
<1>1. ASSUME NEW b \in Bots, NEW n \in 1..MaxChunks, Publish(b, n)
      PROVE  BusTyped' /\ BotsTyped' /\ OrderInv'
  BY <1>1, PublishOrder
<1>2. ASSUME NEW b \in Bots, Send(b)
      PROVE  BusTyped' /\ BotsTyped' /\ OrderInv'
  <2>1. CASE SendFails(b)
    BY <2>1, GiveUpOrder DEF SendFails
  <2>2. QED
    BY <1>2, <2>1, TakeItemOrder, QuietOrder, SendSucceedsOrder, RateLimitedOrder DEF Send
<1>3. ASSUME NEW b \in Bots, StartFails(b) \/ Start(b)
      PROVE  BusTyped' /\ BotsTyped' /\ OrderInv'
  BY <1>3, QuietOrder
<1>4. CASE \E m \in 1..MaxTraffic, b \in Bots : HandleInboundMessage(m, b)
  BY <1>4, OutsideOrder
<1>5. CASE Write \/ Tick \/ UNCHANGED chatVars
  BY <1>5, OutsideOrder
<1>6. QED
  BY <1>1, <1>2, <1>3, <1>4, <1>5, DrainOrder, StopOrder DEF ChatNext

\* The bus, the outboxes and the channel keep their types: posts that exist,
\* attempts within their limit, every bot in the gate at most once.
THEOREM ChatTypeCorrect == ChatSpec => []ChatTypeOK
<1>1. ChatInit => ChatTyped /\ OrderInv /\ TakenInv
  BY PaceInit, TakenInit, InitChatTyped, InitOrder DEF ChatTyped
<1>2. ChatTyped /\ OrderInv /\ TakenInv /\ [ChatNext]_chatVars =>
          (ChatTyped /\ OrderInv /\ TakenInv)'
  BY NextOrder, PaceNext, TakenNext DEF ChatTyped
<1>3. QED
  BY <1>1, <1>2, SurfaceTyped, PTL DEF ChatSpec

\* The channel reads as the bots speak: posts of a bot in their order, none
\* twice, a gap only where a full mailbox or a failing send left one, and two
\* posts apart by the interval (_sender_loop, _send_with_retry, _drain_mailbox).
THEOREM PostsKeepTheirOrder == ChatSpec => ChannelReadsWell
<1>1. ChatInit => ChatTyped /\ OrderInv
  BY PaceInit, InitChatTyped, InitOrder DEF ChatTyped
<1>2. ChatTyped /\ OrderInv /\ [ChatNext]_chatVars => (ChatTyped /\ OrderInv)'
  BY NextOrder, PaceNext DEF ChatTyped
<1>3. OrderInv => PostsInOrder
  BY DEF OrderInv
<1>4. QED
  BY <1>1, <1>2, <1>3, ChannelIsPaced, PTL DEF ChatSpec, ChannelReadsWell

(***************************************************************************)
(* The line at the gate.                                                   *)
(***************************************************************************)

\* Who has a post to send stands in line, so that the gate comes to it.
EachInLine == \A b \in Bots : place[b] \in Queueing => b \in Range(gate)

\* A line in which everybody waits has a first, who holds the gate or may take it.
LineMoves ==
    /\ EachInLine
    /\ gate # <<>> => place[Head(gate)] \in Queueing
    /\ \A b \in Bots : place[b] \in Holding => gate # <<>> /\ Head(gate) = b

\* A step of one bot that leaves the others where they are.
LEMMA LineKept ==
  ASSUME PaceInv, EachInLine, NEW b \in Bots, NEW next, place' = [place EXCEPT ![b] = next],
         \A c \in Range(gate) : c # b => c \in Range(gate'),
         next \in Queueing => b \in Range(gate')
  PROVE  EachInLine'
BY DEF EachInLine, PaceInv, WaitsLongEnough

LEMMA LineOfOthers ==
  ASSUME PaceInv, gate # <<>>
  PROVE  \A c \in Range(gate) : c # Head(gate) => c \in Range(Tail(gate))
<1> SUFFICES ASSUME NEW c \in Range(gate), c # Head(gate) PROVE c \in Range(Tail(gate))
  OBVIOUS
<1>1. PICK i \in DOMAIN gate : gate[i] = c
  BY DEF Range
<1>2. i # 1 /\ i \in 1..Len(gate) /\ Len(gate) \in Nat
  BY <1>1, GateIsSeq
<1>3. i - 1 \in 1..(Len(gate) - 1) /\ (i - 1) + 1 = i
  BY <1>2
<1>4. Tail(gate)[i - 1] = c /\ i - 1 \in DOMAIN Tail(gate)
  <2>1. DOMAIN Tail(gate) = 1..(Len(gate) - 1)
    BY GateIsSeq
  <2>2. Tail(gate)[i - 1] = gate[(i - 1) + 1]
    BY <1>3, GateIsSeq
  <2>3. QED
    BY <1>1, <1>3, <2>1, <2>2
<1>5. QED
  BY <1>4 DEF Range

LEMMA LineAppended ==
  ASSUME NEW g \in Seq(Bots), NEW b \in Bots
  PROVE  Range(Append(g, b)) = Range(g) \cup {b}
<1>1. Append(g, b) = g \o <<b>> /\ <<b>> \in Seq(Bots)
  OBVIOUS
<1>2. Range(g \o <<b>>) = Range(g) \cup Range(<<b>>)
  BY <1>1, RangeConcatenation
<1>3. Range(<<b>>) = {b}
  BY DEF Range
<1>4. QED
  BY <1>1, <1>2, <1>3

LEMMA NextInLine ==
  ASSUME PaceInv, EachInLine, [ChatNext]_chatVars
  PROVE  EachInLine'
<1>1. CASE UNCHANGED <<place, gate>>
  BY <1>1 DEF EachInLine
<1>2. ASSUME NEW b \in Bots, StartFails(b) \/ Start(b) PROVE EachInLine'
  <2>1. PICK next \in {"down", "idle", "dead"} : place' = [place EXCEPT ![b] = next] /\ gate' = gate
    BY <1>2 DEF StartFails, Start
  <2>2. QED
    BY <2>1, LineKept DEF Queueing
<1>3. ASSUME NEW b \in Bots, TakeItem(b) PROVE EachInLine'
  <2>1. place' = [place EXCEPT ![b] = "waiting"] /\ Range(gate') = Range(gate) \cup {b}
    BY <1>3, GateIsSeq, LineAppended DEF TakeItem
  <2>2. QED
    BY <2>1, LineKept
<1>4. ASSUME NEW b \in Bots, place[b] \in Queueing, gate' = gate,
             NEW next, place' = [place EXCEPT ![b] = next]
      PROVE  EachInLine'
  BY <1>4, LineKept DEF EachInLine
<1>5. ASSUME NEW b \in Bots, place[b] = "sending", DoneWith(b) PROVE EachInLine'
  <2>1. /\ place' = [place EXCEPT ![b] = "idle"] /\ gate' = Tail(gate)
        /\ gate # <<>> /\ Head(gate) = b
    BY <1>5, GateIsSeq DEF DoneWith, LetGo, PaceInv, OneHolder, Holding
  <2>2. \A c \in Range(gate) : c # b => c \in Range(gate')
    BY <2>1, LineOfOthers
  <2>3. QED
    BY <2>1, <2>2, LineKept DEF Queueing
<1>6. ASSUME NEW b \in Bots, BackoffEnds(b) PROVE EachInLine'
  <2>1. /\ place' = [place EXCEPT ![b] = "waiting"] /\ gate' = Append(Tail(gate), b)
        /\ gate # <<>> /\ Head(gate) = b /\ Tail(gate) \in Seq(Bots)
    BY <1>6, GateIsSeq DEF BackoffEnds, TryAgain, PaceInv, OneHolder, Holding
  <2>2. Range(gate') = Range(Tail(gate)) \cup {b}
    BY <2>1, LineAppended
  <2>3. \A c \in Range(gate) : c # b => c \in Range(gate')
    BY <2>1, <2>2, LineOfOthers
  <2>4. QED
    BY <2>1, <2>2, <2>3, LineKept
<1>7. ASSUME NEW b \in Bots, Send(b) PROVE EachInLine'
  <2>1. CASE Pace(b)
    BY <1>4, <2>1 DEF Pace, Hold, Queueing
  <2>2. CASE PaceEnds(b)
    BY <1>4, <2>2 DEF PaceEnds, Queueing
  <2>3. CASE SendSucceeds(b) \/ SendFails(b)
    BY <1>5, <2>3 DEF SendSucceeds, SendFails, GiveUp
  <2>4. CASE RateLimited(b)
    BY <1>4, <1>5, <2>4 DEF RateLimited, GiveUp, Queueing
  <2>5. QED
    BY <1>3, <1>6, <1>7, <2>1, <2>2, <2>3, <2>4 DEF Send
<1>8. CASE StopAll
  BY <1>8 DEF StopAll, EachInLine, Queueing
<1>9. QED
  <2>1. \/ UNCHANGED <<place, gate>> \/ StopAll
        \/ \E b \in Bots : StartFails(b) \/ Start(b) \/ Send(b)
    BY DEF ChatNext, chatVars, Publish, DrainMailbox, Write, HandleInboundMessage, Tick, sender
  <2>2. QED
    BY <1>1, <1>2, <1>7, <1>8, <2>1

\* No sender waits for a gate that nobody has: who has a post stands in line, the
\* first in line is one that holds the gate or may take it, and nobody else
\* holds it (_channel_gate, _send_with_retry, close).  It is what the fair
\* senders of QueuedIsSent rely on.
THEOREM TheLineMoves == ChatSpec => []LineMoves
<1>1. ChatInit => PaceInv /\ EachInLine
  BY PaceInit DEF ChatInit, EachInLine, Queueing
<1>2. PaceInv /\ EachInLine /\ [ChatNext]_chatVars => (PaceInv /\ EachInLine)'
  BY PaceNext, NextInLine
<1>3. PaceInv /\ EachInLine => LineMoves
  BY GateIsSeq DEF LineMoves, PaceInv, OneHolder
<1>4. QED
  BY <1>1, <1>2, <1>3, PTL DEF ChatSpec
=============================================================================
