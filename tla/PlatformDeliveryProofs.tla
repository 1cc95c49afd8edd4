----------------------- MODULE PlatformDeliveryProofs -----------------------
(***************************************************************************)
(* Theorems about PlatformDelivery, for any agents, sockets, messages and  *)
(* calls and any bounds: queued messages and ringing calls are carried by  *)
(* every real connection, no call is left ringing after it is over, and    *)
(* the console is shown each line of a call once and in order.             *)
(***************************************************************************)
EXTENDS PlatformDelivery, SequenceTheorems, FiniteSetTheorems, WellFoundedInduction, TLAPS

-----------------------------------------------------------------------------
(* Sequences and positions.                                                *)

LEMMA SetIsRange ==
  ASSUME NEW S, NEW q \in Seq(S)
  PROVE  ToSet(q) = Range(q) /\ ToSet(q) \subseteq S /\ ToSet(q) = {q[i] : i \in 1 .. Len(q)}
  BY RangeEquality, LenProperties, ElementOfSeq DEF ToSet, Range

\* An element appended joins what is in the sequence.
LEMMA AppendSet ==
  ASSUME NEW S, NEW q \in Seq(S), NEW e \in S
  PROVE  Append(q, e) \in Seq(S) /\ ToSet(Append(q, e)) = ToSet(q) \cup {e}
  <1>1. /\ Append(q, e) \in Seq(S) /\ Len(Append(q, e)) = Len(q) + 1 /\ Len(q) \in Nat
        /\ \A i \in 1 .. Len(q) : Append(q, e)[i] = q[i]
        /\ Append(q, e)[Len(q) + 1] = e
    BY AppendProperties, LenProperties
  <1>2. ToSet(Append(q, e)) = {Append(q, e)[i] : i \in 1 .. Len(q) + 1}
    BY <1>1, SetIsRange
  <1>3. ToSet(q) = {q[i] : i \in 1 .. Len(q)}
    BY SetIsRange
  <1>4. 1 .. Len(q) + 1 = (1 .. Len(q)) \cup {Len(q) + 1}
    BY <1>1
  <1> QED BY <1>1, <1>2, <1>3, <1>4

\* A queue is its head and its tail.
LEMMA TailSet ==
  ASSUME NEW S, NEW q \in Seq(S), q # <<>>
  PROVE  /\ Head(q) \in S /\ Head(q) = q[1] /\ Tail(q) \in Seq(S)
         /\ Len(q) \in Nat \ {0} /\ Len(Tail(q)) = Len(q) - 1
         /\ \A i \in 1 .. Len(q) - 1 : Tail(q)[i] = q[i + 1]
         /\ ToSet(q) = {Head(q)} \cup ToSet(Tail(q))
  <1>1. /\ Head(q) \in S /\ Tail(q) \in Seq(S) /\ Len(Tail(q)) = Len(q) - 1 /\ Len(q) \in Nat \ {0}
        /\ \A i \in 1 .. Len(Tail(q)) : Tail(q)[i] = q[i + 1]
    BY HeadTailProperties, EmptySeq
  <1>2. Head(q) = q[1]
    OBVIOUS
  <1>3. /\ ToSet(q) = {q[i] : i \in 1 .. Len(q)}
        /\ ToSet(Tail(q)) = {Tail(q)[i] : i \in 1 .. Len(Tail(q))}
    <2>1. \A r \in Seq(S) : ToSet(r) = {r[i] : i \in 1 .. Len(r)}
      BY SetIsRange
    <2> QED BY <1>1, <2>1
  <1>4. ASSUME NEW i \in 1 .. Len(q), i # 1
        PROVE  q[i] \in ToSet(Tail(q))
    <2>1. i - 1 \in 1 .. Len(Tail(q)) /\ q[i] = Tail(q)[i - 1]
      BY <1>1, <1>4
    <2> QED BY <1>3, <2>1
  <1>5. ToSet(Tail(q)) \subseteq ToSet(q) /\ Head(q) \in ToSet(q)
    BY <1>1, <1>2, <1>3
  <1>6. ToSet(q) \subseteq {Head(q)} \cup ToSet(Tail(q))
    BY <1>2, <1>3, <1>4
  <1> QED BY <1>1, <1>2, <1>5, <1>6

LEMMA ConcatSet ==
  ASSUME NEW S, NEW q \in Seq(S), NEW r \in Seq(S)
  PROVE  q \o r \in Seq(S) /\ ToSet(q \o r) = ToSet(q) \cup ToSet(r)
  <1>1. \A r1 \in Seq(S) : ToSet(r1) = Range(r1)
    BY SetIsRange
  <1>2. q \o r \in Seq(S)
    BY ConcatProperties
  <1>3. Range(q \o r) = Range(q) \cup Range(r)
    BY RangeConcatenation
  <1> QED BY <1>1, <1>2, <1>3

LEMMA EmptySet ==
  ASSUME NEW S
  PROVE  <<>> \in Seq(S) /\ ToSet(<<>>) = {} /\ DOMAIN <<>> = {}
  BY DEF ToSet

\* What a set is written out as has its elements.
LEMMA WrittenOut ==
  ASSUME NEW S, IsFiniteSet(S), NEW q \in SetToSeqs(S)
  PROVE  q \in Seq(S) /\ ToSet(q) = S
  <1> DEFINE n == Cardinality(S)
  <1>1. n \in Nat
    BY FS_CardinalityType
  <1>2. q \in [1 .. n -> S] /\ \A i, j \in 1 .. n : i # j => q[i] # q[j]
    BY DEF SetToSeqs
  <1>3. q \in Seq(S) /\ Len(q) = n
    BY <1>1, <1>2
  <1>4. IsFiniteSet(1 .. n) /\ Cardinality(1 .. n) = n
    BY <1>1, FS_Interval
  <1>5. q \in Injection(1 .. n, S)
    BY <1>2 DEF Injection, IsInjective
  <1>6. q \in Surjection(1 .. n, S)
    BY <1>4, <1>5, FS_Injection
  <1>7. \A e \in S : \E i \in 1 .. n : q[i] = e
    BY <1>6 DEF Surjection
  <1>8. ToSet(q) = {q[i] : i \in 1 .. n}
    BY <1>3, SetIsRange
  <1> QED BY <1>2, <1>3, <1>7, <1>8

\* A set of numbers with a bound has a greatest one, which Max returns.
LEMMA GreatestOf ==
  ASSUME NEW n \in Nat, NEW I \in SUBSET (0 .. n), I # {}
  PROVE  Max(I) \in I /\ \A i \in I : i <= Max(I)
  <1> DEFINE Below == {pair \in Nat \X Nat : pair[1] < pair[2]}
             R == {k \in Nat : n - k \in I}
  <1>1. IsWellFoundedOn(Below, Nat)
    <2>1. OpToRel(<, Nat) = Below
      BY DEF OpToRel
    <2> QED BY <2>1, NatLessThanWellFounded
  <1>2. R # {}
    <2>1. PICK i \in I : TRUE
      OBVIOUS
    <2>2. n - i \in R
      BY <2>1
    <2> QED BY <2>2
  <1>3. PICK k \in R : \A l \in R : <<l, k>> \notin Below
    BY <1>1, <1>2, WFMin
  <1>4. n - k \in I /\ k \in Nat
    BY <1>3
  <1>5. ASSUME NEW i \in I
        PROVE  n - k >= i
    <2>1. n - i \in R /\ n - i \in Nat
      OBVIOUS
    <2>2. <<n - i, k>> \notin Below
      BY <1>3, <2>1
    <2>3. ~(n - i < k)
      BY <1>4, <2>1, <2>2
    <2> QED BY <1>4, <2>3
  <1>6. \E i \in I : \A j \in I : i >= j
    BY <1>4, <1>5
  <1>7. Max(I) \in I /\ \A j \in I : Max(I) >= j
    BY <1>6 DEF Max
  <1> QED BY <1>7

-----------------------------------------------------------------------------
(* An occurrence that is followed by another one.                          *)

FollowedBy(q, f, g) ==
  \A i \in DOMAIN q : q[i] = f => \E j \in i + 1 .. Len(q) : q[j] = g

LEMMA FollowedAppend ==
  ASSUME NEW S, NEW q \in Seq(S), NEW f, NEW g, NEW h \in S, f # h,
         FollowedBy(q, f, g)
  PROVE  FollowedBy(Append(q, h), f, g)
  <1> DEFINE r == Append(q, h)
  <1>1. /\ r \in Seq(S) /\ Len(r) = Len(q) + 1 /\ Len(q) \in Nat
        /\ \A i \in 1 .. Len(q) : r[i] = q[i]
        /\ r[Len(q) + 1] = h
    BY AppendProperties, LenProperties
  <1>2. DOMAIN r = 1 .. Len(q) + 1 /\ DOMAIN q = 1 .. Len(q)
    BY <1>1, LenProperties
  <1> HIDE DEF r
  <1>3. ASSUME NEW i \in DOMAIN r, r[i] = f
        PROVE  \E j \in i + 1 .. Len(r) : r[j] = g
    <2>1. i \in 1 .. Len(q) /\ q[i] = f
      BY <1>1, <1>2, <1>3
    <2>2. PICK j \in i + 1 .. Len(q) : q[j] = g
      BY <1>2, <2>1 DEF FollowedBy
    <2>3. j \in 1 .. Len(q) /\ j \in i + 1 .. Len(r)
      BY <1>1, <2>1, <2>2
    <2> QED BY <1>1, <2>2, <2>3
  <1> QED BY <1>3 DEF FollowedBy, r

LEMMA FollowedLast ==
  ASSUME NEW S, NEW q \in Seq(S), NEW f, NEW g \in S, f # g
  PROVE  FollowedBy(Append(q, g), f, g)
  <1> DEFINE r == Append(q, g)
  <1>1. /\ r \in Seq(S) /\ Len(r) = Len(q) + 1 /\ Len(q) \in Nat
        /\ r[Len(q) + 1] = g
    BY AppendProperties, LenProperties
  <1>2. DOMAIN r = 1 .. Len(q) + 1
    BY <1>1, LenProperties
  <1> HIDE DEF r
  <1>3. ASSUME NEW i \in DOMAIN r, r[i] = f
        PROVE  \E j \in i + 1 .. Len(r) : r[j] = g
    <2>1. i # Len(q) + 1
      BY <1>1, <1>3
    <2>2. Len(q) + 1 \in i + 1 .. Len(r)
      BY <1>1, <1>2, <2>1
    <2> QED BY <1>1, <2>2
  <1> QED BY <1>3 DEF FollowedBy, r

LEMMA FollowedTail ==
  ASSUME NEW S, NEW q \in Seq(S), NEW f, NEW g, q # <<>>, FollowedBy(q, f, g)
  PROVE  FollowedBy(Tail(q), f, g)
  <1> DEFINE r == Tail(q)
  <1>1. /\ r \in Seq(S) /\ Len(r) = Len(q) - 1 /\ Len(q) \in Nat \ {0}
        /\ \A i \in 1 .. Len(q) - 1 : r[i] = q[i + 1]
    BY TailSet
  <1>2. DOMAIN r = 1 .. Len(q) - 1 /\ DOMAIN q = 1 .. Len(q)
    BY <1>1, LenProperties
  <1> HIDE DEF r
  <1>3. ASSUME NEW i \in DOMAIN r, r[i] = f
        PROVE  \E j \in i + 1 .. Len(r) : r[j] = g
    <2>1. i + 1 \in 1 .. Len(q) /\ q[i + 1] = f
      BY <1>1, <1>2, <1>3
    <2>2. PICK j \in i + 2 .. Len(q) : q[j] = g
      <3>1. \E j \in (i + 1) + 1 .. Len(q) : q[j] = g
        BY <1>2, <2>1 DEF FollowedBy
      <3>2. (i + 1) + 1 = i + 2
        BY <1>1, <1>2
      <3> QED BY <3>1, <3>2
    <2>3. j - 1 \in i + 1 .. Len(r) /\ r[j - 1] = q[j]
      <3>1. j - 1 \in 1 .. Len(q) - 1 /\ (j - 1) + 1 = j
        BY <1>1, <1>2, <2>2
      <3>2. r[j - 1] = q[(j - 1) + 1]
        BY <1>1, <3>1
      <3> QED BY <1>1, <1>2, <2>2, <3>1, <3>2
    <2> QED BY <2>2, <2>3
  <1> QED BY <1>3 DEF FollowedBy, r

LEMMA FollowedAbsent ==
  ASSUME NEW q, NEW f, NEW g, f \notin ToSet(q)
  PROVE  FollowedBy(q, f, g)
  BY DEF FollowedBy, ToSet

-----------------------------------------------------------------------------
(* Parties, frames and the sockets they go to.                             *)

Frames == [id : Ids, kind : FrameKinds]
Records == [state : CallStates, answered : BOOLEAN, lines : Seq(Parties)]

LEMMA PartiesOf ==
  ASSUME NEW c \in Calls
  PROVE  /\ c \in Ids /\ From[c] \in Parties /\ To[c] \in Agents \cup {Human}
         /\ AgentParty(c) \in Agents /\ AgentParty(c) # Human
         /\ \/ From[c] = Human /\ To[c] = AgentParty(c)
            \/ From[c] = AgentParty(c) /\ To[c] = Human
  <1>1. c \in Ids /\ From[c] \in Parties /\ To[c] \in Agents \cup {Human}
    BY PartiesAssumption DEF Ids
  <1>2. PICK a \in Agents : {From[c], To[c]} = {Human, a}
    BY PartiesAssumption
  <1>3. a # Human
    BY PartiesAssumption
  <1>4. \/ From[c] = Human /\ To[c] = a
        \/ From[c] = a /\ To[c] = Human
    BY <1>2, <1>3
  <1> QED BY <1>1, <1>3, <1>4 DEF AgentParty

LEMMA FrameFacts ==
  /\ \A m \in Msgs : Sms(m) \in Frames /\ Sms(m).id = m /\ Sms(m).kind = "sms"
  /\ \A c \in Calls, kind \in FrameKinds :
       Frame(c, kind) \in Frames /\ Frame(c, kind).id = c /\ Frame(c, kind).kind = kind
  BY DEF Frames, Ids, Sms, Frame, FrameKinds

LEMMA TargetsFacts ==
  ASSUME NEW a, NEW id
  PROVE  /\ Targets(a, id \in ByName) \in SUBSET Live(a)
         /\ id \notin ByName => Targets(a, id \in ByName) = Live(a)
  BY DEF Targets

LEMMA LiveFacts ==
  ASSUME NEW a, NEW s \in Sockets
  PROVE  s \in Live(a) <=> AgentOf[s] = a /\ stage[s] = "live"
  BY DEF Live

LEMMA SentFacts ==
  ASSUME TypeOK, NEW S, NEW f \in Frames
  PROVE  /\ Sent(S, f) \in [Sockets -> Seq(Frames)]
         /\ \A s \in Sockets :
              /\ s \in S /\ up[s] => Sent(S, f)[s] = Append(down[s], f)
              /\ ~(s \in S /\ up[s]) => Sent(S, f)[s] = down[s]
  <1>1. \A s \in Sockets : down[s] \in Seq(Frames)
    BY DEF TypeOK, Frames
  <1>2. \A s \in Sockets : Append(down[s], f) \in Seq(Frames)
    BY <1>1, AppendProperties
  <1> QED BY <1>1, <1>2 DEF Sent

LEMMA RecordOfLines ==
  ASSUME NEW r \in Records, NEW l
  PROVE  [r EXCEPT !.lines = l] = [state |-> r.state, answered |-> r.answered, lines |-> l]
  BY DEF Records

\* The records a call can be given.
LEMMA RecordFacts ==
  ASSUME TypeOK, NEW c \in Calls, NEW p \in Parties
  PROVE  /\ calls[c] \in Records
         /\ Invited(c) \in Records /\ Spoken(c, p) \in Records /\ Closed(c) \in Records
         /\ calls[c].state = "none" => Invited(c).state = "ringing"
         /\ Invited(c).lines = calls[c].lines /\ Closed(c).lines = calls[c].lines
         /\ Spoken(c, p).lines = Append(calls[c].lines, p)
         /\ Spoken(c, p).state = IF calls[c].state = "ringing" THEN "active" ELSE calls[c].state
         /\ Closed(c).state \in {"ended", "missed"}
  <1>1. calls[c] \in Records
    BY DEF TypeOK, Records
  <1>2. Append(calls[c].lines, p) \in Seq(Parties)
    BY <1>1, AppendProperties DEF Records
  <1>3. Spoken(c, p) = [state |-> IF calls[c].state = "ringing" THEN "active" ELSE calls[c].state,
                        answered |-> TRUE, lines |-> Append(calls[c].lines, p)]
    <2> DEFINE said == [calls[c] EXCEPT !.lines = Append(@, p)]
    <2>1. said = [state |-> calls[c].state, answered |-> calls[c].answered,
                  lines |-> Append(calls[c].lines, p)]
      BY <1>1, RecordOfLines
    <2>2. Spoken(c, p) = Answered(c, said)
      BY DEF Spoken
    <2>3. /\ said.state = calls[c].state /\ said.lines = Append(calls[c].lines, p)
          /\ DOMAIN said = {"state", "answered", "lines"}
      BY <2>1
    <2> HIDE DEF said
    <2>4. Answered(c, said) = [said EXCEPT !.answered = TRUE,
                                 !.state = IF said.state = "ringing" THEN "active" ELSE said.state]
      BY DEF Answered
    <2> QED BY <2>1, <2>2, <2>3, <2>4
  <1>4. Spoken(c, p) \in Records
    BY <1>1, <1>2, <1>3 DEF Records, CallStates
  <1> QED BY <1>1, <1>3, <1>4 DEF Records, Invited, Closed, CallStates

\* An envelope of a call: what is recorded, and who is handed the frame.
LEMMA RouteCallFacts ==
  ASSUME TypeOK, NEW c \in Calls, NEW p \in {Human, AgentParty(c)}, NEW kind \in FrameKinds,
         NEW record \in Records, RouteCall(c, p, kind, record)
  PROVE  /\ calls' \in [Calls -> Records] /\ calls'[c] = record
         /\ \A d \in Calls \ {c} : calls'[d] = calls[d]
         /\ p # Human => down' = down
         /\ p = Human => down' = Sent(Targets(AgentParty(c), c \in ByName), Frame(c, kind))
         /\ down' \in [Sockets -> Seq(Frames)]
  <1>1. calls \in [Calls -> Records] /\ down \in [Sockets -> Seq(Frames)]
    BY DEF TypeOK, Records, Frames
  <1>2. calls' = [calls EXCEPT ![c] = record]
    BY DEF RouteCall
  <1>3. p # Human => down' = down
    BY DEF RouteCall
  <1>4. p = Human => down' = Sent(Targets(AgentParty(c), c \in ByName), Frame(c, kind))
    <2>1. AgentParty(c) # Human /\ (IF To[c] = Human THEN From[c] ELSE To[c]) = AgentParty(c)
      BY PartiesOf
    <2> QED BY <2>1 DEF RouteCall
  <1>5. Sent(Targets(AgentParty(c), c \in ByName), Frame(c, kind)) \in [Sockets -> Seq(Frames)]
    BY FrameFacts, SentFacts
  <1> QED BY <1>1, <1>2, <1>3, <1>4, <1>5

\* The position of the latest open call.
LEMMA LatestFacts ==
  ASSUME TypeOK, NEW p
  PROVE  LatestOpenCall(p) \in Calls \cup {None}
  <1>1. opened \in Seq(Calls) /\ DOMAIN opened = 1 .. Len(opened) /\ Len(opened) \in Nat
    BY LenProperties DEF TypeOK
  <1>2. OpenCalls(p) \in SUBSET (0 .. Len(opened)) /\ OpenCalls(p) \subseteq 1 .. Len(opened)
    BY <1>1 DEF OpenCalls, CallsOf
  <1>3. CASE OpenCalls(p) = {}
    BY <1>3 DEF LatestOpenCall
  <1>4. CASE OpenCalls(p) # {}
    <2>1. Max(OpenCalls(p)) \in 1 .. Len(opened)
      BY <1>1, <1>2, <1>4, GreatestOf
    <2> QED BY <1>1, <1>4, <2>1, ElementOfSeq DEF LatestOpenCall
  <1> QED BY <1>3, <1>4

\* The lines a poll shows and where it leaves the cursor.
LEMMA ShownFacts ==
  ASSUME TypeOK, NEW c \in Calls, NEW seq \in 0 .. Len(calls[c].lines),
         NEW lines \in LinesAfter(c, seq)
  PROVE  /\ lines \in Seq(Nat) /\ ToSet(lines) = ForeignAfter(c, seq)
         /\ \A i, j \in DOMAIN lines : i < j => lines[i] < lines[j]
         /\ LastForeign(c, seq) \in seq .. Len(calls[c].lines)
         /\ \A i \in ForeignAfter(c, seq) : i <= LastForeign(c, seq)
         /\ ForeignAfter(c, seq) = {i \in seq + 1 .. LastForeign(c, seq) : calls[c].lines[i] # Human}
  <1> DEFINE n == Len(calls[c].lines)
             F == ForeignAfter(c, seq)
  <1>1. n \in Nat /\ seq \in Nat /\ seq <= n
    <2>1. calls[c].lines \in Seq(Parties)
      BY DEF TypeOK
    <2> QED BY <2>1, LenProperties
  <1>2. F \subseteq 0 .. n /\ F \subseteq seq + 1 .. n /\ F \subseteq Nat
    BY <1>1 DEF ForeignAfter
  <1>3. IsFiniteSet(F)
    <2>1. IsFiniteSet(0 .. n)
      <3> HIDE DEF n
      <3> QED BY <1>1, FS_Interval
    <2> QED BY <1>2, <2>1, FS_Subset
  <1>4. lines \in SetToSeqs(F) /\ \A i, j \in DOMAIN lines : i < j => lines[i] < lines[j]
    BY DEF LinesAfter
  <1>5. lines \in Seq(F) /\ ToSet(lines) = F
    BY <1>3, <1>4, WrittenOut
  <1>6. lines \in Seq(Nat)
    BY <1>2, <1>5, SeqMonotonic
  <1>7. {seq} \cup F \in SUBSET (0 .. n) /\ {seq} \cup F # {}
    BY <1>1, <1>2
  <1>8. Max({seq} \cup F) \in {seq} \cup F /\ \A i \in {seq} \cup F : i <= Max({seq} \cup F)
    BY <1>1, <1>7, GreatestOf
  <1>9. LastForeign(c, seq) \in seq .. n /\ \A i \in F : i <= LastForeign(c, seq)
    <2>1. LastForeign(c, seq) = Max({seq} \cup F)
      BY DEF LastForeign
    <2> DEFINE last == Max({seq} \cup F)
    <2>2. last = LastForeign(c, seq) /\ last \in {seq} \cup F /\ \A i \in {seq} \cup F : i <= last
      BY <1>8, <2>1
    <2> HIDE DEF n, F, last
    <2>3. last \in Nat /\ last <= n /\ seq <= last
      BY <1>1, <1>2, <2>2
    <2>4. last \in seq .. n
      BY <1>1, <2>3
    <2>5. \A i \in F : i <= last
      BY <2>2
    <2> QED BY <2>2, <2>4, <2>5
  <1>10. F = {i \in seq + 1 .. LastForeign(c, seq) : calls[c].lines[i] # Human}
    BY <1>1, <1>2, <1>9 DEF ForeignAfter
  <1> QED BY <1>4, <1>5, <1>6, <1>9, <1>10

-----------------------------------------------------------------------------
(* The variables stay in their types.                                      *)

LEMMA SmallFacts ==
  /\ None \notin Calls /\ Human \notin Agents /\ Peer # Human
  /\ Msgs \cap Calls = {} /\ Msgs \subseteq Ids /\ Calls \subseteq Ids
  /\ WithFiles \subseteq Msgs
  /\ \A s \in Sockets : AgentOf[s] \in Agents
  /\ \A m \in Msgs : To[m] \in Agents \cup {Human}
  /\ MaxFaults \in Nat
  BY PartiesAssumption DEF Ids

\* A queue written out is a sequence of the messages waiting for the agent.
LEMMA QueueFacts ==
  ASSUME NEW a, NEW queue \in LoginQueue(a)
  PROVE  queue \in Seq(Frames) /\ ToSet(queue) = {Sms(m) : m \in Undelivered(a)}
  <1> DEFINE S == {Sms(m) : m \in Undelivered(a)}
  <1>1. Undelivered(a) \subseteq Msgs
    BY DEF Undelivered
  <1>2. IsFiniteSet(Undelivered(a))
    BY <1>1, PartiesAssumption, FS_Subset
  <1>3. IsFiniteSet(S)
    <2>1. [m \in Undelivered(a) |-> Sms(m)] \in Surjection(Undelivered(a), S)
      BY DEF Surjection
    <2> QED BY <1>2, <2>1, FS_Surjection
  <1>4. S \subseteq Frames
    BY <1>1, FrameFacts
  <1>5. queue \in SetToSeqs(S)
    BY DEF LoginQueue
  <1>6. queue \in Seq(S) /\ ToSet(queue) = S
    BY <1>3, <1>5, WrittenOut
  <1> QED BY <1>4, <1>6, SeqMonotonic

LEMMA RedeliveredFacts ==
  ASSUME TypeOK, NEW a
  PROVE  /\ RedeliveredInvite(a) \in Seq(Frames)
         /\ \/ RedeliveredInvite(a) = <<>>
            \/ \E c \in Calls : /\ RedeliveredInvite(a) = <<Frame(c, "invite")>>
                                /\ c = LatestOpenCall(a) /\ To[c] = a /\ calls[c].state = "ringing"
  <1> DEFINE c == LatestOpenCall(a)
  <1>1. c \in Calls \cup {None}
    BY LatestFacts
  <1>2. CASE c # None /\ To[c] = a /\ calls[c].state = "ringing"
    <2>1. c \in Calls /\ Frame(c, "invite") \in Frames
      BY <1>1, <1>2, FrameFacts DEF FrameKinds
    <2>2. RedeliveredInvite(a) = <<Frame(c, "invite")>>
      BY <1>2 DEF RedeliveredInvite
    <2> QED BY <1>2, <2>1, <2>2
  <1>3. CASE ~(c # None /\ To[c] = a /\ calls[c].state = "ringing")
    <2>1. RedeliveredInvite(a) = <<>>
      BY <1>3 DEF RedeliveredInvite
    <2> QED BY <2>1, EmptySet
  <1> QED BY <1>2, <1>3

\* Steps of a socket, apart from its queue.
LEMMA TypedSocket ==
  ASSUME TypeOK, NEW s \in Sockets,
         Connect(s) \/ AuthResponse(s) \/ Close(s) \/ Claim(s)
  PROVE  TypeOK'
  <1>1. CASE Connect(s)
    BY <1>1 DEF TypeOK, Connect, Stages, database, daemon, console
  <1>2. CASE AuthResponse(s)
    BY <1>2 DEF TypeOK, AuthResponse, Stages, database, daemon, console
  <1>3. CASE Close(s)
    <2>1. acks' \in [Sockets -> Seq(Ids)]
      BY <1>3, EmptySet DEF TypeOK, Close
    <2> QED BY <1>3, <2>1 DEF TypeOK, Close, Stages, database, daemon, console
  <1>4. CASE Claim(s)
    BY <1>4 DEF TypeOK, Claim, database, daemon, console
  <1> QED BY <1>1, <1>2, <1>3, <1>4

LEMMA TypedVerified ==
  ASSUME TypeOK, NEW s \in Sockets, Verified(s)
  PROVE  TypeOK'
  <1>1. PICK queue \in LoginQueue(AgentOf[s]) :
          down' = [down EXCEPT ![s] = IF up[s] THEN @ \o queue \o RedeliveredInvite(AgentOf[s]) ELSE @]
    BY DEF Verified
  <1>2. down[s] \in Seq(Frames) /\ down \in [Sockets -> Seq(Frames)]
    BY DEF TypeOK, Frames
  <1>3. down[s] \o queue \in Seq(Frames)
    BY <1>2, QueueFacts, ConcatProperties
  <1>4. down[s] \o queue \o RedeliveredInvite(AgentOf[s]) \in Seq(Frames)
    BY <1>3, RedeliveredFacts, ConcatProperties
  <1>5. down' \in [Sockets -> Seq(Frames)]
    BY <1>1, <1>2, <1>4
  <1>6. owns' \in [Sockets -> BOOLEAN] /\ stage' \in [Sockets -> Stages]
    BY DEF TypeOK, Verified, Stages
  <1> QED BY <1>5, <1>6 DEF TypeOK, Verified, Frames, database, daemon, console

LEMMA TypedLosses ==
  ASSUME TypeOK, DaemonStops \/ \E s \in Sockets : Drop(s)
  PROVE  TypeOK'
  <1>1. ASSUME NEW s \in Sockets, Drop(s)
        PROVE  TypeOK'
    <2>1. PICK n \in 0 .. Len(acks[s]) : acks' = [acks EXCEPT ![s] = SubSeq(@, 1, n)]
      BY <1>1 DEF Drop
    <2>2. acks[s] \in Seq(Ids) /\ Len(acks[s]) \in Nat
      BY LenProperties DEF TypeOK
    <2>3. \A i \in 1 .. n : acks[s][i] \in Ids
      BY <2>2, ElementOfSeq
    <2>4. SubSeq(acks[s], 1, n) \in Seq(Ids)
      BY <2>2, <2>3, SubSeqProperties
    <2>5. acks' \in [Sockets -> Seq(Ids)]
      BY <2>1, <2>4 DEF TypeOK
    <2>6. down' \in [Sockets -> Seq(Frames)] /\ up' \in [Sockets -> BOOLEAN]
      BY <1>1, EmptySet DEF TypeOK, Drop, Frames
    <2>7. faults' \in 0 .. MaxFaults
      BY <1>1, SmallFacts DEF TypeOK, Drop
    <2> QED BY <1>1, <2>5, <2>6, <2>7 DEF TypeOK, Drop, Frames, database, daemon, console
  <1>2. CASE DaemonStops
    <2>1. down' \in [Sockets -> Seq(Frames)] /\ up' \in [Sockets -> BOOLEAN]
      BY <1>2, EmptySet DEF DaemonStops
    <2>2. faults' \in 0 .. MaxFaults
      BY <1>2, SmallFacts DEF TypeOK, DaemonStops
    <2>3. lost' \subseteq Msgs /\ fetching' \subseteq WithFiles
      BY <1>2, SmallFacts DEF TypeOK, DaemonStops
    <2> QED BY <1>2, <2>1, <2>2, <2>3 DEF TypeOK, DaemonStops, Frames, database, console
  <1> QED BY <1>1, <1>2

LEMMA TypedMessage ==
  ASSUME TypeOK, NEW m \in Msgs, Send(m) \/ Fetched(m)
  PROVE  TypeOK'
  <1>1. CASE Send(m)
    <2>1. down' \in [Sockets -> Seq(Frames)]
      BY <1>1, FrameFacts, SentFacts DEF Send
    <2>2. msgs' \in [Msgs -> {"none", "queued", "delivered"}]
      BY <1>1 DEF TypeOK, Send
    <2> QED BY <1>1, <2>1, <2>2 DEF TypeOK, Send, Frames, daemon, console
  <1>2. CASE Fetched(m)
    BY <1>2 DEF TypeOK, Fetched, database, sockets, console
  <1> QED BY <1>1, <1>2

LEMMA TypedReceive ==
  ASSUME TypeOK, Routed, NEW s \in Sockets, Receive(s)
  PROVE  TypeOK'
  <1> DEFINE f == Head(down[s])
  <1>1. down[s] \in Seq(Frames) /\ down[s] # <<>> /\ acks[s] \in Seq(Ids)
    BY DEF TypeOK, Receive, Frames
  <1>2. f \in Frames /\ f \in ToSet(down[s]) /\ Tail(down[s]) \in Seq(Frames)
    BY <1>1, TailSet
  <1>3. Fits(f, s) /\ f.id \in Ids /\ f.kind \in FrameKinds
    BY <1>2 DEF Routed, Frames
  <1>4. /\ acks' = [acks EXCEPT ![s] = Append(@, f.id)]
        /\ down' = [down EXCEPT ![s] = Tail(@)]
        /\ fetching' = IF f.id \in WithFiles THEN fetching \cup {f.id} ELSE fetching
        /\ kept' = IF f.kind = "sms" /\ f.id \notin WithFiles THEN kept \cup {f.id} ELSE kept
        /\ rung' = IF f.kind = "invite" THEN rung \cup {f.id} ELSE rung
        /\ hung' = IF f.kind = "close" THEN hung \cup {f.id} ELSE hung
    BY DEF Receive
  <1> HIDE DEF f
  <1>5. acks' \in [Sockets -> Seq(Ids)]
    BY <1>1, <1>3, <1>4, AppendProperties DEF TypeOK
  <1>6. down' \in [Sockets -> Seq(Frames)]
    BY <1>2, <1>4 DEF TypeOK, Frames
  <1>7. /\ f.kind = "sms" => f.id \in Msgs
        /\ f.kind # "sms" => f.id \in Calls
    BY <1>3 DEF Fits
  <1>8. fetching' \subseteq WithFiles /\ kept' \subseteq Msgs /\ rung' \subseteq Calls /\ hung' \subseteq Calls
    BY <1>4, <1>7 DEF TypeOK
  <1> QED BY <1>5, <1>6, <1>8 DEF TypeOK, Receive, Frames, database, console

LEMMA TypedMarks ==
  ASSUME TypeOK, ConsoleInbox \/ Befriend \/ \E s \in Sockets : Ack(s)
  PROVE  TypeOK'
  <1>1. ASSUME NEW s \in Sockets, Ack(s)
        PROVE  TypeOK'
    <2>1. acks[s] \in Seq(Ids) /\ acks[s] # <<>>
      BY <1>1 DEF TypeOK, Ack
    <2>2. Tail(acks[s]) \in Seq(Ids)
      BY <2>1, TailSet
    <2>3. acks' \in [Sockets -> Seq(Ids)]
      BY <1>1, <2>2 DEF TypeOK, Ack
    <2>4. msgs' \in [Msgs -> {"none", "queued", "delivered"}]
      BY <1>1 DEF TypeOK, Ack, Marked
    <2> QED BY <1>1, <2>3, <2>4 DEF TypeOK, Ack, daemon, console
  <1>2. CASE ConsoleInbox
    BY <1>2 DEF TypeOK, ConsoleInbox, sockets, daemon, console
  <1>3. CASE Befriend
    <2>1. friends' \in BOOLEAN /\ faults' \in 0 .. MaxFaults
      BY <1>3, PartiesAssumption DEF TypeOK, Befriend
    <2> QED BY <1>3, <2>1 DEF TypeOK, Befriend, database, sockets, daemon, console
  <1> QED BY <1>1, <1>2, <1>3

\* A call's step: the record, the queues and the cursor.
LEMMA TypedCall ==
  ASSUME TypeOK, NEW c \in Calls, NEW p \in {Human, AgentParty(c)}, NEW kind \in FrameKinds,
         NEW record \in Records, RouteCall(c, p, kind, record),
         opened' \in Seq(Calls), shown' \in Seq(Nat),
         cursor' \in {None} \cup [call : Calls, seq : Nat, sawInvite : BOOLEAN],
         cursor' # None => cursor'.seq <= Len(calls'[cursor'.call].lines)
  PROVE  TypeOK'
  <1>1. calls' \in [Calls -> Records] /\ down' \in [Sockets -> Seq(Frames)]
    BY RouteCallFacts
  <1>2. /\ UNCHANGED <<msgs, friends, stage, owns, up, acks, daemon, faults>>
    BY DEF RouteCall
  <1> QED BY <1>1, <1>2 DEF TypeOK, Records, Frames, daemon

\* A new cursor of a call has no lines behind it.
LEMMA NewCursorFacts ==
  ASSUME NEW c \in Calls, NEW saw \in BOOLEAN
  PROVE  /\ NewCursor(c, saw) \in [call : Calls, seq : Nat, sawInvite : BOOLEAN]
         /\ NewCursor(c, saw).call = c /\ NewCursor(c, saw).seq = 0
  BY DEF NewCursor

\* The cursor stays within its call's lines when lines are only added.
LEMMA CursorFits ==
  ASSUME TypeOK, NEW c \in Calls, NEW record \in Records, cursor' = cursor,
         calls'[c] = record, \A d \in Calls \ {c} : calls'[d] = calls[d],
         record.lines = calls[c].lines \/ \E p \in Parties : record.lines = Append(calls[c].lines, p)
  PROVE  /\ Len(calls[c].lines) <= Len(record.lines)
         /\ cursor' # None => cursor'.seq <= Len(calls'[cursor'.call].lines)
  <1>1. \A d \in Calls : calls[d].lines \in Seq(Parties) /\ Len(calls[d].lines) \in Nat
    <2>1. \A d \in Calls : calls[d].lines \in Seq(Parties)
      BY DEF TypeOK
    <2> QED BY <2>1, LenProperties
  <1>2. Len(record.lines) \in Nat /\ Len(calls[c].lines) <= Len(record.lines)
    BY <1>1, AppendProperties
  <1>3. cursor # None =>
          cursor.call \in Calls /\ cursor.seq \in Nat /\ cursor.seq <= Len(calls[cursor.call].lines)
    BY DEF TypeOK
  <1> QED BY <1>1, <1>2, <1>3

LEMMA TypedCalls ==
  ASSUME TypeOK, NEW c \in Calls,
         ConsoleCall(c) \/ AgentCall(c) \/ AgentSays(c) \/ AgentHangsUp(c)
  PROVE  TypeOK'
  <1>1. /\ AgentParty(c) \in Parties /\ Human \in Parties /\ From[c] \in {Human, AgentParty(c)}
        /\ {"invite", "frame", "close"} \subseteq FrameKinds
    BY PartiesOf DEF Parties, FrameKinds
  <1>2. /\ opened \in Seq(Calls) /\ shown \in Seq(Nat)
        /\ cursor \in {None} \cup [call : Calls, seq : Nat, sawInvite : BOOLEAN]
    BY DEF TypeOK
  <1>3. CASE ConsoleCall(c)
    <2>1. RouteCall(c, Human, "invite", Invited(c)) /\ Invited(c) \in Records
      BY <1>1, <1>3, RecordFacts DEF ConsoleCall
    <2>2. opened' \in Seq(Calls) /\ shown' \in Seq(Nat)
      BY <1>2, <1>3, AppendProperties, EmptySet DEF ConsoleCall
    <2>3. cursor' \in [call : Calls, seq : Nat, sawInvite : BOOLEAN] /\ cursor'.call = c /\ cursor'.seq = 0
      BY <1>3, NewCursorFacts DEF ConsoleCall
    <2>4. cursor'.seq <= Len(calls'[cursor'.call].lines)
      <3>1. calls'[c] = Invited(c) /\ Invited(c).lines \in Seq(Parties)
        BY <1>1, <2>1, RouteCallFacts DEF Records
      <3> QED BY <2>3, <3>1, LenProperties
    <2> QED BY <1>1, <2>1, <2>2, <2>3, <2>4, TypedCall
  <1>4. ASSUME NEW p \in {Human, AgentParty(c)}, NEW kind \in FrameKinds, NEW record \in Records,
               RouteCall(c, p, kind, record), opened' \in Seq(Calls), UNCHANGED console,
               record.lines = calls[c].lines \/ \E q \in Parties : record.lines = Append(calls[c].lines, q)
        PROVE  TypeOK'
    <2>1. calls'[c] = record /\ \A d \in Calls \ {c} : calls'[d] = calls[d]
      BY <1>4, RouteCallFacts
    <2>2. cursor' = cursor /\ shown' = shown
      BY <1>4 DEF console
    <2>3. cursor' # None => cursor'.seq <= Len(calls'[cursor'.call].lines)
      BY <1>4, <2>1, <2>2, CursorFits
    <2>4. shown' \in Seq(Nat) /\ cursor' \in {None} \cup [call : Calls, seq : Nat, sawInvite : BOOLEAN]
      BY <1>2, <2>2
    <2> QED BY <1>4, <2>3, <2>4, TypedCall
  <1>5. CASE AgentCall(c)
    <2>1. RouteCall(c, From[c], "invite", Invited(c)) /\ UNCHANGED console
      BY <1>5 DEF AgentCall
    <2>2. Invited(c) \in Records /\ Invited(c).lines = calls[c].lines
      BY <1>1, RecordFacts
    <2>3. opened' \in Seq(Calls)
      BY <1>2, <1>5, AppendProperties DEF AgentCall
    <2> QED BY <1>1, <1>4, <2>1, <2>2, <2>3
  <1>6. CASE AgentSays(c)
    <2>1. RouteCall(c, AgentParty(c), "frame", Spoken(c, AgentParty(c))) /\ UNCHANGED console
      BY <1>6 DEF AgentSays
    <2>2. /\ Spoken(c, AgentParty(c)) \in Records
          /\ Spoken(c, AgentParty(c)).lines = Append(calls[c].lines, AgentParty(c))
      BY <1>1, RecordFacts
    <2>3. opened' \in Seq(Calls)
      BY <1>2, <1>6 DEF AgentSays
    <2> QED BY <1>1, <1>4, <2>1, <2>2, <2>3
  <1>7. CASE AgentHangsUp(c)
    <2>1. RouteCall(c, AgentParty(c), "close", Closed(c)) /\ UNCHANGED console
      BY <1>7 DEF AgentHangsUp
    <2>2. Closed(c) \in Records /\ Closed(c).lines = calls[c].lines
      BY <1>1, RecordFacts
    <2>3. opened' \in Seq(Calls)
      BY <1>2, <1>7 DEF AgentHangsUp
    <2> QED BY <1>1, <1>4, <2>1, <2>2, <2>3
  <1> QED BY <1>3, <1>5, <1>6, <1>7

\* What a poll looks at: its cursor, or a new one for the latest open call.
At == IF cursor # None THEN cursor ELSE NewCursor(LatestOpenCall(Human), FALSE)
Before == IF cursor # None THEN shown ELSE <<>>

LEMMA AtFacts ==
  ASSUME TypeOK, cursor # None \/ LatestOpenCall(Human) # None
  PROVE  /\ At \in [call : Calls, seq : Nat, sawInvite : BOOLEAN]
         /\ Len(calls[At.call].lines) \in Nat /\ At.seq \in 0 .. Len(calls[At.call].lines)
         /\ Before \in Seq(Nat)
  <1>1. CASE cursor # None
    <2>1. /\ At = cursor /\ Before = shown
      BY <1>1 DEF At, Before
    <2>2. /\ cursor \in [call : Calls, seq : Nat, sawInvite : BOOLEAN]
          /\ cursor.seq <= Len(calls[cursor.call].lines) /\ shown \in Seq(Nat)
      BY <1>1 DEF TypeOK
    <2>3. calls[cursor.call].lines \in Seq(Parties)
      BY <2>2 DEF TypeOK
    <2> QED BY <2>1, <2>2, <2>3, LenProperties
  <1>2. CASE cursor = None
    <2> DEFINE c == LatestOpenCall(Human)
    <2>1. c \in Calls
      BY <1>2, LatestFacts
    <2>2. At = NewCursor(c, FALSE) /\ Before = <<>>
      BY <1>2 DEF At, Before
    <2>3. calls[c].lines \in Seq(Parties)
      BY <2>1 DEF TypeOK
    <2>4. NewCursor(c, FALSE) \in [call : Calls, seq : Nat, sawInvite : BOOLEAN]
          /\ NewCursor(c, FALSE).call = c /\ NewCursor(c, FALSE).seq = 0
      BY <2>1, NewCursorFacts
    <2>5. Len(calls[c].lines) \in Nat
      BY <2>3, LenProperties
    <2> HIDE DEF c
    <2>6. At.call = c /\ At.seq = 0
      BY <2>2, <2>4
    <2>8. 0 \in 0 .. Len(calls[c].lines)
      BY <2>5
    <2>7. At \in [call : Calls, seq : Nat, sawInvite : BOOLEAN]
      BY <2>2, <2>4
    <2> QED BY <2>2, <2>5, <2>6, <2>7, <2>8, EmptySet
  <1> QED BY <1>1, <1>2

\* What a poll of a call that goes on does.
LEMMA PollFacts ==
  ASSUME TypeOK, ConsolePoll
  PROVE  /\ cursor # None \/ LatestOpenCall(Human) # None
         /\ \/ Over(At.call) /\ shown' = <<>> /\ cursor' = None
            \/ /\ ~Over(At.call)
               /\ \E lines \in LinesAfter(At.call, At.seq) : shown' = Before \o lines
               /\ cursor' = [call |-> At.call, seq |-> LastForeign(At.call, At.seq), sawInvite |-> TRUE]
         /\ UNCHANGED <<database, friends, sockets, daemon, faults>>
  BY DEF ConsolePoll, At, Before

LEMMA TypedPoll ==
  ASSUME TypeOK, ConsolePoll
  PROVE  TypeOK'
  <1>1. UNCHANGED <<database, friends, sockets, daemon, faults>>
    BY PollFacts
  <1>2. CASE shown' = <<>> /\ cursor' = None
    BY <1>1, <1>2, EmptySet DEF TypeOK, database, sockets, daemon
  <1>3. ASSUME NEW lines \in LinesAfter(At.call, At.seq), shown' = Before \o lines,
               cursor' = [call |-> At.call, seq |-> LastForeign(At.call, At.seq), sawInvite |-> TRUE]
        PROVE  TypeOK'
    <2>1. /\ At.call \in Calls /\ At.seq \in 0 .. Len(calls[At.call].lines) /\ Before \in Seq(Nat)
          /\ Len(calls[At.call].lines) \in Nat
      BY AtFacts, PollFacts
    <2>2. lines \in Seq(Nat) /\ LastForeign(At.call, At.seq) \in At.seq .. Len(calls[At.call].lines)
      BY <1>3, <2>1, ShownFacts
    <2>3. shown' \in Seq(Nat)
      BY <1>3, <2>1, <2>2, ConcatProperties
    <2>4. LastForeign(At.call, At.seq) \in Nat
      BY <2>1, <2>2
    <2>5. cursor'.seq <= Len(calls'[cursor'.call].lines)
      BY <1>1, <1>3, <2>1, <2>2, <2>4 DEF database
    <2>6. cursor' \in [call : Calls, seq : Nat, sawInvite : BOOLEAN]
      BY <1>3, <2>1, <2>4
    <2> QED BY <1>1, <2>3, <2>5, <2>6 DEF TypeOK, database, sockets, daemon
  <1> QED BY <1>2, <1>3, PollFacts

LEMMA TypedConsole ==
  ASSUME TypeOK, ConsolePickup \/ ConsoleSays \/ ConsoleHangup \/ ConsolePoll
  PROVE  TypeOK'
  <1>0. PICK c : c = cursor.call
    OBVIOUS
  <1>1. (cursor # None => c \in Calls) /\ Human \in Parties /\ {"frame", "close"} \subseteq FrameKinds
    BY <1>0 DEF TypeOK, Parties, FrameKinds
  <1>2. opened \in Seq(Calls) /\ shown \in Seq(Nat)
        /\ cursor \in {None} \cup [call : Calls, seq : Nat, sawInvite : BOOLEAN]
    BY DEF TypeOK
  <1>3. CASE ConsolePickup
    <2>1. cursor' = NewCursor(c, TRUE) /\ c \in Calls /\ shown' = <<>> /\ calls' = calls
      BY <1>0, <1>1, <1>3 DEF ConsolePickup, database
    <2>2. cursor' \in [call : Calls, seq : Nat, sawInvite : BOOLEAN] /\ cursor'.call = c /\ cursor'.seq = 0
      BY <2>1, NewCursorFacts
    <2>3. Len(calls[c].lines) \in Nat
      <3>1. calls[c].lines \in Seq(Parties)
        BY <2>1 DEF TypeOK
      <3> QED BY <3>1, LenProperties
    <2>4. cursor'.seq <= Len(calls'[cursor'.call].lines)
      <3>1. calls' = calls
        BY <2>1
      <3>2. Len(calls'[cursor'.call].lines) = Len(calls[c].lines)
        BY <2>2, <3>1
      <3> QED BY <2>2, <2>3, <3>2
    <2>5. shown' \in Seq(Nat)
      BY <2>1, EmptySet
    <2> QED BY <1>3, <2>2, <2>4, <2>5 DEF ConsolePickup, TypeOK, database, sockets, daemon
  <1>4. CASE ConsoleSays
    <2>1. RouteCall(c, Human, "frame", Spoken(c, Human)) /\ c \in Calls /\ UNCHANGED <<opened, console>>
      BY <1>0, <1>1, <1>4 DEF ConsoleSays
    <2>2. Spoken(c, Human) \in Records /\ Spoken(c, Human).lines = Append(calls[c].lines, Human)
      BY <1>1, <2>1, RecordFacts
    <2>3. calls'[c] = Spoken(c, Human) /\ \A d \in Calls \ {c} : calls'[d] = calls[d]
      BY <1>1, <2>1, <2>2, RouteCallFacts
    <2>4. cursor' = cursor /\ shown' = shown /\ opened' = opened
      BY <2>1 DEF console
    <2>5. cursor' # None => cursor'.seq <= Len(calls'[cursor'.call].lines)
      BY <1>1, <2>1, <2>2, <2>3, <2>4, CursorFits
    <2> QED BY <1>1, <1>2, <2>1, <2>2, <2>4, <2>5, TypedCall
  <1>5. CASE ConsoleHangup
    <2>1. /\ RouteCall(c, Human, "close", Closed(c)) /\ c \in Calls
          /\ opened' = opened /\ cursor' = None /\ shown' = <<>>
      BY <1>0, <1>1, <1>5 DEF ConsoleHangup
    <2>2. Closed(c) \in Records
      BY <1>1, <2>1, RecordFacts
    <2> QED BY <1>1, <1>2, <2>1, <2>2, EmptySet, TypedCall
  <1> QED BY <1>3, <1>4, <1>5, TypedPoll

LEMMA TypedNext ==
  ASSUME TypeOK, Routed, [Next]_vars
  PROVE  TypeOK'
  <1>1. CASE UNCHANGED vars
    BY <1>1 DEF TypeOK, vars, database, sockets, daemon, console
  <1>2. CASE Next
    BY <1>2, TypedSocket, TypedVerified, TypedLosses, TypedMessage, TypedReceive, TypedMarks,
       TypedCalls, TypedConsole DEF Next
  <1> QED BY <1>1, <1>2

-----------------------------------------------------------------------------
(* What is carried stays carried.                                          *)

Carried == Routed /\ QueuedIsCarried /\ RingIsCarried /\ RingIsTakenBack

LEMMA TakenBackIs ==
  RingIsTakenBack <=>
    \A c \in Calls \ ByName, s \in Sockets : Over(c) /\ c \notin rung =>
      FollowedBy(down[s], Frame(c, "invite"), Frame(c, "close"))
  BY DEF RingIsTakenBack, FollowedBy

LEMMA TakenBackAgain ==
  RingIsTakenBack' <=>
    \A c \in Calls \ ByName, s \in Sockets : Over(c)' /\ c \notin rung' =>
      FollowedBy(down'[s], Frame(c, "invite"), Frame(c, "close"))
  BY DEF RingIsTakenBack, FollowedBy, Frame, Over

LEMMA FramesDiffer ==
  /\ \A c, d, k, l : Frame(c, k) = Frame(d, l) <=> c = d /\ k = l
  /\ \A m, d, l : l # "sms" => Sms(m) # Frame(d, l)
  BY DEF Frame, Sms

\* Steps that hand over no frame and lose frames only with the connection.
LEMMA NothingHandedOver ==
  ASSUME TypeOK, Carried,
         opened' = opened, rung' = rung,
         \A d \in Calls : calls'[d].state = calls[d].state,
         \A m \in Msgs : msgs'[m] = "queued" => msgs[m] = "queued",
         \A s \in Sockets :
           /\ Attached(s)' => Attached(s) /\ down'[s] = down[s]
           /\ ~Attached(s)' => down'[s] = <<>>,
         \A s \in Sockets, m \in Msgs :
           /\ msgs'[m] = "queued" /\ To[m] = AgentOf[s] /\ Attached(s)' /\ m \in ToSet(acks[s])
           => m \in ToSet(acks'[s])
  PROVE  Carried'
  <1>1. Routed'
    BY EmptySet DEF Carried, Routed, Fits, ToSet
  <1>2. QueuedIsCarried'
    BY DEF Carried, QueuedIsCarried
  <1>3. \A d \in Calls : Newest(d)' = Newest(d)
    BY DEF Newest, CallsOf
  <1>4. RingIsCarried'
    BY <1>3 DEF Carried, RingIsCarried
  <1>5. RingIsTakenBack'
    <2>1. ASSUME NEW c \in Calls \ ByName, NEW s \in Sockets, Over(c)', c \notin rung'
          PROVE  FollowedBy(down'[s], Frame(c, "invite"), Frame(c, "close"))
      <3>1. Over(c)
        BY <2>1 DEF Over
      <3>2. FollowedBy(down[s], Frame(c, "invite"), Frame(c, "close"))
        BY <2>1, <3>1, TakenBackIs DEF Carried
      <3>3. CASE down'[s] = <<>>
        BY <3>3, EmptySet, FollowedAbsent
      <3> QED BY <3>2, <3>3
    <2> QED BY <2>1, TakenBackAgain
  <1> QED BY <1>1, <1>2, <1>4, <1>5 DEF Carried

\* A frame that fits is handed to some of the live sockets of an agent.
LEMMA RoutedOn ==
  ASSUME TypeOK, Carried, NEW a, NEW S \in SUBSET Live(a), NEW f \in Frames,
         down' = Sent(S, f), stage' = stage, up' = up,
         \A s \in Sockets : AgentOf[s] = a => Fits(f, s)
  PROVE  /\ Routed'
         /\ \A s \in Sockets :
              /\ Attached(s)' <=> Attached(s)
              /\ down[s] \in Seq(Frames) /\ down'[s] \in Seq(Frames)
              /\ ToSet(down[s]) \subseteq ToSet(down'[s])
              /\ s \in S /\ Attached(s) => down'[s] = Append(down[s], f) /\ f \in ToSet(down'[s])
              /\ down'[s] = down[s] \/ (down'[s] = Append(down[s], f) /\ AgentOf[s] = a)
  <1>1. ASSUME NEW s \in Sockets
        PROVE  /\ Attached(s)' <=> Attached(s)
               /\ down[s] \in Seq(Frames) /\ down'[s] \in Seq(Frames)
               /\ ToSet(down[s]) \subseteq ToSet(down'[s])
               /\ s \in S /\ Attached(s) => down'[s] = Append(down[s], f) /\ f \in ToSet(down'[s])
               /\ down'[s] = down[s] \/ (down'[s] = Append(down[s], f) /\ AgentOf[s] = a)
               /\ down'[s] # <<>> => Attached(s)'
               /\ \A g \in ToSet(down'[s]) : Fits(g, s)
    <2>1. Attached(s)' <=> Attached(s)
      BY DEF Attached
    <2>2. down[s] \in Seq(Frames) /\ down'[s] \in Seq(Frames)
      <3>1. down[s] \in Seq(Frames)
        BY DEF TypeOK, Frames
      <3>2. down' \in [Sockets -> Seq(Frames)]
        BY SentFacts
      <3> QED BY <3>1, <3>2
    <2>3. /\ s \in S /\ up[s] => down'[s] = Append(down[s], f)
          /\ ~(s \in S /\ up[s]) => down'[s] = down[s]
      BY SentFacts
    <2>4. s \in S => stage[s] = "live" /\ AgentOf[s] = a
      BY LiveFacts
    <2>5. Append(down[s], f) \in Seq(Frames) /\ ToSet(Append(down[s], f)) = ToSet(down[s]) \cup {f}
      BY <2>2, AppendSet
    <2>6. /\ down[s] # <<>> => Attached(s)
          /\ \A g \in ToSet(down[s]) : Fits(g, s)
      BY DEF Carried, Routed
    <2>7. s \in S => Fits(f, s)
      BY <2>4
    <2> QED BY <2>1, <2>2, <2>3, <2>4, <2>5, <2>6, <2>7 DEF Attached
  <1>2. Routed'
    BY <1>1 DEF Routed, Fits
  <1> QED BY <1>1, <1>2

LEMMA QueueStays ==
  ASSUME Carried, msgs' = msgs, acks' = acks,
         \A s \in Sockets : (Attached(s)' => Attached(s)) /\ ToSet(down[s]) \subseteq ToSet(down'[s])
  PROVE  QueuedIsCarried'
  <1>1. ASSUME NEW m \in Msgs \ ByName, NEW s \in Sockets,
               msgs'[m] = "queued", To[m] = AgentOf[s], Attached(s)'
        PROVE  Sms(m) \in ToSet(down'[s]) \/ m \in ToSet(acks'[s])
    <2>1. Sms(m) \in ToSet(down[s]) \/ m \in ToSet(acks[s])
      BY <1>1 DEF Carried, QueuedIsCarried
    <2> QED BY <1>1, <2>1
  <1> QED BY <1>1 DEF QueuedIsCarried, Sms, Frame

LEMMA CarriedSend ==
  ASSUME TypeOK, Carried, NEW m \in Msgs, Send(m)
  PROVE  Carried'
  <1> DEFINE S == Targets(To[m], m \in ByName)
             f == Sms(m)
  <1>1. /\ down' = Sent(S, f) /\ msgs' = [msgs EXCEPT ![m] = "queued"]
        /\ UNCHANGED <<calls, opened, stage, up, acks, rung>>
    BY DEF Send, daemon
  <1>2. S \in SUBSET Live(To[m]) /\ (m \notin ByName => S = Live(To[m]))
    BY TargetsFacts
  <1>3. f \in Frames /\ \A s \in Sockets : AgentOf[s] = To[m] => Fits(f, s)
    BY FrameFacts DEF Fits
  <1> HIDE DEF S, f
  <1>4. /\ Routed'
        /\ \A s \in Sockets :
              /\ Attached(s)' <=> Attached(s)
              /\ down[s] \in Seq(Frames) /\ down'[s] \in Seq(Frames)
              /\ ToSet(down[s]) \subseteq ToSet(down'[s])
              /\ s \in S /\ Attached(s) => down'[s] = Append(down[s], f) /\ f \in ToSet(down'[s])
              /\ down'[s] = down[s] \/ (down'[s] = Append(down[s], f) /\ AgentOf[s] = To[m])
    BY <1>1, <1>2, <1>3, RoutedOn
  <1>5. QueuedIsCarried'
    <2>1. ASSUME NEW n \in Msgs \ ByName, NEW s \in Sockets,
                 msgs'[n] = "queued", To[n] = AgentOf[s], Attached(s)'
          PROVE  Sms(n) \in ToSet(down'[s]) \/ n \in ToSet(acks'[s])
      <3>1. CASE n = m
        <4>1. s \in S
          BY <1>2, <1>4, <2>1, <3>1, LiveFacts DEF Attached
        <4> QED BY <1>4, <2>1, <3>1, <4>1 DEF f
      <3>2. CASE n # m
        <4>1. msgs[n] = "queued" /\ Attached(s)
          BY <1>1, <1>4, <2>1, <3>2 DEF TypeOK
        <4>2. Sms(n) \in ToSet(down[s]) \/ n \in ToSet(acks[s])
          BY <2>1, <4>1 DEF Carried, QueuedIsCarried
        <4> QED BY <1>1, <1>4, <4>2
      <3> QED BY <3>1, <3>2
    <2> QED BY <2>1 DEF QueuedIsCarried, Sms, Frame
  <1>6. RingIsCarried'
    <2>1. ASSUME NEW c \in Calls \ ByName, NEW s \in Sockets,
                 calls'[c].state = "ringing", To[c] = AgentOf[s], Attached(s)', Newest(c)'
          PROVE  c \in rung' \/ Frame(c, "invite") \in ToSet(down'[s])
      <3>1. Newest(c)
        BY <1>1, <2>1 DEF Newest, CallsOf
      <3>2. c \in rung \/ Frame(c, "invite") \in ToSet(down[s])
        BY <1>1, <1>4, <2>1, <3>1 DEF Carried, RingIsCarried
      <3> QED BY <1>1, <1>4, <3>2
    <2> QED BY <2>1 DEF RingIsCarried, Frame
  <1>7. RingIsTakenBack'
    <2>1. ASSUME NEW c \in Calls \ ByName, NEW s \in Sockets, Over(c)', c \notin rung'
          PROVE  FollowedBy(down'[s], Frame(c, "invite"), Frame(c, "close"))
      <3>1. FollowedBy(down[s], Frame(c, "invite"), Frame(c, "close"))
        BY <1>1, <2>1, TakenBackIs DEF Carried, Over
      <3>2. Frame(c, "invite") # f
        BY FramesDiffer DEF f
      <3>3. FollowedBy(Append(down[s], f), Frame(c, "invite"), Frame(c, "close"))
        BY <1>3, <1>4, <3>1, <3>2, FollowedAppend
      <3> QED BY <1>4, <3>1, <3>3
    <2> QED BY <2>1, TakenBackAgain
  <1> QED BY <1>4, <1>5, <1>6, <1>7 DEF Carried

\* The bridge takes the head of its queue.
LEMMA CarriedReceive ==
  ASSUME TypeOK, Carried, NEW r \in Sockets, Receive(r)
  PROVE  Carried'
  <1> DEFINE f == Head(down[r])
  <1>1. /\ acks' = [acks EXCEPT ![r] = Append(@, f.id)]
        /\ down' = [down EXCEPT ![r] = Tail(@)]
        /\ rung' = IF f.kind = "invite" THEN rung \cup {f.id} ELSE rung
        /\ down[r] # <<>>
        /\ UNCHANGED <<msgs, calls, opened, stage, up>>
    BY DEF Receive, database
  <1>2. down[r] \in Seq(Frames) /\ acks[r] \in Seq(Ids)
    BY DEF TypeOK, Frames
  <1>3. /\ f \in Frames /\ Tail(down[r]) \in Seq(Frames)
        /\ ToSet(down[r]) = {f} \cup ToSet(Tail(down[r]))
    BY <1>1, <1>2, TailSet
  <1> HIDE DEF f
  <1>4. f.id \in Ids /\ f.kind \in FrameKinds /\ f = Frame(f.id, f.kind)
    BY <1>3 DEF Frames, Frame
  <1>5. ToSet(Append(acks[r], f.id)) = ToSet(acks[r]) \cup {f.id}
    BY <1>2, <1>4, AppendSet
  <1>6. \A s \in Sockets :
          /\ Attached(s)' <=> Attached(s)
          /\ ToSet(down'[s]) \subseteq ToSet(down[s])
          /\ ToSet(down[s]) \subseteq ToSet(down'[s]) \cup (IF s = r THEN {f} ELSE {})
          /\ ToSet(acks'[s]) = ToSet(acks[s]) \cup (IF s = r THEN {f.id} ELSE {})
    BY <1>1, <1>3, <1>5 DEF Attached, TypeOK
  <1>7. Routed'
    <2>1. ASSUME NEW s \in Sockets
          PROVE  /\ down'[s] # <<>> => Attached(s)'
                 /\ \A g \in ToSet(down'[s]) : Fits(g, s)
      <3>1. /\ down[s] # <<>> => Attached(s)
            /\ \A g \in ToSet(down[s]) : Fits(g, s)
        BY DEF Carried, Routed
      <3>2. down'[s] # <<>> => down[s] # <<>>
        BY <1>1 DEF TypeOK
      <3> QED BY <1>6, <3>1, <3>2
    <2> QED BY <2>1 DEF Routed, Fits
  <1>8. QueuedIsCarried'
    <2>1. ASSUME NEW m \in Msgs \ ByName, NEW s \in Sockets,
                 msgs'[m] = "queued", To[m] = AgentOf[s], Attached(s)'
          PROVE  Sms(m) \in ToSet(down'[s]) \/ m \in ToSet(acks'[s])
      <3>1. Sms(m) \in ToSet(down[s]) \/ m \in ToSet(acks[s])
        BY <1>1, <1>6, <2>1 DEF Carried, QueuedIsCarried
      <3>2. Sms(m) = f => m = f.id
        BY FrameFacts
      <3> QED BY <1>6, <3>1, <3>2
    <2> QED BY <2>1 DEF QueuedIsCarried, Sms, Frame
  <1>9. RingIsCarried'
    <2>1. ASSUME NEW c \in Calls \ ByName, NEW s \in Sockets,
                 calls'[c].state = "ringing", To[c] = AgentOf[s], Attached(s)', Newest(c)'
          PROVE  c \in rung' \/ Frame(c, "invite") \in ToSet(down'[s])
      <3>1. Newest(c)
        BY <1>1, <2>1 DEF Newest, CallsOf
      <3>2. c \in rung \/ Frame(c, "invite") \in ToSet(down[s])
        BY <1>1, <1>6, <2>1, <3>1 DEF Carried, RingIsCarried
      <3>3. Frame(c, "invite") = f => c \in rung'
        BY <1>1, FrameFacts DEF FrameKinds
      <3>4. rung \subseteq rung'
        BY <1>1
      <3> QED BY <1>6, <3>2, <3>3, <3>4
    <2> QED BY <2>1 DEF RingIsCarried, Frame
  <1>10. RingIsTakenBack'
    <2>1. ASSUME NEW c \in Calls \ ByName, NEW s \in Sockets, Over(c)', c \notin rung'
          PROVE  FollowedBy(down'[s], Frame(c, "invite"), Frame(c, "close"))
      <3>1. Over(c) /\ c \notin rung
        BY <1>1, <2>1 DEF Over
      <3>2. FollowedBy(down[s], Frame(c, "invite"), Frame(c, "close"))
        BY <2>1, <3>1, TakenBackIs DEF Carried
      <3>3. CASE s = r
        <4>1. FollowedBy(Tail(down[r]), Frame(c, "invite"), Frame(c, "close"))
          BY <1>1, <1>2, <3>2, <3>3, FollowedTail
        <4> QED BY <1>1, <3>3, <4>1 DEF TypeOK
      <3>4. CASE s # r
        BY <1>1, <3>2, <3>4 DEF TypeOK
      <3> QED BY <3>3, <3>4
    <2> QED BY <2>1, TakenBackAgain
  <1> QED BY <1>7, <1>8, <1>9, <1>10 DEF Carried

\* A ringing call that is the newest of its agent's is the latest open one.
LEMMA NewestIsLatest ==
  ASSUME TypeOK, NEW c \in Calls, Newest(c), calls[c].state = "ringing"
  PROVE  LatestOpenCall(To[c]) = c
  <1> DEFINE p == To[c]
             k == Max(CallsOf(p))
             l == Max(OpenCalls(p))
  <1>1. DOMAIN opened = 1 .. Len(opened) /\ Len(opened) \in Nat
    BY LenProperties DEF TypeOK
  <1>2. CallsOf(p) \in SUBSET (0 .. Len(opened)) /\ OpenCalls(p) \subseteq CallsOf(p)
    BY <1>1 DEF OpenCalls, CallsOf
  <1>3. CallsOf(p) # {} /\ opened[k] = c
    BY DEF Newest
  <1>4. k \in CallsOf(p) /\ \A i \in CallsOf(p) : i <= k
    BY <1>1, <1>2, <1>3, GreatestOf
  <1>5. k \in OpenCalls(p)
    BY <1>3, <1>4 DEF OpenCalls, Open
  <1>6. l \in OpenCalls(p) /\ \A i \in OpenCalls(p) : i <= l
    <2>1. OpenCalls(p) \in SUBSET (0 .. Len(opened)) /\ OpenCalls(p) # {}
      BY <1>2, <1>5
    <2> QED BY <1>1, <2>1, GreatestOf
  <1>7. k \in Nat /\ l \in Nat /\ k <= l /\ l <= k
    <2> HIDE DEF k, l
    <2> QED BY <1>2, <1>4, <1>5, <1>6
  <1>8. k = l
    <2> HIDE DEF k, l
    <2> QED BY <1>7
  <1> QED BY <1>3, <1>5, <1>8 DEF LatestOpenCall

\* A call placed with an agent leaves none before it the newest of that agent's.
LEMMA NewestAfter ==
  ASSUME TypeOK, NEW c \in Calls, NEW d \in Calls, c # d,
         opened' = Append(opened, c), Newest(d)'
  PROVE  Newest(d)
  <1> DEFINE p == To[d]
             n == Len(opened)
             I == CallsOf(p)
             J == {i \in DOMAIN opened' : p \in {From[opened'[i]], To[opened'[i]]}}
             k == Max(J)
  <1>1. /\ opened \in Seq(Calls) /\ n \in Nat /\ DOMAIN opened = 1 .. n
        /\ opened' \in Seq(Calls) /\ DOMAIN opened' = 1 .. n + 1 /\ opened'[n + 1] = c
        /\ \A i \in 1 .. n : opened'[i] = opened[i]
    <2>1. opened \in Seq(Calls)
      BY DEF TypeOK
    <2>2. /\ opened' \in Seq(Calls) /\ Len(opened') = n + 1 /\ opened'[n + 1] = c
          /\ \A i \in 1 .. n : opened'[i] = opened[i]
      BY <2>1, AppendProperties
    <2> QED BY <2>1, <2>2, LenProperties
  <1>2. J # {} /\ opened'[k] = d
    BY DEF Newest, CallsOf
  <1>3. k \in J /\ \A i \in J : i <= k
    <2>1. J \in SUBSET (0 .. n + 1) /\ n + 1 \in Nat
      BY <1>1
    <2> HIDE DEF J
    <2> QED BY <1>2, <2>1, GreatestOf
  <1>4. k # n + 1
    BY <1>1, <1>2
  <1>5. k \in 1 .. n
    <2>1. k \in 1 .. n + 1
      BY <1>1, <1>3
    <2> HIDE DEF k
    <2> QED BY <1>1, <1>4, <2>1
  <1>6. n + 1 \notin J
    <2>1. n + 1 <= k => FALSE
      <3> HIDE DEF k
      <3> QED BY <1>1, <1>5
    <2> QED BY <1>3, <2>1
  <1>7. J = I
    <2>1. \A i \in J : i \in 1 .. n
      BY <1>1, <1>6
    <2> QED BY <1>1, <2>1 DEF CallsOf
  <1>8. opened[k] = d
    BY <1>1, <1>2, <1>5
  <1> QED BY <1>2, <1>7, <1>8 DEF Newest

\* A login is sent the queue of its agent and the ringing call.
LEMMA CarriedVerified ==
  ASSUME TypeOK, Carried, NEW r \in Sockets, Verified(r)
  PROVE  Carried'
  <1> DEFINE a == AgentOf[r]
             again == RedeliveredInvite(a)
  <1>1. /\ stage[r] = "verifying" /\ stage' = [stage EXCEPT ![r] = "live"]
        /\ UNCHANGED <<msgs, calls, opened, up, acks, rung>>
    BY DEF Verified, database, daemon
  <1>2. PICK queue \in LoginQueue(a) :
          down' = [down EXCEPT ![r] = IF up[r] THEN @ \o queue \o again ELSE @]
    BY DEF Verified
  <1>3. /\ queue \in Seq(Frames) /\ ToSet(queue) = {Sms(m) : m \in Undelivered(a)}
        /\ again \in Seq(Frames)
        /\ \/ again = <<>>
           \/ \E c \in Calls : /\ again = <<Frame(c, "invite")>>
                               /\ c = LatestOpenCall(a) /\ To[c] = a /\ calls[c].state = "ringing"
    BY QueueFacts, RedeliveredFacts
  <1>4. \A g \in ToSet(again) :
          \E c \in Calls : g = Frame(c, "invite") /\ To[c] = a /\ calls[c].state = "ringing"
    BY <1>3 DEF ToSet
  <1>5. down[r] = <<>>
    BY <1>1 DEF Carried, Routed, Attached
  <1>6. /\ up[r] => down'[r] = queue \o again
        /\ ~up[r] => down'[r] = <<>>
    <2>1. <<>> \o queue = queue
      BY <1>3, ConcatEmptySeq
    <2> QED BY <1>2, <1>5, <2>1 DEF TypeOK
  <1>7. ToSet(queue \o again) = ToSet(queue) \cup ToSet(again)
    BY <1>3, ConcatSet
  <1>8. \A s \in Sockets \ {r} : down'[s] = down[s] /\ (Attached(s)' <=> Attached(s))
    BY <1>1, <1>2 DEF TypeOK, Attached
  <1>9. Attached(r)' <=> up[r]
    BY <1>1 DEF TypeOK, Attached
  <1> HIDE DEF again
  <1>10. Routed'
    <2>1. ASSUME NEW s \in Sockets
          PROVE  /\ down'[s] # <<>> => Attached(s)'
                 /\ \A g \in ToSet(down'[s]) : Fits(g, s)
      <3>1. CASE s # r
        BY <1>8, <3>1 DEF Carried, Routed
      <3>2. CASE s = r /\ up[r]
        <4>1. \A g \in ToSet(queue) : Fits(g, r)
          BY <1>3, FrameFacts DEF Fits, Undelivered
        <4>2. \A g \in ToSet(again) : Fits(g, r)
          BY <1>4, FrameFacts DEF Fits, FrameKinds
        <4> QED BY <1>6, <1>7, <1>9, <3>2, <4>1, <4>2
      <3>3. CASE s = r /\ ~up[r]
        BY <1>6, <3>3, EmptySet
      <3> QED BY <3>1, <3>2, <3>3
    <2> QED BY <2>1 DEF Routed, Fits
  <1>11. QueuedIsCarried'
    <2>1. ASSUME NEW m \in Msgs \ ByName, NEW s \in Sockets,
                 msgs'[m] = "queued", To[m] = AgentOf[s], Attached(s)'
          PROVE  Sms(m) \in ToSet(down'[s]) \/ m \in ToSet(acks'[s])
      <3>1. CASE s # r
        BY <1>1, <1>8, <2>1, <3>1 DEF Carried, QueuedIsCarried
      <3>2. CASE s = r
        <4>1. m \in Undelivered(a)
          BY <1>1, <2>1, <3>2 DEF Undelivered
        <4> QED BY <1>3, <1>6, <1>7, <1>9, <2>1, <3>2, <4>1
      <3> QED BY <3>1, <3>2
    <2> QED BY <2>1 DEF QueuedIsCarried, Sms, Frame
  <1>12. RingIsCarried'
    <2>1. ASSUME NEW c \in Calls \ ByName, NEW s \in Sockets,
                 calls'[c].state = "ringing", To[c] = AgentOf[s], Attached(s)', Newest(c)'
          PROVE  c \in rung' \/ Frame(c, "invite") \in ToSet(down'[s])
      <3>1. Newest(c) /\ calls[c].state = "ringing"
        BY <1>1, <2>1 DEF Newest, CallsOf
      <3>2. CASE s # r
        BY <1>1, <1>8, <2>1, <3>1, <3>2 DEF Carried, RingIsCarried
      <3>3. CASE s = r
        <4>1. LatestOpenCall(a) = c
          BY <2>1, <3>1, <3>3, NewestIsLatest
        <4>2. again = <<Frame(c, "invite")>>
          BY <2>1, <3>1, <3>3, <4>1, SmallFacts DEF again, RedeliveredInvite
        <4>3. Frame(c, "invite") \in ToSet(again)
          BY <4>2 DEF ToSet
        <4> QED BY <1>6, <1>7, <1>9, <2>1, <3>3, <4>3
      <3> QED BY <3>2, <3>3
    <2> QED BY <2>1 DEF RingIsCarried, Frame
  <1>13. RingIsTakenBack'
    <2>1. ASSUME NEW c \in Calls \ ByName, NEW s \in Sockets, Over(c)', c \notin rung'
          PROVE  FollowedBy(down'[s], Frame(c, "invite"), Frame(c, "close"))
      <3>1. Over(c) /\ c \notin rung
        BY <1>1, <2>1 DEF Over
      <3>2. CASE s # r
        BY <1>8, <2>1, <3>1, <3>2, TakenBackIs DEF Carried
      <3>3. CASE s = r
        <4>1. Frame(c, "invite") \notin ToSet(queue)
          BY <1>3, FramesDiffer
        <4>2. Frame(c, "invite") \notin ToSet(again)
          BY <1>4, <3>1, FramesDiffer DEF Over
        <4>3. Frame(c, "invite") \notin ToSet(down'[r])
          BY <1>6, <1>7, <4>1, <4>2, EmptySet
        <4> QED BY <3>3, <4>3, FollowedAbsent
      <3> QED BY <3>2, <3>3
    <2> QED BY <2>1, TakenBackAgain
  <1> QED BY <1>10, <1>11, <1>12, <1>13 DEF Carried

\* A step of a call: one frame of it goes to sockets of its agent, or none does.
LEMMA CarriedCall ==
  ASSUME TypeOK, Carried, NEW c \in Calls, NEW kind \in FrameKinds \ {"sms"},
         NEW S \in SUBSET Live(AgentParty(c)), down' = Sent(S, Frame(c, kind)),
         UNCHANGED <<msgs, stage, up, acks, rung>>,
         opened' = opened \/ opened' = Append(opened, c),
         \A d \in Calls \ {c} : calls'[d] = calls[d],
         kind = "invite" => To[c] = AgentParty(c),
         c \notin ByName /\ calls'[c].state = "ringing" /\ To[c] # Human =>
           \/ opened' = opened /\ calls[c].state = "ringing"
           \/ kind = "invite" /\ S = Live(AgentParty(c)),
         c \notin ByName /\ Over(c)' =>
           \/ Over(c) /\ kind # "invite"
           \/ c \in rung \/ To[c] = Human
           \/ kind = "close" /\ S = Live(AgentParty(c))
  PROVE  Carried'
  <1> DEFINE a == AgentParty(c)
             f == Frame(c, kind)
  <1>1. f \in Frames /\ f.id = c /\ f.kind = kind
    BY FrameFacts
  <1>2. \A s \in Sockets : AgentOf[s] = a => Fits(f, s)
    BY <1>1 DEF Fits
  <1>3. a \in Agents /\ (To[c] = a \/ To[c] = Human) /\ \A s \in Sockets : AgentOf[s] # Human
    BY PartiesOf, SmallFacts
  <1> HIDE DEF a, f
  <1>4. S \in SUBSET Live(a) /\ down' = Sent(S, f)
    BY DEF a, f
  <1>9. stage' = stage /\ up' = up
    OBVIOUS
  <1>5. /\ Routed'
        /\ \A s \in Sockets :
              /\ Attached(s)' <=> Attached(s)
              /\ down[s] \in Seq(Frames) /\ down'[s] \in Seq(Frames)
              /\ ToSet(down[s]) \subseteq ToSet(down'[s])
              /\ s \in S /\ Attached(s) => down'[s] = Append(down[s], f) /\ f \in ToSet(down'[s])
              /\ down'[s] = down[s] \/ (down'[s] = Append(down[s], f) /\ AgentOf[s] = a)
    BY ONLY TypeOK, Carried, <1>1, <1>2, <1>4, <1>9, RoutedOn
  <1>6. QueuedIsCarried'
    BY <1>5, QueueStays
  <1>7. RingIsCarried'
    <2>1. ASSUME NEW d \in Calls \ ByName, NEW s \in Sockets,
                 calls'[d].state = "ringing", To[d] = AgentOf[s], Attached(s)', Newest(d)'
          PROVE  d \in rung' \/ Frame(d, "invite") \in ToSet(down'[s])
      <3>1. ASSUME calls[d].state = "ringing", Newest(d)
            PROVE  d \in rung' \/ Frame(d, "invite") \in ToSet(down'[s])
        <4>1. d \in rung \/ Frame(d, "invite") \in ToSet(down[s])
          BY <1>5, <2>1, <3>1 DEF Carried, RingIsCarried
        <4> QED BY <1>5, <4>1
      <3>2. CASE d # c
        <4>1. Newest(d)
          <5>1. CASE opened' = opened
            BY <2>1, <5>1 DEF Newest, CallsOf
          <5>2. CASE opened' = Append(opened, c)
            BY <2>1, <3>2, <5>2, NewestAfter
          <5> QED BY <5>1, <5>2
        <4> QED BY <2>1, <3>1, <3>2, <4>1
      <3>3. CASE d = c /\ opened' = opened /\ calls[c].state = "ringing"
        <4>1. Newest(d)
          BY <2>1, <3>3 DEF Newest, CallsOf
        <4> QED BY <3>1, <3>3, <4>1
      <3>4. CASE d = c /\ kind = "invite" /\ S = Live(a)
        <4>1. AgentOf[s] = a /\ s \in Live(a)
          BY <1>3, <1>5, <2>1, <3>4, LiveFacts DEF Attached
        <4>2. f \in ToSet(down'[s])
          BY <1>5, <2>1, <3>4, <4>1
        <4> QED BY <3>4, <4>2 DEF f
      <3>5. To[d] # Human
        BY <1>3, <2>1
      <3> QED BY <2>1, <3>2, <3>3, <3>4, <3>5 DEF a
    <2> QED BY <2>1 DEF RingIsCarried, Frame
  <1>8. RingIsTakenBack'
    <2>1. ASSUME NEW d \in Calls \ ByName, NEW s \in Sockets, Over(d)', d \notin rung'
          PROVE  FollowedBy(down'[s], Frame(d, "invite"), Frame(d, "close"))
      <3>1. ASSUME Over(d), Frame(d, "invite") # f
            PROVE  FollowedBy(down'[s], Frame(d, "invite"), Frame(d, "close"))
        <4>1. FollowedBy(down[s], Frame(d, "invite"), Frame(d, "close"))
          BY <2>1, <3>1, TakenBackIs DEF Carried
        <4>2. FollowedBy(Append(down[s], f), Frame(d, "invite"), Frame(d, "close"))
          BY <1>1, <1>5, <3>1, <4>1, FollowedAppend
        <4> QED BY <1>5, <4>1, <4>2
      <3>2. CASE d # c
        <4>1. Over(d) /\ Frame(d, "invite") # f
          BY <2>1, <3>2, FramesDiffer DEF Over, f
        <4> QED BY <3>1, <4>1
      <3>3. CASE d = c /\ Over(c) /\ kind # "invite"
        <4>1. Frame(d, "invite") # f
          BY <3>3, FramesDiffer DEF f
        <4> QED BY <3>1, <3>3, <4>1
      <3>4. ASSUME To[d] # AgentOf[s]
            PROVE  FollowedBy(down'[s], Frame(d, "invite"), Frame(d, "close"))
        <4>1. \A g \in ToSet(down'[s]) : Fits(g, s)
          BY <1>5 DEF Routed, Fits
        <4>2. ~Fits(Frame(d, "invite"), s)
          BY <3>4, FrameFacts DEF Fits, FrameKinds
        <4> QED BY <4>1, <4>2, FollowedAbsent
      <3>5. CASE d = c /\ To[c] = Human
        BY <1>3, <3>4, <3>5
      <3>6. CASE d = c /\ kind = "close" /\ S = Live(a)
        <4>1. CASE AgentOf[s] # a
          BY <1>3, <3>4, <3>6, <4>1
        <4>2. CASE down'[s] = Append(down[s], f)
          <5>1. f = Frame(d, "close") /\ Frame(d, "invite") # f
            BY <3>6, FramesDiffer DEF f
          <5>2. FollowedBy(Append(down[s], f), Frame(d, "invite"), f)
            BY <1>1, <1>5, <5>1, FollowedLast
          <5> QED BY <4>2, <5>1, <5>2
        <4>3. CASE AgentOf[s] = a /\ ~Attached(s)
          <5>1. down'[s] = <<>>
            BY <1>5, <4>3 DEF Routed
          <5> QED BY <5>1, EmptySet, FollowedAbsent
        <4>4. CASE AgentOf[s] = a /\ Attached(s)
          <5>1. s \in S
            BY <3>6, <4>4, LiveFacts DEF Attached
          <5> QED BY <1>5, <4>2, <4>4, <5>1
        <4> QED BY <4>1, <4>3, <4>4
      <3> QED BY <2>1, <3>2, <3>3, <3>5, <3>6 DEF a
    <2> QED BY <2>1, TakenBackAgain
  <1> QED BY <1>5, <1>6, <1>7, <1>8 DEF Carried

\* Handing a frame to nobody.
LEMMA SentToNobody ==
  ASSUME TypeOK, NEW f \in Frames
  PROVE  down = Sent({}, f)
  BY DEF TypeOK, Sent

LEMMA CarriedConsoleCall ==
  ASSUME TypeOK, Carried, NEW c \in Calls, ConsoleCall(c)
  PROVE  Carried'
  <1> DEFINE S == Targets(AgentParty(c), c \in ByName)
  <1>1. RouteCall(c, Human, "invite", Invited(c)) /\ Invited(c) \in Records /\ Invited(c).state = "ringing"
    BY RecordFacts DEF ConsoleCall, Parties
  <1>2. /\ calls'[c] = Invited(c) /\ \A d \in Calls \ {c} : calls'[d] = calls[d]
        /\ down' = Sent(S, Frame(c, "invite"))
    BY <1>1, RouteCallFacts DEF FrameKinds
  <1>3. S \in SUBSET Live(AgentParty(c)) /\ (c \notin ByName => S = Live(AgentParty(c)))
    BY TargetsFacts
  <1>4. To[c] = AgentParty(c)
    BY PartiesOf DEF ConsoleCall
  <1>5. UNCHANGED <<msgs, stage, up, acks, rung>> /\ opened' = Append(opened, c)
    BY <1>1 DEF ConsoleCall, RouteCall, daemon
  <1>6. ~Over(c)'
    BY <1>1, <1>2 DEF Over
  <1>7. "invite" \in FrameKinds \ {"sms"}
    BY DEF FrameKinds
  <1> HIDE DEF S
  <1> QED BY <1>2, <1>3, <1>4, <1>5, <1>6, <1>7, CarriedCall

\* What the agent of a call sends goes to the console, which has no socket.
LEMMA CarriedAgentSide ==
  ASSUME TypeOK, Carried, NEW c \in Calls, NEW kind \in FrameKinds, NEW record \in Records,
         RouteCall(c, AgentParty(c), kind, record),
         opened' = opened \/ opened' = Append(opened, c),
         record.state = "ringing" => To[c] = Human,
         record.state \in {"ended", "missed"} => Over(c) \/ c \in rung \/ To[c] = Human
  PROVE  Carried'
  <1>1. /\ calls'[c] = record /\ \A d \in Calls \ {c} : calls'[d] = calls[d]
        /\ down' = down
    BY RouteCallFacts, PartiesOf
  <1>2. "frame" \in FrameKinds \ {"sms"} /\ Frame(c, "frame") \in Frames
    BY FrameFacts DEF FrameKinds
  <1>3. down' = Sent({}, Frame(c, "frame"))
    BY <1>1, <1>2, SentToNobody
  <1>4. UNCHANGED <<msgs, stage, up, acks, rung>>
    BY DEF RouteCall, daemon
  <1>5. Over(c)' => Over(c) \/ c \in rung \/ To[c] = Human
    BY <1>1 DEF Over
  <1>6. calls'[c].state = "ringing" => To[c] = Human
    BY <1>1
  <1> QED BY <1>1, <1>2, <1>3, <1>4, <1>5, <1>6, CarriedCall

LEMMA CarriedAgentCalls ==
  ASSUME TypeOK, Carried, NEW c \in Calls, AgentCall(c) \/ AgentSays(c) \/ AgentHangsUp(c)
  PROVE  Carried'
  <1>1. /\ AgentParty(c) \in Parties
        /\ {"invite", "frame", "close"} \subseteq FrameKinds
        /\ calls[c] \in Records
    BY PartiesOf, RecordFacts DEF Parties, FrameKinds
  <1>2. CASE AgentCall(c)
    <2>1. From[c] = AgentParty(c) /\ To[c] = Human
      BY <1>2, PartiesOf, SmallFacts DEF AgentCall
    <2>2. RouteCall(c, AgentParty(c), "invite", Invited(c)) /\ opened' = Append(opened, c)
      BY <1>2, <2>1 DEF AgentCall
    <2>3. Invited(c) \in Records
      BY <1>1, RecordFacts
    <2> QED BY <1>1, <2>1, <2>2, <2>3, CarriedAgentSide
  <1>3. CASE AgentSays(c)
    <2>1. RouteCall(c, AgentParty(c), "frame", Spoken(c, AgentParty(c))) /\ opened' = opened
      BY <1>3 DEF AgentSays
    <2>2. /\ Spoken(c, AgentParty(c)) \in Records
          /\ Spoken(c, AgentParty(c)).state # "ringing"
          /\ Spoken(c, AgentParty(c)).state \in {"ended", "missed"} => Over(c)
      BY <1>1, RecordFacts DEF Over
    <2> QED BY <1>1, <2>1, <2>2, CarriedAgentSide
  <1>4. CASE AgentHangsUp(c)
    <2>1. RouteCall(c, AgentParty(c), "close", Closed(c)) /\ opened' = opened
      BY <1>4 DEF AgentHangsUp
    <2>2. Closed(c) \in Records /\ Closed(c).state # "ringing"
      BY <1>1, RecordFacts
    <2>3. c \in rung \/ To[c] = Human
      BY <1>4, PartiesOf DEF AgentHangsUp, AgentOn
    <2> QED BY <1>1, <2>1, <2>2, <2>3, CarriedAgentSide
  <1> QED BY <1>2, <1>3, <1>4

LEMMA CarriedConsole ==
  ASSUME TypeOK, Carried, ConsoleSays \/ ConsoleHangup
  PROVE  Carried'
  <1>0. PICK c : c = cursor.call
    OBVIOUS
  <1> DEFINE S == Targets(AgentParty(c), c \in ByName)
  <1>1. c \in Calls /\ Human \in Parties
    BY <1>0 DEF TypeOK, ConsoleSays, ConsoleHangup, Parties
  <1>2. S \in SUBSET Live(AgentParty(c)) /\ (c \notin ByName => S = Live(AgentParty(c)))
    BY TargetsFacts
  <1>3. {"frame", "close"} \subseteq FrameKinds \ {"sms"}
    BY DEF FrameKinds
  <1>4. CASE ConsoleSays
    <2>1. RouteCall(c, Human, "frame", Spoken(c, Human)) /\ opened' = opened
      BY <1>0, <1>4 DEF ConsoleSays
    <2>2. /\ Spoken(c, Human) \in Records /\ Spoken(c, Human).state # "ringing"
          /\ Spoken(c, Human).state \in {"ended", "missed"} => Over(c)
      BY <1>1, RecordFacts DEF Over
    <2>3. /\ calls'[c] = Spoken(c, Human) /\ \A d \in Calls \ {c} : calls'[d] = calls[d]
          /\ down' = Sent(S, Frame(c, "frame"))
      BY <1>1, <1>3, <2>1, <2>2, RouteCallFacts
    <2>4. UNCHANGED <<msgs, stage, up, acks, rung>>
      BY <2>1 DEF RouteCall, daemon
    <2>5. (Over(c)' => Over(c)) /\ calls'[c].state # "ringing"
      BY <2>2, <2>3 DEF Over
    <2> HIDE DEF S
    <2> QED BY <1>1, <1>2, <1>3, <2>1, <2>3, <2>4, <2>5, CarriedCall
  <1>5. CASE ConsoleHangup
    <2>1. RouteCall(c, Human, "close", Closed(c)) /\ opened' = opened
      BY <1>0, <1>5 DEF ConsoleHangup
    <2>2. Closed(c) \in Records /\ Closed(c).state # "ringing"
      BY <1>1, RecordFacts
    <2>3. /\ calls'[c] = Closed(c) /\ \A d \in Calls \ {c} : calls'[d] = calls[d]
          /\ down' = Sent(S, Frame(c, "close"))
      BY <1>1, <1>3, <2>1, <2>2, RouteCallFacts
    <2>4. UNCHANGED <<msgs, stage, up, acks, rung>>
      BY <2>1 DEF RouteCall, daemon
    <2>5. calls'[c].state # "ringing"
      BY <2>2, <2>3
    <2> HIDE DEF S
    <2> QED BY <1>1, <1>2, <1>3, <2>1, <2>3, <2>4, <2>5, CarriedCall
  <1> QED BY <1>4, <1>5

\* Steps of a socket that hand over nothing.
LEMMA CarriedSocket ==
  ASSUME TypeOK, Carried, NEW r \in Sockets,
         Connect(r) \/ AuthResponse(r) \/ Close(r) \/ Claim(r) \/ Drop(r)
  PROVE  Carried'
  <1>1. \A s \in Sockets : ~Attached(s) => down[s] = <<>>
    BY DEF Carried, Routed
  <1>2. UNCHANGED <<database, rung>>
    BY DEF Connect, AuthResponse, Close, Claim, Drop, daemon
  <1>3. \A s \in Sockets :
          /\ Attached(s)' => Attached(s) /\ down'[s] = down[s] /\ acks'[s] = acks[s]
          /\ ~Attached(s)' => down'[s] = <<>>
    <2>1. CASE Connect(r)
      BY <1>1, <2>1 DEF Connect, Attached, TypeOK
    <2>2. CASE AuthResponse(r)
      BY <1>1, <2>2 DEF AuthResponse, Attached, TypeOK
    <2>3. CASE Close(r)
      BY <1>1, <2>3 DEF Close, Attached, TypeOK
    <2>4. CASE Claim(r)
      BY <1>1, <2>4 DEF Claim, Attached, TypeOK
    <2>5. CASE Drop(r)
      BY <1>1, <2>5 DEF Drop, Attached, TypeOK
    <2> QED BY <2>1, <2>2, <2>3, <2>4, <2>5
  <1> QED BY <1>2, <1>3, NothingHandedOver DEF database

LEMMA CarriedAck ==
  ASSUME TypeOK, Carried, NEW r \in Sockets, Ack(r)
  PROVE  Carried'
  <1>1. /\ msgs' = Marked(r) /\ acks' = [acks EXCEPT ![r] = Tail(@)] /\ acks[r] # <<>>
        /\ UNCHANGED <<calls, opened, stage, up, down, rung>>
    BY DEF Ack, daemon
  <1>2. acks[r] \in Seq(Ids)
    BY DEF TypeOK
  <1>3. ToSet(acks[r]) = {Head(acks[r])} \cup ToSet(Tail(acks[r]))
    BY <1>1, <1>2, TailSet
  <1>4. \A m \in Msgs :
          /\ msgs'[m] = "queued" => msgs[m] = "queued"
          /\ m = Head(acks[r]) /\ To[m] = AgentOf[r] => msgs'[m] # "queued"
    BY <1>1 DEF Marked
  <1>5. \A s \in Sockets, m \in Msgs :
          msgs'[m] = "queued" /\ To[m] = AgentOf[s] /\ m \in ToSet(acks[s]) => m \in ToSet(acks'[s])
    <2>1. acks'[r] = Tail(acks[r]) /\ \A s \in Sockets \ {r} : acks'[s] = acks[s]
      BY <1>1 DEF TypeOK
    <2> QED BY <1>3, <1>4, <2>1
  <1>6. \A s \in Sockets :
          /\ Attached(s)' => Attached(s) /\ down'[s] = down[s]
          /\ ~Attached(s)' => down'[s] = <<>>
    BY <1>1 DEF Carried, Routed, Attached
  <1> QED BY <1>1, <1>4, <1>5, <1>6, NothingHandedOver

LEMMA CarriedQuietly ==
  ASSUME TypeOK, Carried,
         \/ DaemonStops \/ ConsoleInbox \/ Befriend \/ ConsolePickup \/ ConsolePoll
         \/ \E m \in Msgs : Fetched(m)
         \/ UNCHANGED vars
  PROVE  Carried'
  <1>1. \A s \in Sockets : ~Attached(s) => down[s] = <<>>
    BY DEF Carried, Routed
  <1>2. CASE DaemonStops
    <2>1. UNCHANGED <<msgs, calls, opened, stage, acks, rung>>
      BY <1>2 DEF DaemonStops, database
    <2>2. \A s \in Sockets : ~Attached(s)' /\ down'[s] = <<>>
      BY <1>2 DEF DaemonStops, Attached
    <2> QED BY <2>1, <2>2, NothingHandedOver
  <1>3. CASE ConsoleInbox
    <2>1. UNCHANGED <<calls, opened, stage, up, down, acks, rung>>
      BY <1>3 DEF ConsoleInbox, sockets, daemon
    <2>2. \A m \in Msgs : msgs'[m] = "queued" => msgs[m] = "queued"
      BY <1>3 DEF ConsoleInbox
    <2>3. \A s \in Sockets :
            /\ Attached(s)' => Attached(s) /\ down'[s] = down[s]
            /\ ~Attached(s)' => down'[s] = <<>>
      BY <1>1, <2>1 DEF Attached
    <2> QED BY <2>1, <2>2, <2>3, NothingHandedOver
  <1>4. ASSUME UNCHANGED <<msgs, calls, opened, stage, up, down, acks, rung>>
        PROVE  Carried'
    <2>1. \A s \in Sockets :
            /\ Attached(s)' => Attached(s) /\ down'[s] = down[s]
            /\ ~Attached(s)' => down'[s] = <<>>
      BY <1>1, <1>4 DEF Attached
    <2> QED BY <1>4, <2>1, NothingHandedOver
  <1>5. CASE Befriend
    BY <1>4, <1>5 DEF Befriend, database, sockets, daemon
  <1>6. CASE ConsolePickup
    BY <1>4, <1>6 DEF ConsolePickup, database, sockets, daemon
  <1>7. CASE ConsolePoll
    <2>1. UNCHANGED <<database, sockets, daemon>>
      BY <1>7, PollFacts
    <2> QED BY <1>4, <2>1 DEF database, sockets, daemon
  <1>8. CASE \E m \in Msgs : Fetched(m)
    BY <1>4, <1>8 DEF Fetched, database, sockets
  <1>9. CASE UNCHANGED vars
    BY <1>4, <1>9 DEF vars, database, sockets, daemon
  <1> QED BY <1>2, <1>3, <1>5, <1>6, <1>7, <1>8, <1>9

LEMMA CarriedNext ==
  ASSUME TypeOK, Carried, [Next]_vars
  PROVE  Carried'
  <1>1. CASE UNCHANGED vars
    BY <1>1, CarriedQuietly
  <1>2. CASE Next
    BY <1>2, CarriedSocket, CarriedVerified, CarriedReceive, CarriedAck, CarriedQuietly, CarriedSend,
       CarriedConsoleCall, CarriedAgentCalls, CarriedConsole DEF Next
  <1> QED BY <1>1, <1>2

-----------------------------------------------------------------------------
(* The console's lines.                                                    *)

\* Nothing is shown under a cursor that starts over.
LEMMA ShownFresh ==
  ASSUME shown' = <<>>, cursor'.seq = 0
  PROVE  ShownOnce'
  <1>1. ToSet(shown') = {} /\ DOMAIN shown' = {}
    BY EmptySet
  <1>2. 1 .. cursor'.seq = {}
    OBVIOUS
  <1> QED BY <1>1, <1>2 DEF ShownOnce

\* Lines that are added change nothing of what was shown.
LEMMA ShownKept ==
  ASSUME TypeOK, ShownOnce, cursor' = cursor, shown' = shown,
         \A c \in Calls : \A i \in 1 .. Len(calls[c].lines) : calls'[c].lines[i] = calls[c].lines[i]
  PROVE  ShownOnce'
  <1>1. CASE cursor = None
    BY <1>1 DEF ShownOnce
  <1>2. CASE cursor # None
    <2>1. cursor.call \in Calls /\ cursor.seq \in Nat /\ cursor.seq <= Len(calls[cursor.call].lines)
      BY <1>2 DEF TypeOK
    <2>2. Len(calls[cursor.call].lines) \in Nat
      <3>1. calls[cursor.call].lines \in Seq(Parties)
        BY <2>1 DEF TypeOK
      <3> QED BY <3>1, LenProperties
    <2>3. \A i \in 1 .. cursor.seq : calls'[cursor.call].lines[i] = calls[cursor.call].lines[i]
      BY <2>1, <2>2
    <2> QED BY <1>2, <2>3 DEF ShownOnce
  <1> QED BY <1>1, <1>2

LEMMA ShownByCall ==
  ASSUME TypeOK, ShownOnce, NEW c \in Calls, NEW p \in {Human, AgentParty(c)}, NEW kind \in FrameKinds,
         NEW record \in Records, RouteCall(c, p, kind, record),
         record.lines = calls[c].lines \/ \E q \in Parties : record.lines = Append(calls[c].lines, q),
         UNCHANGED console
  PROVE  ShownOnce'
  <1>1. calls'[c] = record /\ \A d \in Calls \ {c} : calls'[d] = calls[d]
    BY RouteCallFacts
  <1>2. calls[c].lines \in Seq(Parties)
    BY DEF TypeOK
  <1>3. \A i \in 1 .. Len(calls[c].lines) : record.lines[i] = calls[c].lines[i]
    BY <1>2, AppendProperties
  <1>4. \A d \in Calls : \A i \in 1 .. Len(calls[d].lines) : calls'[d].lines[i] = calls[d].lines[i]
    BY <1>1, <1>3
  <1>5. cursor' = cursor /\ shown' = shown
    BY DEF console
  <1> QED BY <1>4, <1>5, ShownKept

LEMMA ShownByCalls ==
  ASSUME TypeOK, ShownOnce, NEW c \in Calls,
         ConsoleCall(c) \/ AgentCall(c) \/ AgentSays(c) \/ AgentHangsUp(c)
  PROVE  ShownOnce'
  <1>1. /\ AgentParty(c) \in Parties /\ {"invite", "frame", "close"} \subseteq FrameKinds
    BY PartiesOf DEF Parties, FrameKinds
  <1>2. CASE ConsoleCall(c)
    <2>1. shown' = <<>> /\ cursor' = NewCursor(c, TRUE)
      BY <1>2 DEF ConsoleCall
    <2>2. cursor'.seq = 0
      BY <2>1, NewCursorFacts
    <2> QED BY <2>1, <2>2, ShownFresh
  <1>3. CASE AgentCall(c)
    <2>1. From[c] = AgentParty(c)
      BY <1>3, PartiesOf, SmallFacts DEF AgentCall
    <2>2. RouteCall(c, AgentParty(c), "invite", Invited(c)) /\ UNCHANGED console
      BY <1>3, <2>1 DEF AgentCall
    <2>3. Invited(c) \in Records /\ Invited(c).lines = calls[c].lines
      BY <1>1, RecordFacts
    <2> QED BY <1>1, <2>2, <2>3, ShownByCall
  <1>4. CASE AgentSays(c)
    <2>1. RouteCall(c, AgentParty(c), "frame", Spoken(c, AgentParty(c))) /\ UNCHANGED console
      BY <1>4 DEF AgentSays
    <2>2. /\ Spoken(c, AgentParty(c)) \in Records
          /\ Spoken(c, AgentParty(c)).lines = Append(calls[c].lines, AgentParty(c))
      BY <1>1, RecordFacts
    <2> QED BY <1>1, <2>1, <2>2, ShownByCall
  <1>5. CASE AgentHangsUp(c)
    <2>1. RouteCall(c, AgentParty(c), "close", Closed(c)) /\ UNCHANGED console
      BY <1>5 DEF AgentHangsUp
    <2>2. Closed(c) \in Records /\ Closed(c).lines = calls[c].lines
      BY <1>1, RecordFacts
    <2> QED BY <1>1, <2>1, <2>2, ShownByCall
  <1> QED BY <1>2, <1>3, <1>4, <1>5

\* A poll adds the lines after the cursor, in their order, and moves it over them.
LEMMA ShownByPoll ==
  ASSUME TypeOK, ShownOnce, ConsolePoll
  PROVE  ShownOnce'
  <1>1. calls' = calls
    BY PollFacts DEF database
  <1>2. CASE shown' = <<>> /\ cursor' = None
    BY <1>2 DEF ShownOnce
  <1>3. ASSUME NEW lines \in LinesAfter(At.call, At.seq), shown' = Before \o lines,
               cursor' = [call |-> At.call, seq |-> LastForeign(At.call, At.seq), sawInvite |-> TRUE]
        PROVE  ShownOnce'
    <2>1. PICK c, seq, last : c = At.call /\ seq = At.seq /\ last = LastForeign(c, seq)
      OBVIOUS
    <2>2. c \in Calls /\ Len(calls[c].lines) \in Nat /\ seq \in 0 .. Len(calls[c].lines) /\ Before \in Seq(Nat)
      BY <2>1, AtFacts, PollFacts
    <2>3. lines \in LinesAfter(c, seq)
      BY <2>1
    <2>4. /\ lines \in Seq(Nat) /\ ToSet(lines) = ForeignAfter(c, seq)
          /\ \A i, j \in DOMAIN lines : i < j => lines[i] < lines[j]
          /\ last \in seq .. Len(calls[c].lines)
          /\ ForeignAfter(c, seq) = {i \in seq + 1 .. last : calls[c].lines[i] # Human}
      BY <2>1, <2>2, <2>3, ShownFacts
    <2>5. /\ \A i, j \in DOMAIN Before : i < j => Before[i] < Before[j]
          /\ ToSet(Before) = {i \in 1 .. seq : calls[c].lines[i] # Human}
      <3>1. CASE cursor # None
        BY <2>1, <3>1 DEF ShownOnce, At, Before
      <3>2. CASE cursor = None
        <4>1. Before = <<>> /\ At = NewCursor(LatestOpenCall(Human), FALSE)
          BY <3>2 DEF At, Before
        <4>2. seq = 0
          <5>1. LatestOpenCall(Human) \in Calls
            BY <3>2, PollFacts, LatestFacts
          <5>2. NewCursor(LatestOpenCall(Human), FALSE).seq = 0
            BY <5>1, NewCursorFacts
          <5> QED BY <2>1, <4>1, <5>2
        <4>3. ToSet(Before) = {} /\ DOMAIN Before = {}
          BY <4>1, EmptySet
        <4> QED BY <4>2, <4>3
      <3> QED BY <3>1, <3>2
    <2> DEFINE all == Before \o lines
    <2>6. /\ all \in Seq(Nat) /\ ToSet(all) = ToSet(Before) \cup ToSet(lines)
          /\ DOMAIN Before = 1 .. Len(Before) /\ DOMAIN lines = 1 .. Len(lines)
          /\ Len(Before) \in Nat /\ Len(lines) \in Nat
          /\ DOMAIN all = 1 .. Len(Before) + Len(lines)
          /\ \A i \in 1 .. Len(Before) + Len(lines) :
               all[i] = IF i <= Len(Before) THEN Before[i] ELSE lines[i - Len(Before)]
      <3>1. /\ all \in Seq(Nat) /\ Len(all) = Len(Before) + Len(lines)
            /\ \A i \in 1 .. Len(Before) + Len(lines) :
                 all[i] = IF i <= Len(Before) THEN Before[i] ELSE lines[i - Len(Before)]
        BY <2>2, <2>4, ConcatProperties
      <3>2. ToSet(all) = ToSet(Before) \cup ToSet(lines)
        BY <2>2, <2>4, ConcatSet
      <3>3. DOMAIN Before = 1 .. Len(Before) /\ Len(Before) \in Nat
        BY <2>2, LenProperties
      <3>4. DOMAIN lines = 1 .. Len(lines) /\ Len(lines) \in Nat
        BY <2>4, LenProperties
      <3>5. DOMAIN all = 1 .. Len(all)
        BY <3>1, LenProperties
      <3> QED BY <3>1, <3>2, <3>3, <3>4, <3>5
    <2> HIDE DEF all
    <2>7. /\ \A i \in 1 .. Len(Before) : Before[i] \in Nat /\ Before[i] <= seq
          /\ \A i \in 1 .. Len(lines) : lines[i] \in Nat /\ lines[i] > seq
      <3>1. \A i \in 1 .. Len(Before) : Before[i] \in ToSet(Before)
        BY <2>6 DEF ToSet
      <3>2. \A i \in 1 .. Len(lines) : lines[i] \in ToSet(lines)
        BY <2>6 DEF ToSet
      <3> QED BY <2>2, <2>4, <2>5, <3>1, <3>2
    <2>8. ASSUME NEW i \in DOMAIN all, NEW j \in DOMAIN all, i < j
          PROVE  all[i] < all[j]
      <3>1. CASE j <= Len(Before)
        <4>1. i \in 1 .. Len(Before) /\ j \in 1 .. Len(Before)
          BY <2>6, <2>8, <3>1
        <4>2. all[i] = Before[i] /\ all[j] = Before[j]
          BY <2>6, <4>1
        <4> QED BY <2>5, <2>6, <2>8, <4>1, <4>2
      <3>2. CASE i > Len(Before)
        <4>1. i - Len(Before) \in 1 .. Len(lines) /\ j - Len(Before) \in 1 .. Len(lines)
          BY <2>6, <2>8, <3>2
        <4>2. all[i] = lines[i - Len(Before)] /\ all[j] = lines[j - Len(Before)]
          <5>1. i \in 1 .. Len(Before) + Len(lines) /\ j \in 1 .. Len(Before) + Len(lines)
            BY <2>6, <2>8
          <5>2. ~(i <= Len(Before)) /\ ~(j <= Len(Before))
            BY <2>6, <2>8, <3>2, <5>1
          <5> QED BY <2>6, <5>1, <5>2
        <4>3. i - Len(Before) < j - Len(Before)
          BY <2>6, <2>8
        <4> QED BY <2>4, <2>6, <4>1, <4>2, <4>3
      <3>3. CASE i <= Len(Before) /\ ~(j <= Len(Before))
        <4>1. i \in 1 .. Len(Before) /\ j - Len(Before) \in 1 .. Len(lines)
          BY <2>6, <2>8, <3>3
        <4>2. all[i] = Before[i] /\ all[j] = lines[j - Len(Before)]
          BY <2>6, <2>8, <3>3
        <4>3. Before[i] \in Nat /\ Before[i] <= seq
          BY <2>7, <4>1
        <4>4. lines[j - Len(Before)] \in Nat /\ lines[j - Len(Before)] > seq
          BY <2>7, <4>1
        <4> QED BY <2>2, <4>2, <4>3, <4>4
      <3> QED BY <2>6, <3>1, <3>2, <3>3
    <2>9. ToSet(all) = {i \in 1 .. last : calls[c].lines[i] # Human}
      <3>1. 1 .. last = (1 .. seq) \cup (seq + 1 .. last)
        BY <2>2, <2>4
      <3> QED BY <2>4, <2>5, <2>6, <3>1
    <2>10. cursor'.call = c /\ cursor'.seq = last /\ shown' = all
      BY <1>3, <2>1 DEF all
    <2> QED BY <1>1, <2>8, <2>9, <2>10 DEF ShownOnce
  <1> QED BY <1>2, <1>3, PollFacts

LEMMA ShownByConsole ==
  ASSUME TypeOK, ShownOnce, ConsolePickup \/ ConsoleSays \/ ConsoleHangup
  PROVE  ShownOnce'
  <1>0. PICK c : c = cursor.call
    OBVIOUS
  <1>1. c \in Calls /\ Human \in Parties /\ "frame" \in FrameKinds
    BY <1>0 DEF TypeOK, ConsolePickup, ConsoleSays, ConsoleHangup, Parties, FrameKinds
  <1>2. CASE ConsolePickup
    <2>1. shown' = <<>> /\ cursor' = NewCursor(c, TRUE)
      BY <1>0, <1>2 DEF ConsolePickup
    <2>2. cursor'.seq = 0
      BY <1>1, <2>1, NewCursorFacts
    <2> QED BY <2>1, <2>2, ShownFresh
  <1>3. CASE ConsoleSays
    <2>1. RouteCall(c, Human, "frame", Spoken(c, Human)) /\ UNCHANGED console
      BY <1>0, <1>3 DEF ConsoleSays
    <2>2. Spoken(c, Human) \in Records /\ Spoken(c, Human).lines = Append(calls[c].lines, Human)
      BY <1>1, RecordFacts
    <2> QED BY <1>1, <2>1, <2>2, ShownByCall
  <1>4. CASE ConsoleHangup
    BY <1>4 DEF ConsoleHangup, ShownOnce
  <1> QED BY <1>2, <1>3, <1>4

LEMMA ShownNext ==
  ASSUME TypeOK, ShownOnce, [Next]_vars
  PROVE  ShownOnce'
  <1>1. ASSUME UNCHANGED <<calls, console>>
        PROVE  ShownOnce'
    BY <1>1, ShownKept DEF console
  <1>2. CASE UNCHANGED vars
    BY <1>1, <1>2 DEF vars, database
  <1>3. ASSUME NEW s \in Sockets,
               \/ Connect(s) \/ AuthResponse(s) \/ Verified(s) \/ Drop(s) \/ Close(s) \/ Claim(s)
               \/ Receive(s) \/ Ack(s)
        PROVE  ShownOnce'
    BY <1>1, <1>3
       DEF Connect, AuthResponse, Verified, Drop, Close, Claim, Receive, Ack, database
  <1>4. ASSUME DaemonStops \/ ConsoleInbox \/ Befriend \/ \E m \in Msgs : Send(m) \/ Fetched(m)
        PROVE  ShownOnce'
    BY <1>1, <1>4 DEF DaemonStops, ConsoleInbox, Befriend, Send, Fetched, database
  <1> QED BY <1>2, <1>3, <1>4, ShownByCalls, ShownByPoll, ShownByConsole DEF Next

-----------------------------------------------------------------------------
(* The theorems.                                                           *)

LEMMA InvInit == Init => IInv
  <1> SUFFICES ASSUME Init
               PROVE  IInv
    OBVIOUS
  <1>1. \A S : <<>> \in Seq(S)
    BY EmptySet
  <1>2. TypeOK
    BY <1>1, SmallFacts DEF Init, TypeOK, CallStates, Stages
  <1>3. Routed
    BY EmptySet DEF Init, Routed
  <1>4. \A s \in Sockets : ~Attached(s) /\ DOMAIN down[s] = {}
    BY EmptySet DEF Init, Attached
  <1>5. QueuedIsCarried /\ RingIsCarried /\ RingIsTakenBack
    BY <1>4 DEF QueuedIsCarried, RingIsCarried, RingIsTakenBack
  <1>6. ShownOnce
    BY DEF Init, ShownOnce
  <1> QED BY <1>2, <1>3, <1>5, <1>6 DEF IInv

LEMMA InvNext == IInv /\ [Next]_vars => IInv'
  BY TypedNext, CarriedNext, ShownNext DEF IInv, Carried

LEMMA Invariance == Spec => []IInv
  BY InvInit, InvNext, PTL DEF Spec

\* The tables, the sockets' queues and acks, and the console's cursor stay in
\* their types: a frame that is received is of a message or a call the platform
\* has, and the cursor never runs past the lines of its call.
THEOREM Typing == Spec => []TypeOK
  <1>1. IInv => TypeOK
    BY DEF IInv
  <1> QED BY <1>1, Invariance, PTL

\* While an agent is attached, every message queued for it and not addressed by
\* nickname is on its way down each of its connections, or its ack on the way up:
\* no message waits for a reconnection that nothing would cause.
THEOREM NothingWaits == Spec => []QueuedIsCarried
  <1>1. IInv => QueuedIsCarried
    BY DEF IInv
  <1> QED BY <1>1, Invariance, PTL

\* A ringing call that is the newest of the agent it is for is on its way down each
\* of that agent's connections, unless the daemon has rung.
THEOREM RingsCarried == Spec => []RingIsCarried
  <1>1. IInv => RingIsCarried
    BY DEF IInv
  <1> QED BY <1>1, Invariance, PTL

\* An invite on its way to a daemon that has not rung is followed there by the
\* close once its call is over.
THEOREM RingsTakenBack == Spec => []RingIsTakenBack
  <1>1. IInv => RingIsTakenBack
    BY DEF IInv
  <1> QED BY <1>1, Invariance, PTL

\* The console was shown, in order and once each, exactly the other party's lines
\* up to its cursor.
THEOREM LinesShownOnce == Spec => []ShownOnce
  <1>1. IInv => ShownOnce
    BY DEF IInv
  <1> QED BY <1>1, Invariance, PTL

=============================================================================
