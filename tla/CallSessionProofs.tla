------------------------- MODULE CallSessionProofs -------------------------
(* Theorems about CallSession, for every set of parties and calls.         *)
EXTENDS CallSession, SequenceTheorems, WellFoundedInduction, TLAPS

-----------------------------------------------------------------------------
(* Sequences and positions.                                                *)

\* Append adds exactly its element to the range.
LEMMA AppendRange ==
    ASSUME NEW S, NEW s \in Seq(S), NEW e \in S
    PROVE  /\ Append(s, e) \in Seq(S)
           /\ Range(Append(s, e)) = Range(s) \cup {e}
<1>1. Append(s, e) = s \o <<e>> /\ <<e>> \in Seq(S)
    BY AppendIsConcat
<1>2. Range(<<e>>) = {e}
    BY DEF Range
<1>3. s \o <<e>> \in Seq(S)
    BY <1>1, ConcatProperties
<1>4. Range(s \o <<e>>) = Range(s) \cup Range(<<e>>)
    <2> DEFINE single == <<e>>
    <2>1. single \in Seq(S)
        BY <1>1
    <2> HIDE DEF single
    <2>2. Range(s \o single) = Range(s) \cup Range(single)
        BY <2>1, RangeConcatenation
    <2> QED BY <2>2 DEF single
<1> QED BY <1>1, <1>2, <1>3, <1>4

\* A sequence over a set is one over any larger set.
LEMMA SeqMonotone ==
    ASSUME NEW S, NEW T, S \subseteq T, NEW s \in Seq(S)
    PROVE  s \in Seq(T)
OBVIOUS

\* Splicing one element out leaves elements of the sequence only.
LEMMA RemoveAtSeq ==
    ASSUME NEW S, NEW s \in Seq(S), NEW i \in DOMAIN s
    PROVE  RemoveAt(s, i) \in Seq(S)
<1>1. i \in 1..Len(s) /\ Len(s) \in Nat
    BY LenProperties
<1>2. \A k \in 1..Len(s) : s[k] \in S
    BY ElementOfSeq
<1>3. SubSeq(s, 1, i - 1) \in Seq(S)
    <2>1. \A k \in 1..(i - 1) : s[k] \in S
        BY <1>1, <1>2
    <2>2. 1 \in Int /\ i - 1 \in Int
        BY <1>1
    <2> QED BY <2>1, <2>2, SubSeqProperties
<1>4. SubSeq(s, i + 1, Len(s)) \in Seq(S)
    <2>1. \A k \in (i + 1)..Len(s) : s[k] \in S
        BY <1>1, <1>2
    <2>2. i + 1 \in Int /\ Len(s) \in Int
        BY <1>1
    <2> QED BY <2>1, <2>2, SubSeqProperties
<1> QED BY <1>3, <1>4, ConcatProperties DEF RemoveAt

\* A set of positions that is not empty has a first one and a last one.
LEMMA FirstPosition ==
    ASSUME NEW I \in SUBSET Nat, I # {}
    PROVE  \E i \in I : \A j \in I : i <= j
<1> DEFINE Below == {pair \in Nat \X Nat : pair[1] < pair[2]}
<1>1. IsWellFoundedOn(Below, Nat)
    <2>1. OpToRel(<, Nat) = Below
        BY DEF OpToRel
    <2> QED BY <2>1, NatLessThanWellFounded
<1>2. PICK i \in I : \A j \in I : <<j, i>> \notin Below
    BY <1>1, WFMin
<1>3. ASSUME NEW j \in I
      PROVE  i <= j
    <2>1. ~(j < i)
        <3>1. \A k, l \in Nat : k < l => <<k, l>> \in Below
            OBVIOUS
        <3> HIDE DEF Below
        <3> QED BY <1>2, <3>1
    <2> QED BY <2>1
<1> QED BY <1>3

LEMMA LastPosition ==
    ASSUME NEW n \in Nat, NEW I \in SUBSET (1..n), I # {}
    PROVE  \E i \in I : \A j \in I : j <= i
<1> DEFINE R == {k \in Nat : n - k \in I}
<1>1. PICK i \in I : TRUE
    OBVIOUS
<1>2. n - i \in R /\ n - (n - i) = i
    BY <1>1
<1>3. PICK k \in R : \A l \in R : k <= l
    BY <1>2, FirstPosition
<1>4. \A j \in I : n - j \in R
    OBVIOUS
<1>5. n - k \in I /\ \A j \in I : j <= n - k
    BY <1>3, <1>4
<1> QED BY <1>5

-----------------------------------------------------------------------------
(* Operators.                                                              *)

LEMMA PeerType ==
    ASSUME NEW p \in Parties, NEW c \in Calls
    PROVE  Peer(p, c) \in Parties
BY CallsAssumption DEF Peer

LEMMA FrameType ==
    ASSUME NEW c \in Calls, NEW kind \in {"invite", "frame", "close"}, NEW p \in Parties, NEW n \in 0..MaxSays
    PROVE  Frame(c, kind, p, n) \in Frames
BY DEF Frame, Frames

\* awaitCall takes one of the frames that match.
LEMMA FirstOfMatch ==
    ASSUME NEW p \in Agents, NEW c, pending[p] \in Seq(Frames), Match(p, c) # {}
    PROVE  FirstOf(Match(p, c)) \in Match(p, c)
<1>1. Match(p, c) \in SUBSET Nat
    BY LenProperties DEF Match
<1>2. \E i \in Match(p, c) : \A j \in Match(p, c) : i <= j
    BY <1>1, FirstPosition
<1> QED BY <1>2 DEF FirstOf

\* takeInvite takes one of the invites.
LEMMA LastInviteIn ==
    ASSUME NEW p \in Agents, pending[p] \in Seq(Frames), Invites(p) # {}
    PROVE  LastInvite(p) \in Invites(p)
<1>1. Invites(p) \in SUBSET (1..Len(pending[p])) /\ Len(pending[p]) \in Nat
    BY LenProperties DEF Invites
<1>2. \E i \in Invites(p) : \A j \in Invites(p) : j <= i
    BY <1>1, LastPosition
<1> QED BY <1>2 DEF LastInvite

-----------------------------------------------------------------------------
(* The log: what a frame does to a row and a transcript.                    *)

States == {"none", "ringing", "active", "ended", "missed"}
Rows == [state : States, answered : BOOLEAN]

\* A frame keeps a row a row, never removes it, and sets the answer for a line
\* only; what was ended stays ended.
LEMMA AfterFrameRow ==
    ASSUME NEW r \in Rows, NEW f \in Frames,
           r.state = "none" => ~r.answered, r.state = "ended" => r.answered
    PROVE  LET s == AfterFrame(r, f) IN
           /\ s \in Rows
           /\ r.state # "none" => s.state # "none"
           /\ f.kind = "invite" => s.state # "none" /\ s.answered = r.answered
           /\ f.kind = "frame" => (s.state = "none" <=> r.state = "none")
           /\ f.kind = "frame" /\ s.state # "none" => s.answered
           /\ f.kind = "close" => s.answered = r.answered /\ (s.state = "none" <=> r.state = "none")
           /\ s.state = "none" => ~s.answered
           /\ s.state = "ended" => s.answered
           /\ r.state = "ended" => s.state = "ended"
           /\ r.state = "missed" => s.state \in {"missed", "ended"}
<1>1. CASE f.kind = "invite"
    BY <1>1 DEF AfterFrame, AfterInvite, Rows, States
<1>2. CASE f.kind = "frame"
    BY <1>2 DEF AfterFrame, AfterAnswer, Rows, States
<1>3. CASE f.kind = "close"
    BY <1>3 DEF AfterFrame, AfterClose, Rows, States
<1> QED BY <1>1, <1>2, <1>3 DEF Frames

\* A line is recorded once, at the end.
LEMMA InsertedScript ==
    ASSUME NEW s \in Seq(Frames), NEW f \in Frames
    PROVE  /\ Inserted(s, f) \in Seq(Frames)
           /\ Range(s) \subseteq Range(Inserted(s, f))
           /\ f.kind = "frame" => f \in Range(Inserted(s, f))
           /\ Inserted(s, f) # s => /\ f.kind = "frame" /\ f \notin Range(s)
                                   /\ Inserted(s, f) = Append(s, f)
BY AppendRange DEF Inserted

-----------------------------------------------------------------------------
(* The part of the invariant that speaks of the log.                        *)

LogInv ==
    /\ rec \in [Calls -> Rows]
    /\ script \in [Calls -> Seq(Frames)]
    /\ said \in 0..MaxSays
    /\ placed \subseteq Calls
    /\ \A c \in Calls \ placed : script[c] = <<>>
    /\ ScriptNumbered /\ AnsweredIffSpoken /\ OutcomeFits

LEMMA IInvLog == IInv => LogInv
BY DEF IInv, LogInv, TypeOK, OnlyPlaced, Rows, States

\* What a step does to the log: it may only add.
LogGrows ==
    /\ LogInv'
    /\ Recorded \subseteq Recorded'
    /\ placed \subseteq placed'
    /\ \A c \in Calls :
        /\ rec[c].state = "ended" => rec'[c].state = "ended"
        /\ rec[c].state = "missed" => rec'[c].state \in {"missed", "ended"}

\* A frame the log may take in: a new call, the next line, a hangup, or what it has.
Admissible(f) ==
    \/ f.kind = "invite" /\ f.call \notin placed
    \/ f.kind = "frame" /\ f.call \in placed /\ f.n = said + 1 /\ said' = said + 1
    \/ f.kind = "close" /\ f.call \in placed
    \/ f \in Recorded

\* A step that leaves the log alone.
LEMMA QuietLog ==
    ASSUME LogInv, UNCHANGED log, placed \subseteq placed', placed' \subseteq Calls,
           said' \in 0..MaxSays, said <= said'
    PROVE  LogGrows
<1>1. rec' = rec /\ script' = script
    BY DEF log
<1>2. Recorded \subseteq Recorded'
    BY <1>1 DEF Recorded
<1>3. ScriptNumbered'
    <2> SUFFICES ASSUME NEW c \in Calls, NEW i \in DOMAIN script[c]
                 PROVE  /\ script[c][i].n <= said'
                        /\ \A j \in DOMAIN script[c] : i < j => script[c][i].n < script[c][j].n
        BY <1>1 DEF ScriptNumbered
    <2>1. script[c][i] \in Frames
        BY ElementOfSeq, LenProperties DEF LogInv
    <2>2. script[c][i].n \in Int /\ said \in Int /\ said' \in Int /\ said <= said'
        BY <2>1 DEF Frames, LogInv
    <2>3. /\ script[c][i].n <= said
          /\ \A j \in DOMAIN script[c] : i < j => script[c][i].n < script[c][j].n
        BY DEF LogInv, ScriptNumbered
    <2> QED BY <2>2, <2>3
<1>4. AnsweredIffSpoken' /\ OutcomeFits'
    BY <1>1 DEF LogInv, AnsweredIffSpoken, OutcomeFits
<1> QED BY <1>1, <1>2, <1>3, <1>4 DEF LogGrows, LogInv

\* A step that records a frame.
LEMMA PersistLog ==
    ASSUME LogInv, NEW f \in Frames, Persist(f), Admissible(f),
           placed' = placed \cup {f.call}, said' \in 0..MaxSays, said <= said'
    PROVE  LogGrows /\ f \in Recorded'
<1> DEFINE k == f.call
           r == rec[k]
           s == script[k]
<1>1. k \in Calls /\ r \in Rows /\ s \in Seq(Frames)
    BY DEF Frames, LogInv
<1>2. /\ rec' = [rec EXCEPT ![k] = AfterFrame(r, f)]
      /\ script' = [script EXCEPT ![k] = Inserted(s, f)]
    BY DEF Persist
<1>3. /\ r.state = "none" => ~r.answered
      /\ r.state = "ended" => r.answered
    BY <1>1 DEF LogInv, OutcomeFits
<1> DEFINE r2 == AfterFrame(r, f)
           s2 == Inserted(s, f)
<1>4. /\ r2 \in Rows
      /\ r.state # "none" => r2.state # "none"
      /\ f.kind = "invite" => r2.state # "none" /\ r2.answered = r.answered
      /\ f.kind = "frame" => (r2.state = "none" <=> r.state = "none")
      /\ f.kind = "frame" /\ r2.state # "none" => r2.answered
      /\ f.kind = "close" => r2.answered = r.answered /\ (r2.state = "none" <=> r.state = "none")
      /\ r2.state = "none" => ~r2.answered
      /\ r2.state = "ended" => r2.answered
      /\ r.state = "ended" => r2.state = "ended"
      /\ r.state = "missed" => r2.state \in {"missed", "ended"}
    BY <1>1, <1>3, AfterFrameRow
<1>5. /\ s2 \in Seq(Frames)
      /\ Range(s) \subseteq Range(s2)
      /\ f.kind = "frame" => f \in Range(s2)
      /\ s2 # s => f.kind = "frame" /\ f \notin Range(s) /\ s2 = Append(s, f)
    BY <1>1, InsertedScript
<1>6. f.kind \in {"invite", "frame", "close"} /\ f.n \in 0..MaxSays
    BY DEF Frames
<1> HIDE DEF r2, s2
<1>7. /\ rec'[k] = r2 /\ script'[k] = s2
      /\ \A c \in Calls : c # k => rec'[c] = rec[c] /\ script'[c] = script[c]
      /\ rec' \in [Calls -> Rows] /\ script' \in [Calls -> Seq(Frames)]
    BY <1>1, <1>2, <1>4, <1>5 DEF LogInv, r2, s2
<1>8. placed \subseteq placed' /\ placed' \subseteq Calls /\ k \in placed'
    BY <1>1 DEF LogInv
<1>9. Recorded \subseteq Recorded' /\ f \in Recorded'
    <2>1. ASSUME NEW g \in Recorded
          PROVE  g \in Recorded'
        <3>1. g \in Frames /\ g.call \in Calls /\ g.call \in placed
            BY DEF Recorded, Frames
        <3>2. g.kind = "invite" => rec'[g.call].state # "none"
            BY <3>1, <1>4, <1>7 DEF Recorded
        <3>3. g.kind = "frame" => g \in Range(script'[g.call])
            BY <3>1, <1>5, <1>7 DEF Recorded
        <3> QED BY <3>1, <3>2, <3>3, <1>8 DEF Recorded
    <2>2. f \in Recorded'
        BY <1>4, <1>5, <1>7, <1>8 DEF Recorded
    <2> QED BY <2>1, <2>2
<1>10. s2 # s => f.n = said + 1 /\ said' = said + 1 /\ k \in placed
    <2>1. f \in Recorded /\ f.kind = "frame" => f \in Range(s)
        BY DEF Recorded
    <2> QED BY <2>1, <1>5 DEF Admissible
<1>11. \A c \in Calls \ placed' : script'[c] = <<>>
    BY <1>7, <1>8 DEF LogInv
<1>12. ScriptNumbered'
    <2> SUFFICES ASSUME NEW c \in Calls, NEW i \in DOMAIN script'[c]
                 PROVE  /\ script'[c][i].n <= said'
                        /\ \A j \in DOMAIN script'[c] : i < j => script'[c][i].n < script'[c][j].n
        BY DEF ScriptNumbered
    <2>1. \A l \in DOMAIN script[c] :
            /\ script[c][l].n \in Int
            /\ script[c][l].n <= said
            /\ \A j \in DOMAIN script[c] : l < j => script[c][l].n < script[c][j].n
        <3> SUFFICES ASSUME NEW l \in DOMAIN script[c]
                     PROVE  script[c][l].n \in Int
            BY DEF LogInv, ScriptNumbered
        <3>1. script[c][l] \in Frames
            BY ElementOfSeq, LenProperties DEF LogInv
        <3> QED BY <3>1 DEF Frames
    <2>2. said \in Int /\ said' \in Int
        BY DEF LogInv
    <2>3. CASE script'[c] = script[c]
        BY <2>1, <2>2, <2>3
    <2>4. CASE script'[c] # script[c]
        <3>1. c = k /\ s2 # s /\ script[c] = s /\ script'[c] = Append(s, f)
            BY <2>4, <1>5, <1>7
        <3>2. f.n = said + 1 /\ said' = said + 1
            BY <3>1, <1>10
        <3>3. /\ Len(s) \in Nat /\ DOMAIN s = 1..Len(s)
              /\ DOMAIN Append(s, f) = 1..(Len(s) + 1)
              /\ \A l \in 1..Len(s) : Append(s, f)[l] = s[l]
              /\ Append(s, f)[Len(s) + 1] = f
            BY <1>1, AppendProperties, LenProperties
        <3>4. i \in 1..(Len(s) + 1)
            BY <3>1, <3>3
        <3>5. CASE i = Len(s) + 1
            BY <3>1, <3>2, <3>3, <3>5, <2>2
        <3>6. CASE i # Len(s) + 1
            <4>1. i \in 1..Len(s)
                BY <3>3, <3>4, <3>6
            <4>2. /\ s[i].n \in Int
                  /\ s[i].n <= said
                  /\ \A j \in 1..Len(s) : i < j => s[i].n < s[j].n
                BY <4>1, <2>1, <3>1, <3>3
            <4>3. ASSUME NEW j \in 1..(Len(s) + 1), i < j
                  PROVE  s[i].n < Append(s, f)[j].n
                <5>1. CASE j = Len(s) + 1
                    BY <5>1, <4>2, <3>2, <3>3, <2>2
                <5>2. CASE j # Len(s) + 1
                    <6>1. j \in 1..Len(s)
                        BY <5>2, <3>3
                    <6> QED BY <6>1, <4>2, <4>3, <3>3
                <5> QED BY <5>1, <5>2
            <4>4. script'[c][i] = s[i] /\ s[i].n <= said'
                BY <4>1, <4>2, <3>1, <3>2, <3>3, <2>2
            <4>5. ASSUME NEW j \in DOMAIN script'[c], i < j
                  PROVE  script'[c][i].n < script'[c][j].n
                BY <4>3, <4>4, <4>5, <3>1, <3>3
            <4> QED BY <4>4, <4>5
        <3> QED BY <3>5, <3>6
    <2> QED BY <2>3, <2>4
<1>13. AnsweredIffSpoken'
    <2>1. r2.state # "none" => (r2.answered <=> s2 # <<>>)
        <3>1. r.state # "none" => (r.answered <=> s # <<>>)
            BY <1>1 DEF LogInv, AnsweredIffSpoken
        <3>2. CASE f.kind = "invite"
            <4>1. s2 = s
                BY <3>2, <1>5
            <4>2. r.state = "none" => f \notin Recorded
                BY <3>2 DEF Recorded
            <4>3. r.state = "none" => s = <<>>
                BY <4>2, <3>2, <1>1 DEF Admissible, LogInv
            <4> QED BY <4>1, <4>3, <3>1, <3>2, <1>3, <1>4
        <3>3. CASE f.kind = "frame"
            <4>1. s2 # <<>>
                BY <3>3, <1>5 DEF Range
            <4> QED BY <4>1, <3>3, <1>4
        <3>4. CASE f.kind = "close"
            <4>1. s2 = s
                BY <3>4, <1>5
            <4> QED BY <4>1, <3>1, <3>4, <1>4
        <3> QED BY <3>2, <3>3, <3>4, <1>6
    <2> QED BY <2>1, <1>7 DEF AnsweredIffSpoken, LogInv
<1>14. OutcomeFits'
    BY <1>4, <1>7 DEF OutcomeFits, LogInv
<1>15. LogInv'
    BY <1>7, <1>8, <1>11, <1>12, <1>13, <1>14 DEF LogInv
<1>16. \A c \in Calls :
        /\ rec[c].state = "ended" => rec'[c].state = "ended"
        /\ rec[c].state = "missed" => rec'[c].state \in {"missed", "ended"}
    BY <1>4, <1>7
<1> QED BY <1>8, <1>9, <1>15, <1>16 DEF LogGrows

-----------------------------------------------------------------------------
(* The parts of the invariant that speak of what is held, of the sessions'  *)
(* links and of the tools.                                                  *)

\* Everything held is in S, the boxes of a call hold its frames only.
Filed(S, c) == {f \in S : f.call = c}
HeldIn(S) ==
    /\ q \in [Parties -> Seq(S)]
    /\ pending \in [Agents -> Seq(S)]
    /\ \A h \in Humans, c \in Calls : buffer[h][c] \in Seq(Filed(S, c))
    /\ \A p \in Parties, c \in Calls : heard[p][c] \in Seq(Filed(S, c))

LinkInv ==
    /\ online \in [Parties -> BOOLEAN]
    /\ seen \in [Parties -> Nat]
    /\ redo \in [Parties -> Nat]
    /\ \A p \in Parties : seen[p] + redo[p] <= Len(q[p])
    /\ OfflineUnread

ToolInv ==
    /\ buffer \in [Humans -> [Calls -> Seq(Frames)]]
    /\ heard \in [Parties -> [Calls -> Seq(Frames)]]
    /\ active \in [Parties -> placed \cup {None}]
    /\ waits \in [Agents -> SUBSET ({"place", "say"} \X Calls)]
    /\ rung \in [Humans -> SUBSET placed]
    /\ hungUp \cup stranded \subseteq Parties \X Calls
    /\ exposed \subseteq Parties \X Calls
    /\ drops \in 0..MaxDrops /\ crashes \in 0..MaxCrashes

LEMMA HeldDef == HeldIsRecorded <=> HeldIn(Recorded)
BY DEF HeldIsRecorded, HeldIn, RecordedOf, Filed

LEMMA HeldDefNext == HeldIsRecorded' <=> HeldIn(Recorded)'
BY DEF HeldIsRecorded, HeldIn, RecordedOf, Filed

LEMMA HeldGrow ==
    ASSUME NEW S, NEW T, S \subseteq T, HeldIn(S)
    PROVE  HeldIn(T)
<1>1. \A s \in Seq(S) : s \in Seq(T)
    BY SeqMonotone
<1>2. ASSUME NEW c \in Calls, NEW s \in Seq(Filed(S, c))
      PROVE  s \in Seq(Filed(T, c))
    <2>1. Filed(S, c) \subseteq Filed(T, c)
        BY DEF Filed
    <2> QED BY <2>1, SeqMonotone
<1> QED BY <1>1, <1>2 DEF HeldIn

\* The parts make the invariant.
LEMMA PartsOfInv == IInv => LogInv /\ HeldIn(Recorded) /\ LinkInv /\ ToolInv
<1> SUFFICES ASSUME IInv PROVE LogInv /\ HeldIn(Recorded) /\ LinkInv /\ ToolInv
    OBVIOUS
<1>1. LogInv
    BY IInvLog
<1>2. HeldIn(Recorded)
    BY HeldDef DEF IInv
<1>3. LinkInv
    BY DEF IInv, TypeOK, LinkInv
<1>4. ToolInv
    BY DEF IInv, TypeOK, ToolInv, OnlyPlaced
<1> QED BY <1>1, <1>2, <1>3, <1>4

LEMMA InvOfParts == LogInv /\ HeldIn(Recorded) /\ LinkInv /\ ToolInv => IInv
<1> SUFFICES ASSUME LogInv, HeldIn(Recorded), LinkInv, ToolInv PROVE IInv
    OBVIOUS
<1>1. Recorded \subseteq Frames /\ placed \subseteq Calls
    BY DEF Recorded, LogInv
<1>2. q \in [Parties -> Seq(Frames)] /\ pending \in [Agents -> Seq(Frames)]
    <2>1. HeldIn(Frames)
        BY <1>1, HeldGrow
    <2> QED BY <2>1 DEF HeldIn
<1>3. active \in [Parties -> Calls \cup {None}] /\ rung \in [Humans -> SUBSET Calls]
    BY <1>1 DEF ToolInv
<1>4. TypeOK
    BY <1>1, <1>2, <1>3 DEF TypeOK, LogInv, LinkInv, ToolInv, Rows, States
<1>5. HeldIsRecorded
    BY HeldDef
<1>6. OnlyPlaced /\ OfflineUnread /\ ScriptNumbered /\ AnsweredIffSpoken /\ OutcomeFits
    BY DEF OnlyPlaced, LogInv, LinkInv, ToolInv
<1> QED BY <1>4, <1>5, <1>6 DEF IInv

\* What every step has to show.
Kept == LogGrows /\ HeldIn(Recorded)' /\ LinkInv' /\ ToolInv'

-----------------------------------------------------------------------------
(* Routing.                                                                 *)

\* What a box or a queue holds stays recorded when the log grows.
LEMMA StillHeld ==
    ASSUME IInv, LogGrows
    PROVE  HeldIn(Recorded') /\ Recorded' \subseteq Frames
BY PartsOfInv, HeldGrow DEF LogGrows, Recorded

LEMMA DeliverHeld ==
    ASSUME NEW T, T \subseteq Frames, HeldIn(T), ToolInv,
           NEW x \in Parties, NEW f \in T, Deliver(x, f)
    PROVE  /\ q' \in [Parties -> Seq(T)]
           /\ buffer' \in [Humans -> [Calls -> Seq(Frames)]]
           /\ \A h \in Humans, c \in Calls : buffer'[h][c] \in Seq(Filed(T, c))
           /\ \A p \in Parties : Len(q'[p]) \in Nat /\ Len(q[p]) <= Len(q'[p])
<1>0. f.call \in Calls /\ f \in Frames /\ f \in Filed(T, f.call)
    BY DEF Frames, Filed
<1>1. CASE x \in Humans /\ online[x]
    <2>1. q' = q /\ buffer' = [buffer EXCEPT ![x] = [buffer[x] EXCEPT ![f.call] = Append(buffer[x][f.call], f)]]
        BY <1>1 DEF Deliver
    <2>2. /\ Append(buffer[x][f.call], f) \in Seq(Filed(T, f.call))
          /\ Append(buffer[x][f.call], f) \in Seq(Frames)
        <3>1. buffer[x][f.call] \in Seq(Filed(T, f.call)) /\ buffer[x][f.call] \in Seq(Frames)
            BY <1>0, <1>1 DEF HeldIn, ToolInv
        <3> QED BY <3>1, <1>0, AppendRange
    <2>3. buffer' \in [Humans -> [Calls -> Seq(Frames)]]
        BY <2>1, <2>2, <1>0, <1>1 DEF ToolInv
    <2>4. ASSUME NEW h \in Humans, NEW c \in Calls
          PROVE  buffer'[h][c] \in Seq(Filed(T, c))
        <3>1. CASE h = x /\ c = f.call
            BY <3>1, <2>1, <2>2, <1>0, <1>1 DEF ToolInv
        <3>2. CASE ~(h = x /\ c = f.call)
            <4>1. buffer'[h][c] = buffer[h][c]
                BY <3>2, <2>1, <1>0, <1>1 DEF ToolInv
            <4> QED BY <4>1 DEF HeldIn
        <3> QED BY <3>1, <3>2
    <2>5. \A p \in Parties : Len(q[p]) \in Nat
        BY LenProperties DEF HeldIn
    <2> QED BY <2>1, <2>3, <2>4, <2>5 DEF HeldIn
<1>2. CASE ~(x \in Humans /\ online[x])
    <2>1. q' = [q EXCEPT ![x] = Append(q[x], f)] /\ buffer' = buffer
        BY <1>2 DEF Deliver
    <2>2. \A p \in Parties : q[p] \in Seq(T) /\ Len(q[p]) \in Nat
        BY LenProperties DEF HeldIn
    <2>3. Append(q[x], f) \in Seq(T) /\ Len(Append(q[x], f)) = Len(q[x]) + 1
        BY <2>2, AppendProperties
    <2>4. q' \in [Parties -> Seq(T)]
        BY <2>1, <2>3 DEF HeldIn
    <2>5. \A p \in Parties : Len(q'[p]) \in Nat /\ Len(q[p]) <= Len(q'[p])
        BY <2>1, <2>2, <2>3 DEF HeldIn
    <2> QED BY <2>1, <2>4, <2>5 DEF HeldIn, ToolInv
<1> QED BY <1>1, <1>2

\* A routed frame is recorded and ends up in a queue or a buffer.
LEMMA RouteKeeps ==
    ASSUME IInv, NEW f \in Frames, Route(f), Admissible(f),
           placed' = placed \cup {f.call}, said' \in 0..MaxSays, said <= said'
    PROVE  /\ LogGrows
           /\ q' \in [Parties -> Seq(Recorded')]
           /\ buffer' \in [Humans -> [Calls -> Seq(Frames)]]
           /\ \A h \in Humans, c \in Calls : buffer'[h][c] \in Seq(Filed(Recorded', c))
           /\ \A p \in Parties : Len(q'[p]) \in Nat /\ Len(q[p]) <= Len(q'[p])
           /\ hungUp' \cup stranded' \subseteq Parties \X Calls
<1>1. LogInv /\ ToolInv
    BY PartsOfInv
<1>2. Persist(f) /\ Deliver(Peer(f.from, f.call), f)
    BY DEF Route
<1>3. LogGrows /\ f \in Recorded'
    BY <1>1, <1>2, PersistLog
<1>4. f.from \in Parties /\ f.call \in Calls /\ Peer(f.from, f.call) \in Parties
    BY PeerType DEF Frames
<1>5. HeldIn(Recorded') /\ Recorded' \subseteq Frames
    BY <1>3, StillHeld
<1>6. hungUp' \cup stranded' \subseteq Parties \X Calls
    BY <1>1, <1>4 DEF Route, ToolInv, Unattached, Parties
<1> DEFINE T == Recorded'
<1>7. T \subseteq Frames /\ HeldIn(T) /\ f \in T
    BY <1>3, <1>5
<1> HIDE DEF T
<1>8. /\ q' \in [Parties -> Seq(T)]
      /\ buffer' \in [Humans -> [Calls -> Seq(Frames)]]
      /\ \A h \in Humans, c \in Calls : buffer'[h][c] \in Seq(Filed(T, c))
      /\ \A p \in Parties : Len(q'[p]) \in Nat /\ Len(q[p]) <= Len(q'[p])
    BY <1>1, <1>2, <1>4, <1>7, DeliverHeld
<1> QED BY <1>3, <1>6, <1>8 DEF T

\* So does a frame a tool sends, or it is lost and nothing happens.
LEMMA SendKeeps ==
    ASSUME IInv, NEW p \in Parties, NEW f \in Frames, SendCall(p, f), Admissible(f),
           placed' = placed \cup {f.call}, said' \in 0..MaxSays, said <= said'
    PROVE  /\ LogGrows
           /\ q' \in [Parties -> Seq(Recorded')]
           /\ buffer' \in [Humans -> [Calls -> Seq(Frames)]]
           /\ \A h \in Humans, c \in Calls : buffer'[h][c] \in Seq(Filed(Recorded', c))
           /\ \A x \in Parties : Len(q'[x]) \in Nat /\ Len(q[x]) <= Len(q'[x])
           /\ hungUp' \cup stranded' \subseteq Parties \X Calls
<1>1. CASE Route(f)
    BY <1>1, RouteKeeps
<1>2. CASE UNCHANGED <<q, buffer, log, hungUp, stranded>>
    <2>1. LogInv /\ ToolInv
        BY PartsOfInv
    <2>2. placed \subseteq placed' /\ placed' \subseteq Calls
        BY <2>1 DEF LogInv, Frames
    <2>3. LogGrows
        BY <1>2, <2>1, <2>2, QuietLog
    <2>4. HeldIn(Recorded')
        BY <2>3, StillHeld
    <2>5. \A x \in Parties : Len(q[x]) \in Nat
        BY <2>4, LenProperties DEF HeldIn
    <2> QED BY <1>2, <2>1, <2>3, <2>4, <2>5 DEF HeldIn, ToolInv
<1> QED BY <1>1, <1>2 DEF SendCall

\* A step that leaves log, placed and said alone keeps what is held recorded.
LEMMA QuietKeeps ==
    ASSUME IInv, UNCHANGED <<log, placed, said>>
    PROVE  LogGrows /\ HeldIn(Recorded') /\ placed' = placed
<1>1. LogInv
    BY PartsOfInv
<1>2. LogGrows
    BY <1>1, QuietLog DEF LogInv
<1> QED BY <1>2, StillHeld

\* Links on which nothing happens but that a queue may get longer.  An attached
\* console has read nothing through its inbox.
LEMMA LinkGrows ==
    ASSUME LinkInv, HeldIn(Recorded), UNCHANGED <<seen, redo>>, online' \in [Parties -> BOOLEAN],
           \A p \in Parties : online[p] => online'[p],
           \A p \in Parties : Len(q'[p]) \in Nat /\ Len(q[p]) <= Len(q'[p])
    PROVE  LinkInv'
<1>1. ASSUME NEW p \in Parties
      PROVE  seen[p] + redo[p] <= Len(q'[p])
    <2>1. seen[p] \in Nat /\ redo[p] \in Nat /\ Len(q[p]) \in Nat
        BY LenProperties DEF LinkInv, HeldIn
    <2>2. seen[p] + redo[p] <= Len(q[p])
        BY DEF LinkInv
    <2>3. Len(q'[p]) \in Nat /\ Len(q[p]) <= Len(q'[p])
        OBVIOUS
    <2> QED BY <2>1, <2>2, <2>3
<1>2. OfflineUnread'
    BY DEF LinkInv, OfflineUnread
<1> QED BY <1>1, <1>2 DEF LinkInv

-----------------------------------------------------------------------------
(* The tools of an agent.                                                   *)

LEMMA PlaceCallStep ==
    ASSUME IInv, NEW p \in Agents, NEW c \in Calls, PlaceCall(p, c)
    PROVE  Kept
<1> DEFINE f == Frame(c, "invite", p, 0)
<1>1. LogInv /\ HeldIn(Recorded) /\ LinkInv /\ ToolInv /\ p \in Parties
    BY PartsOfInv DEF Parties
<1>2. f \in Frames /\ f.call = c /\ f.kind = "invite"
    <2>1. 0 \in 0..MaxSays
        BY BoundsAssumption
    <2> QED BY <1>1, <2>1, FrameType DEF Frame
<1>3. /\ SendCall(p, f) /\ placed' = placed \cup {f.call} /\ said' = said
      /\ c \notin placed
    BY <1>2 DEF PlaceCall
<1>4. Admissible(f)
    BY <1>2, <1>3 DEF Admissible
<1> HIDE DEF f
<1>5. said' \in 0..MaxSays /\ said <= said'
    BY <1>1, <1>3 DEF LogInv
<1>6. /\ LogGrows
      /\ q' \in [Parties -> Seq(Recorded')]
      /\ buffer' \in [Humans -> [Calls -> Seq(Frames)]]
      /\ \A h \in Humans, d \in Calls : buffer'[h][d] \in Seq(Filed(Recorded', d))
      /\ \A x \in Parties : Len(q'[x]) \in Nat /\ Len(q[x]) <= Len(q'[x])
      /\ hungUp' \cup stranded' \subseteq Parties \X Calls
    BY <1>1, <1>2, <1>3, <1>4, <1>5, SendKeeps
<1>7. /\ UNCHANGED <<online, seen, redo, pending, rung, heard, exposed, drops, crashes>>
      /\ active' = [active EXCEPT ![p] = c]
      /\ waits' = [waits EXCEPT ![p] = @ \cup {<<"place", c>>}]
    BY DEF PlaceCall, Wait
<1>8. HeldIn(Recorded') /\ placed' = placed \cup {c}
    BY <1>2, <1>3, <1>6, StillHeld
<1>9. HeldIn(Recorded)'
    BY <1>6, <1>7, <1>8 DEF HeldIn
<1>10. LinkInv'
    <2>1. UNCHANGED <<online, seen, redo>> /\ online \in [Parties -> BOOLEAN]
        BY <1>1, <1>6, <1>7 DEF LinkInv
    <2> QED BY <1>1, <1>6, <1>7, <2>1, LinkGrows
<1>11. ToolInv'
    <2>1. active' \in [Parties -> placed' \cup {None}] /\ rung' \in [Humans -> SUBSET placed']
        BY <1>1, <1>7, <1>8 DEF ToolInv
    <2>2. waits' \in [Agents -> SUBSET ({"place", "say"} \X Calls)]
        BY <1>1, <1>7 DEF ToolInv
    <2> QED BY <1>1, <1>6, <1>7, <2>1, <2>2 DEF ToolInv
<1> QED BY <1>6, <1>9, <1>10, <1>11 DEF Kept

LEMMA SayStep ==
    ASSUME IInv, NEW p \in Agents, Say(p)
    PROVE  Kept
<1> DEFINE c == active[p]
           f == Frame(c, "frame", p, said + 1)
<1>1. LogInv /\ HeldIn(Recorded) /\ LinkInv /\ ToolInv /\ p \in Parties
    BY PartsOfInv DEF Parties
<1>2. c \in placed /\ c \in Calls
    BY <1>1 DEF Say, ToolInv, LogInv
<1>3. said' = said + 1 /\ said' \in 0..MaxSays /\ said <= said'
    BY <1>1, BoundsAssumption DEF Say, LogInv
<1>4. f \in Frames /\ f.call = c /\ f.kind = "frame" /\ f.n = said + 1
    BY <1>1, <1>2, <1>3, FrameType DEF Frame
<1>5. SendCall(p, f) /\ placed' = placed \cup {f.call}
    BY <1>2, <1>4 DEF Say
<1>6. Admissible(f)
    BY <1>2, <1>3, <1>4 DEF Admissible
<1>7. /\ UNCHANGED <<online, seen, redo, pending, active, rung, placed, heard, exposed, drops, crashes>>
      /\ waits' = [waits EXCEPT ![p] = @ \cup {<<"say", c>>}]
    BY DEF Say, Wait
<1> HIDE DEF f, c
<1>8. /\ LogGrows
      /\ q' \in [Parties -> Seq(Recorded')]
      /\ buffer' \in [Humans -> [Calls -> Seq(Frames)]]
      /\ \A h \in Humans, d \in Calls : buffer'[h][d] \in Seq(Filed(Recorded', d))
      /\ \A x \in Parties : Len(q'[x]) \in Nat /\ Len(q[x]) <= Len(q'[x])
      /\ hungUp' \cup stranded' \subseteq Parties \X Calls
    BY <1>1, <1>3, <1>4, <1>5, <1>6, SendKeeps
<1>9. HeldIn(Recorded')
    BY <1>8, StillHeld
<1>10. HeldIn(Recorded)'
    BY <1>7, <1>8, <1>9 DEF HeldIn
<1>11. LinkInv'
    <2>1. UNCHANGED <<online, seen, redo>> /\ online \in [Parties -> BOOLEAN]
        BY <1>1, <1>7, <1>8 DEF LinkInv
    <2> QED BY <1>1, <1>7, <1>8, <2>1, LinkGrows
<1>12. ToolInv'
    <2>1. active' \in [Parties -> placed' \cup {None}] /\ rung' \in [Humans -> SUBSET placed']
        BY <1>1, <1>7 DEF ToolInv
    <2>2. waits' \in [Agents -> SUBSET ({"place", "say"} \X Calls)]
        BY <1>1, <1>2, <1>7 DEF ToolInv
    <2> QED BY <1>1, <1>7, <1>8, <2>1, <2>2 DEF ToolInv
<1> QED BY <1>8, <1>10, <1>11, <1>12 DEF Kept

LEMMA HangupStep ==
    ASSUME IInv, NEW p \in Agents, Hangup(p)
    PROVE  Kept
<1> DEFINE c == active[p]
           f == Frame(c, "close", p, 0)
<1>1. LogInv /\ HeldIn(Recorded) /\ LinkInv /\ ToolInv /\ p \in Parties
    BY PartsOfInv DEF Parties
<1>2. c \in placed /\ c \in Calls
    BY <1>1 DEF Hangup, ToolInv, LogInv
<1>3. f \in Frames /\ f.call = c /\ f.kind = "close"
    <2>1. 0 \in 0..MaxSays
        BY BoundsAssumption
    <2> QED BY <1>1, <1>2, <2>1, FrameType DEF Frame
<1>4. /\ UNCHANGED <<online, seen, redo, pending, waits, rung, ghosts, drops, crashes>>
      /\ active' = [active EXCEPT ![p] = None]
      /\ SendCall(p, f)
    BY DEF Hangup
<1>5. placed' = placed \cup {f.call} /\ said' \in 0..MaxSays /\ said <= said'
    BY <1>1, <1>2, <1>3, <1>4 DEF ghosts, LogInv
<1>6. Admissible(f)
    BY <1>2, <1>3 DEF Admissible
<1> HIDE DEF f, c
<1>7. /\ LogGrows
      /\ q' \in [Parties -> Seq(Recorded')]
      /\ buffer' \in [Humans -> [Calls -> Seq(Frames)]]
      /\ \A h \in Humans, d \in Calls : buffer'[h][d] \in Seq(Filed(Recorded', d))
      /\ \A x \in Parties : Len(q'[x]) \in Nat /\ Len(q[x]) <= Len(q'[x])
      /\ hungUp' \cup stranded' \subseteq Parties \X Calls
    BY <1>1, <1>3, <1>4, <1>5, <1>6, SendKeeps
<1>8. HeldIn(Recorded')
    BY <1>7, StillHeld
<1>9. HeldIn(Recorded)'
    BY <1>4, <1>7, <1>8 DEF HeldIn, ghosts
<1>10. LinkInv'
    <2>1. UNCHANGED <<online, seen, redo>> /\ online \in [Parties -> BOOLEAN]
        BY <1>1, <1>4, <1>7 DEF LinkInv
    <2> QED BY <1>1, <1>4, <1>7, <2>1, LinkGrows
<1>11. ToolInv'
    BY <1>1, <1>4, <1>7 DEF ToolInv, ghosts
<1> QED BY <1>7, <1>9, <1>10, <1>11 DEF Kept

\* The invite picked up is of a call that was placed.
LEMMA PickupCallStep ==
    ASSUME IInv, NEW p \in Agents, PickupCall(p)
    PROVE  Kept
<1> DEFINE i == LastInvite(p)
<1>1. LinkInv /\ ToolInv /\ p \in Parties /\ pending[p] \in Seq(Frames) /\ HeldIn(Recorded)
    BY PartsOfInv DEF Parties, IInv, TypeOK
<1>2. i \in DOMAIN pending[p]
    BY <1>1, LastInviteIn DEF PickupCall, Invites
<1>3. pending[p] \in Seq(Recorded)
    BY <1>1 DEF HeldIn
<1>4. pending[p][i].call \in placed
    <2>1. pending[p][i] \in Recorded
        BY <1>2, <1>3, ElementOfSeq, LenProperties
    <2> QED BY <2>1 DEF Recorded
<1>5. /\ active' = [active EXCEPT ![p] = pending[p][i].call]
      /\ pending' = [pending EXCEPT ![p] = RemoveAt(pending[p], i)]
      /\ UNCHANGED <<link, buffer, waits, rung, log, ghosts, hungUp, stranded, drops, crashes>>
    BY DEF PickupCall
<1> HIDE DEF i
<1>6. LogGrows /\ HeldIn(Recorded') /\ placed' = placed
    BY <1>5, QuietKeeps DEF ghosts
<1>7. HeldIn(Recorded)'
    <2>1. RemoveAt(pending[p], i) \in Seq(Recorded')
        BY <1>2, <1>6, RemoveAtSeq DEF HeldIn
    <2> QED BY <1>5, <1>6, <2>1 DEF HeldIn, ghosts, link
<1>8. LinkInv'
    BY <1>1, <1>5 DEF LinkInv, OfflineUnread, link
<1>9. ToolInv'
    BY <1>1, <1>4, <1>5 DEF ToolInv, ghosts
<1> QED BY <1>6, <1>7, <1>8, <1>9 DEF Kept

\* The frame returned is of the call waited for.
LEMMA AnsweredStep ==
    ASSUME IInv, NEW p \in Agents, NEW tool, NEW c \in Calls, Answered(p, tool, c)
    PROVE  Kept
<1> DEFINE i == FirstOf(Match(p, c))
           f == pending[p][i]
<1>1. LinkInv /\ ToolInv /\ p \in Parties /\ pending[p] \in Seq(Frames)
    BY PartsOfInv DEF Parties, IInv, TypeOK
<1>2. i \in DOMAIN pending[p] /\ f.call = c
    BY <1>1, FirstOfMatch DEF Answered, Match
<1>3. /\ waits' = [waits EXCEPT ![p] = @ \ {<<tool, c>>}]
      /\ pending' = [pending EXCEPT ![p] = RemoveAt(pending[p], i)]
      /\ heard' = [heard EXCEPT ![p] = [heard[p] EXCEPT ![c] =
              IF f \in Range(heard[p][c]) THEN heard[p][c] ELSE Append(heard[p][c], f)]]
      /\ active' = IF f.kind = "close" THEN [active EXCEPT ![p] = None] ELSE active
      /\ UNCHANGED <<link, buffer, rung, log, said, placed, exposed, hungUp, stranded, drops, crashes>>
    BY DEF Answered
<1> HIDE DEF i
<1>4. LogGrows /\ HeldIn(Recorded') /\ placed' = placed
    BY <1>3, QuietKeeps
<1> DEFINE T == Recorded'
<1>5. HeldIn(T) /\ T \subseteq Frames
    BY <1>4, StillHeld
<1> HIDE DEF T
<1>6. f \in Filed(T, c) /\ f \in Frames
    <2>1. pending[p] \in Seq(T)
        BY <1>5 DEF HeldIn
    <2>2. f \in T
        BY <1>2, <2>1, ElementOfSeq, LenProperties
    <2> QED BY <1>2, <1>5, <2>2 DEF Filed
<1> DEFINE new == IF f \in Range(heard[p][c]) THEN heard[p][c] ELSE Append(heard[p][c], f)
<1>7. new \in Seq(Filed(T, c)) /\ new \in Seq(Frames)
    <2>1. heard[p][c] \in Seq(Filed(T, c)) /\ heard[p][c] \in Seq(Frames)
        BY <1>1, <1>5 DEF HeldIn, ToolInv
    <2> QED BY <1>6, <2>1, AppendRange
<1>8. heard' = [heard EXCEPT ![p] = [heard[p] EXCEPT ![c] = new]]
    BY <1>3
<1> HIDE DEF new
<1>9. heard' \in [Parties -> [Calls -> Seq(Frames)]]
    BY <1>1, <1>7, <1>8 DEF ToolInv
<1>10. ASSUME NEW x \in Parties, NEW d \in Calls
       PROVE  heard'[x][d] \in Seq(Filed(T, d))
    <2>1. CASE x = p /\ d = c
        BY <1>1, <1>7, <1>8, <2>1 DEF ToolInv
    <2>2. CASE ~(x = p /\ d = c)
        <3>1. heard'[x][d] = heard[x][d]
            BY <1>1, <1>8, <2>2 DEF ToolInv
        <3> QED BY <1>5, <3>1 DEF HeldIn
    <2> QED BY <2>1, <2>2
<1>11. RemoveAt(pending[p], i) \in Seq(T)
    BY <1>2, <1>5, RemoveAtSeq DEF HeldIn
<1>12. pending' \in [Agents -> Seq(T)]
    BY <1>3, <1>5, <1>11 DEF HeldIn
<1>13. UNCHANGED <<q, buffer>>
    BY <1>3 DEF link
<1>14. HeldIn(Recorded)'
    BY <1>5, <1>10, <1>12, <1>13 DEF HeldIn, T
<1>15. LinkInv'
    BY <1>1, <1>3 DEF LinkInv, OfflineUnread, link
<1>16. ToolInv'
    <2>1. active' \in [Parties -> placed' \cup {None}]
        BY <1>1, <1>3, <1>4 DEF ToolInv
    <2>2. waits' \in [Agents -> SUBSET ({"place", "say"} \X Calls)]
        BY <1>1, <1>3 DEF ToolInv
    <2> QED BY <1>1, <1>3, <1>9, <2>1, <2>2 DEF ToolInv
<1> QED BY <1>4, <1>14, <1>15, <1>16 DEF Kept

LEMMA TimesOutStep ==
    ASSUME IInv, NEW p \in Agents, NEW tool, NEW c \in Calls, TimesOut(p, tool, c)
    PROVE  Kept
<1>1. LinkInv /\ ToolInv /\ p \in Parties
    BY PartsOfInv DEF Parties
<1>2. /\ UNCHANGED <<link, boxes, rung, log, said, placed, heard, exposed, hungUp, stranded, drops, crashes>>
      /\ waits' = [waits EXCEPT ![p] = @ \ {<<tool, c>>}]
      /\ active' \in {active, [active EXCEPT ![p] = None]}
    BY DEF TimesOut
<1>3. LogGrows /\ HeldIn(Recorded') /\ placed' = placed
    BY <1>2, QuietKeeps
<1>4. HeldIn(Recorded)'
    BY <1>2, <1>3 DEF HeldIn, link, boxes
<1>5. LinkInv'
    BY <1>1, <1>2 DEF LinkInv, OfflineUnread, link
<1>6. ToolInv'
    <2>1. active' \in [Parties -> placed' \cup {None}]
        BY <1>1, <1>2, <1>3 DEF ToolInv
    <2>2. waits' \in [Agents -> SUBSET ({"place", "say"} \X Calls)]
        BY <1>1, <1>2 DEF ToolInv
    <2> QED BY <1>1, <1>2, <2>1, <2>2 DEF ToolInv, boxes
<1> QED BY <1>3, <1>4, <1>5, <1>6 DEF Kept

-----------------------------------------------------------------------------
(* Sessions.                                                                *)

LEMMA ClientRecvStep ==
    ASSUME IInv, NEW p \in Agents, ClientRecv(p)
    PROVE  Kept
<1> DEFINE f == q[p][seen[p] + 1]
<1>1. LinkInv /\ ToolInv /\ p \in Parties /\ HeldIn(Recorded)
    BY PartsOfInv DEF Parties
<1>2. /\ seen[p] < Len(q[p]) - redo[p]
      /\ seen' = [seen EXCEPT ![p] = @ + 1]
      /\ pending' = [pending EXCEPT ![p] = Append(pending[p], f)]
      /\ UNCHANGED <<online, q, redo, buffer, tools, rung, log, ghosts, hungUp, stranded, drops, crashes>>
      /\ online[p]
    BY DEF ClientRecv
<1>3. seen[p] \in Nat /\ redo[p] \in Nat /\ Len(q[p]) \in Nat
    BY <1>1, LenProperties DEF LinkInv, HeldIn
<1>4. LogGrows /\ HeldIn(Recorded') /\ placed' = placed
    BY <1>2, QuietKeeps DEF ghosts
<1>5. f \in Recorded'
    <2>1. seen[p] + 1 \in 1..Len(q[p])
        BY <1>2, <1>3
    <2>2. q[p] \in Seq(Recorded')
        BY <1>1, <1>4 DEF HeldIn
    <2> QED BY <2>1, <2>2, ElementOfSeq
<1> HIDE DEF f
<1>6. HeldIn(Recorded)'
    <2>1. Append(pending[p], f) \in Seq(Recorded')
        BY <1>4, <1>5, AppendRange DEF HeldIn
    <2> QED BY <1>2, <1>4, <2>1 DEF HeldIn, ghosts
<1>7. LinkInv'
    <2>1. seen[p] + 1 + redo[p] <= Len(q[p])
        BY <1>2, <1>3
    <2> QED BY <1>1, <1>2, <1>3, <2>1 DEF LinkInv, OfflineUnread
<1>8. ToolInv'
    BY <1>1, <1>2 DEF ToolInv, tools, ghosts
<1> QED BY <1>4, <1>6, <1>7, <1>8 DEF Kept

LEMMA HubAckStep ==
    ASSUME IInv, NEW p \in Agents, HubAck(p)
    PROVE  Kept
<1>1. LinkInv /\ ToolInv /\ p \in Parties /\ HeldIn(Recorded)
    BY PartsOfInv DEF Parties
<1>2. /\ seen[p] > 0
      /\ seen' = [seen EXCEPT ![p] = @ - 1]
      /\ q' = [q EXCEPT ![p] = Tail(q[p])]
      /\ UNCHANGED <<online, redo, boxes, tools, rung, log, ghosts, hungUp, stranded, drops, crashes>>
      /\ online[p]
    BY DEF HubAck, Acked
<1>3. seen[p] \in Nat /\ redo[p] \in Nat /\ Len(q[p]) \in Nat /\ seen[p] + redo[p] <= Len(q[p])
    BY <1>1, LenProperties DEF LinkInv, HeldIn
<1>4. LogGrows /\ HeldIn(Recorded') /\ placed' = placed
    BY <1>2, QuietKeeps DEF ghosts
<1>5. Tail(q[p]) \in Seq(Recorded') /\ Len(Tail(q[p])) = Len(q[p]) - 1
    <2>1. q[p] \in Seq(Recorded') /\ q[p] # <<>>
        BY <1>1, <1>2, <1>3, <1>4, EmptySeq DEF HeldIn
    <2> QED BY <2>1, HeadTailProperties
<1>6. HeldIn(Recorded)'
    BY <1>2, <1>4, <1>5 DEF HeldIn, ghosts, boxes
<1>7. LinkInv'
    <2>1. seen[p] - 1 \in Nat /\ (seen[p] - 1) + redo[p] <= Len(q[p]) - 1
        BY <1>2, <1>3
    <2>2. p \in Parties /\ q \in [Parties -> Seq(Recorded)]
        BY <1>1 DEF HeldIn
    <2>3. seen' \in [Parties -> Nat] /\ seen'[p] = seen[p] - 1 /\ q'[p] = Tail(q[p])
        BY <1>1, <1>2, <2>1, <2>2 DEF LinkInv
    <2>4. \A x \in Parties : x # p => seen'[x] = seen[x] /\ q'[x] = q[x]
        BY <1>1, <1>2, <2>2 DEF LinkInv
    <2>5. \A x \in Parties : seen'[x] + redo[x] <= Len(q'[x])
        BY <1>1, <1>5, <2>1, <2>3, <2>4 DEF LinkInv
    <2>6. OfflineUnread'
        BY <1>1, <1>2, <2>3, <2>4 DEF LinkInv, OfflineUnread
    <2> QED BY <1>1, <1>2, <2>3, <2>5, <2>6 DEF LinkInv
<1>8. ToolInv'
    BY <1>1, <1>2 DEF ToolInv, tools, ghosts, boxes
<1> QED BY <1>4, <1>6, <1>7, <1>8 DEF Kept

\* A socket that dies leaves its queue as it is, unread.
LEMMA DisconnectLink ==
    ASSUME IInv, NEW p \in Agents, Disconnect(p)
    PROVE  q' = q /\ LinkInv' /\ drops' \in 0..MaxDrops
<1>1. LinkInv /\ ToolInv /\ p \in Parties /\ HeldIn(Recorded)
    BY PartsOfInv DEF Parties
<1>2. q' = q
    BY <1>1 DEF Disconnect, TookBack, HeldIn
<1>3. /\ online' = [online EXCEPT ![p] = FALSE]
      /\ seen' = [seen EXCEPT ![p] = 0]
      /\ redo' = redo
    BY DEF Disconnect
<1>4. \A x \in Parties : seen'[x] \in Nat /\ seen'[x] <= seen[x]
    BY <1>1, <1>3 DEF LinkInv
<1>5. \A x \in Parties : seen'[x] + redo'[x] <= Len(q'[x])
    <2> SUFFICES ASSUME NEW x \in Parties
                 PROVE  seen'[x] + redo[x] <= Len(q[x])
        BY <1>2, <1>3
    <2>1. seen[x] \in Nat /\ redo[x] \in Nat /\ Len(q[x]) \in Nat /\ seen[x] + redo[x] <= Len(q[x])
        BY <1>1, LenProperties DEF LinkInv, HeldIn
    <2> QED BY <1>4, <2>1
<1>6. OfflineUnread'
    BY <1>1, <1>3 DEF LinkInv, OfflineUnread
<1>7. drops' \in 0..MaxDrops
    BY <1>1, BoundsAssumption DEF Disconnect, ToolInv
<1> QED BY <1>1, <1>2, <1>3, <1>5, <1>6, <1>7 DEF LinkInv

LEMMA DropStep ==
    ASSUME IInv, NEW p \in Agents, Drop(p)
    PROVE  Kept
<1>1. ToolInv /\ HeldIn(Recorded)
    BY PartsOfInv
<1>2. q' = q /\ LinkInv' /\ drops' \in 0..MaxDrops
    BY DisconnectLink DEF Drop
<1>3. UNCHANGED <<boxes, tools, rung, log, ghosts, hungUp, stranded, crashes>>
    BY DEF Drop
<1>4. LogGrows /\ HeldIn(Recorded') /\ placed' = placed
    BY <1>3, QuietKeeps DEF ghosts
<1>5. HeldIn(Recorded)'
    BY <1>2, <1>3, <1>4 DEF HeldIn, boxes, ghosts
<1>6. ToolInv'
    BY <1>1, <1>2, <1>3 DEF ToolInv, tools, ghosts, boxes
<1> QED BY <1>2, <1>4, <1>5, <1>6 DEF Kept

LEMMA SessionEndsStep ==
    ASSUME IInv, NEW p \in Agents, SessionEnds(p)
    PROVE  Kept
<1>1. ToolInv /\ HeldIn(Recorded) /\ p \in Parties
    BY PartsOfInv DEF Parties
<1>2. q' = q /\ LinkInv' /\ drops' \in 0..MaxDrops
    BY DisconnectLink DEF SessionEnds
<1>3. /\ pending' = [pending EXCEPT ![p] = <<>>]
      /\ active' = [active EXCEPT ![p] = None]
      /\ waits' = [waits EXCEPT ![p] = {}]
      /\ UNCHANGED <<buffer, rung, log, said, placed, heard, hungUp, stranded, crashes>>
      /\ exposed' = exposed \cup {<<p, pending[p][i].call>> : i \in DOMAIN pending[p]}
    BY DEF SessionEnds
<1>4. LogGrows /\ HeldIn(Recorded') /\ placed' = placed
    BY <1>3, QuietKeeps
<1>5. HeldIn(Recorded)'
    <2>1. <<>> \in Seq(Recorded')
        BY EmptySeq
    <2> QED BY <1>2, <1>3, <1>4, <2>1 DEF HeldIn
<1>6. exposed' \subseteq Parties \X Calls
    <2>1. ASSUME NEW i \in DOMAIN pending[p]
          PROVE  pending[p][i].call \in Calls
        <3>1. pending[p] \in Seq(Recorded)
            BY <1>1 DEF HeldIn
        <3>2. pending[p][i] \in Recorded
            BY <3>1, ElementOfSeq, LenProperties
        <3> QED BY <3>2 DEF Recorded, Frames
    <2> QED BY <1>1, <1>3, <2>1 DEF ToolInv
<1>7. ToolInv'
    BY <1>1, <1>2, <1>3, <1>6 DEF ToolInv
<1> QED BY <1>2, <1>4, <1>5, <1>7 DEF Kept

LEMMA LoginStep ==
    ASSUME IInv, NEW p \in Agents, Login(p)
    PROVE  Kept
<1>1. LinkInv /\ ToolInv /\ p \in Parties /\ HeldIn(Recorded)
    BY PartsOfInv DEF Parties
<1>2. /\ online' = [online EXCEPT ![p] = TRUE]
      /\ redo' = [redo EXCEPT ![p] = Len(q[p])]
      /\ UNCHANGED <<q, seen, boxes, tools, rung, log, ghosts, hungUp, stranded, drops, crashes>>
      /\ ~online[p]
    BY DEF Login
<1>3. LogGrows /\ HeldIn(Recorded') /\ placed' = placed
    BY <1>2, QuietKeeps DEF ghosts
<1>4. HeldIn(Recorded)'
    BY <1>2, <1>3 DEF HeldIn, boxes, ghosts
<1>5. LinkInv'
    <2>1. Len(q[p]) \in Nat /\ seen[p] = 0
        BY <1>1, <1>2, LenProperties DEF LinkInv, HeldIn, OfflineUnread
    <2>2. redo' \in [Parties -> Nat]
        BY <1>1, <1>2, <2>1 DEF LinkInv
    <2>3. \A x \in Parties : seen[x] + redo'[x] <= Len(q[x])
        BY <1>1, <1>2, <2>1 DEF LinkInv
    <2>4. OfflineUnread' /\ online' \in [Parties -> BOOLEAN]
        BY <1>1, <1>2 DEF LinkInv, OfflineUnread
    <2> QED BY <1>1, <1>2, <2>2, <2>3, <2>4 DEF LinkInv
<1>6. ToolInv'
    BY <1>1, <1>2 DEF ToolInv, tools, ghosts, boxes
<1> QED BY <1>3, <1>4, <1>5, <1>6 DEF Kept

\* What the drain delivers again is recorded already.
LEMMA RedeliverStep ==
    ASSUME IInv, NEW p \in Agents, Redeliver(p)
    PROVE  Kept
<1> DEFINE f == q[p][Len(q[p]) - redo[p] + 1]
<1>1. LinkInv /\ ToolInv /\ p \in Parties /\ HeldIn(Recorded) /\ LogInv
    BY PartsOfInv DEF Parties
<1>2. /\ redo[p] > 0
      /\ redo' = [redo EXCEPT ![p] = @ - 1]
      /\ Persist(f)
      /\ UNCHANGED <<online, q, seen, boxes, tools, rung, ghosts, hungUp, stranded, drops, crashes>>
    BY DEF Redeliver
<1>3. redo[p] \in Nat /\ seen[p] \in Nat /\ Len(q[p]) \in Nat /\ seen[p] + redo[p] <= Len(q[p])
    BY <1>1, LenProperties DEF LinkInv, HeldIn
<1>4. f \in Recorded /\ f \in Frames /\ f.call \in placed
    <2>1. Len(q[p]) - redo[p] + 1 \in 1..Len(q[p])
        BY <1>2, <1>3
    <2>2. q[p] \in Seq(Recorded)
        BY <1>1 DEF HeldIn
    <2>3. f \in Recorded
        BY <2>1, <2>2, ElementOfSeq
    <2> QED BY <2>3 DEF Recorded
<1> HIDE DEF f
<1>5. LogGrows
    <2>1. Admissible(f)
        BY <1>4 DEF Admissible
    <2>2. placed' = placed \cup {f.call} /\ said' \in 0..MaxSays /\ said <= said'
        BY <1>1, <1>2, <1>4 DEF ghosts, LogInv
    <2> QED BY <1>1, <1>2, <1>4, <2>1, <2>2, PersistLog
<1>6. HeldIn(Recorded)'
    <2>1. HeldIn(Recorded')
        BY <1>5, StillHeld
    <2> QED BY <1>2, <2>1 DEF HeldIn, boxes, ghosts
<1>7. LinkInv'
    <2>1. redo[p] - 1 \in Nat /\ seen[p] + (redo[p] - 1) <= Len(q[p])
        BY <1>2, <1>3
    <2> QED BY <1>1, <1>2, <2>1 DEF LinkInv, OfflineUnread
<1>8. ToolInv'
    BY <1>1, <1>2 DEF ToolInv, tools, ghosts, boxes
<1> QED BY <1>5, <1>6, <1>7, <1>8 DEF Kept

LEMMA CrashStep ==
    ASSUME IInv, Crash
    PROVE  Kept
<1>1. LinkInv /\ ToolInv /\ HeldIn(Recorded)
    BY PartsOfInv
<1>2. /\ online' = [p \in Parties |-> FALSE]
      /\ q' = [p \in Parties |-> IF p \in Agents /\ online[p] THEN <<>> ELSE q[p]]
      /\ seen' = [p \in Parties |-> 0]
      /\ redo' = [p \in Parties |-> 0]
      /\ buffer' = [h \in Humans |-> [c \in Calls |-> <<>>]]
      /\ active' = [p \in Parties |-> IF p \in Humans THEN None ELSE active[p]]
      /\ UNCHANGED <<pending, waits, rung, log, said, placed, heard, hungUp, stranded, drops>>
    BY DEF Crash
<1>3. LogGrows /\ HeldIn(Recorded') /\ placed' = placed
    BY <1>2, QuietKeeps
<1>4. q' \in [Parties -> Seq(Recorded')]
    <2>1. <<>> \in Seq(Recorded')
        BY EmptySeq
    <2> QED BY <1>2, <1>3, <2>1 DEF HeldIn
<1>5. HeldIn(Recorded)'
    <2>1. ASSUME NEW h \in Humans, NEW c \in Calls
          PROVE  buffer'[h][c] \in Seq(Filed(Recorded', c))
        BY <1>2, EmptySeq
    <2> QED BY <1>2, <1>3, <1>4, <2>1 DEF HeldIn
<1>6. LinkInv'
    <2>1. \A p \in Parties : Len(q'[p]) \in Nat
        BY <1>4, LenProperties
    <2> QED BY <1>2, <2>1 DEF LinkInv, OfflineUnread
<1>7. exposed' \subseteq Parties \X Calls
    BY <1>1 DEF Crash, ToolInv, Volatile
<1>8. ToolInv'
    <2>1. buffer' \in [Humans -> [Calls -> Seq(Frames)]]
        BY <1>2, EmptySeq
    <2>2. crashes' \in 0..MaxCrashes
        BY <1>1, BoundsAssumption DEF Crash, ToolInv
    <2>3. active' \in [Parties -> placed' \cup {None}]
        BY <1>1, <1>2 DEF ToolInv
    <2> QED BY <1>1, <1>2, <1>7, <2>1, <2>2, <2>3 DEF ToolInv
<1> QED BY <1>3, <1>5, <1>6, <1>8 DEF Kept

-----------------------------------------------------------------------------
(* The console routes.                                                      *)

LEMMA AttachOnline ==
    ASSUME LinkInv, NEW h \in Humans, Attach(h)
    PROVE  online' \in [Parties -> BOOLEAN] /\ \A p \in Parties : online[p] => online'[p]
BY DEF Attach, LinkInv

LEMMA ConsoleCallStep ==
    ASSUME IInv, NEW h \in Humans, NEW c \in Calls, ConsoleCall(h, c)
    PROVE  Kept
<1> DEFINE f == Frame(c, "invite", h, 0)
<1>1. LogInv /\ HeldIn(Recorded) /\ LinkInv /\ ToolInv /\ h \in Parties
    BY PartsOfInv DEF Parties
<1>2. f \in Frames /\ f.call = c /\ f.kind = "invite"
    <2>1. 0 \in 0..MaxSays
        BY BoundsAssumption
    <2> QED BY <1>1, <2>1, FrameType DEF Frame
<1>3. /\ Route(f) /\ placed' = placed \cup {f.call} /\ said' = said
      /\ c \notin placed /\ Attach(h)
      /\ active' = [active EXCEPT ![h] = c]
      /\ UNCHANGED <<seen, redo, pending, waits, rung, heard, exposed, drops, crashes>>
    BY <1>2 DEF ConsoleCall
<1>4. Admissible(f)
    BY <1>2, <1>3 DEF Admissible
<1> HIDE DEF f
<1>5. said' \in 0..MaxSays /\ said <= said'
    BY <1>1, <1>3 DEF LogInv
<1>6. /\ LogGrows
      /\ q' \in [Parties -> Seq(Recorded')]
      /\ buffer' \in [Humans -> [Calls -> Seq(Frames)]]
      /\ \A x \in Humans, d \in Calls : buffer'[x][d] \in Seq(Filed(Recorded', d))
      /\ \A x \in Parties : Len(q'[x]) \in Nat /\ Len(q[x]) <= Len(q'[x])
      /\ hungUp' \cup stranded' \subseteq Parties \X Calls
    BY <1>2, <1>3, <1>4, <1>5, RouteKeeps
<1>7. HeldIn(Recorded') /\ placed' = placed \cup {c}
    BY <1>2, <1>3, <1>6, StillHeld
<1>8. HeldIn(Recorded)'
    BY <1>3, <1>6, <1>7 DEF HeldIn
<1>9. LinkInv'
    BY <1>1, <1>3, <1>6, AttachOnline, LinkGrows
<1>10. ToolInv'
    BY <1>1, <1>3, <1>6, <1>7 DEF ToolInv
<1> QED BY <1>6, <1>8, <1>9, <1>10 DEF Kept

LEMMA ConsolePickupStep ==
    ASSUME IInv, NEW h \in Humans, NEW c \in Calls, ConsolePickup(h, c)
    PROVE  Kept
<1>1. HeldIn(Recorded) /\ LinkInv /\ ToolInv /\ h \in Parties
    BY PartsOfInv DEF Parties
<1>2. /\ c \in rung[h] /\ Attach(h)
      /\ rung' = [rung EXCEPT ![h] = @ \ {c}]
      /\ active' = [active EXCEPT ![h] = c]
      /\ UNCHANGED <<q, seen, redo, boxes, waits, log, ghosts, hungUp, stranded, drops, crashes>>
    BY DEF ConsolePickup
<1>3. LogGrows /\ HeldIn(Recorded') /\ placed' = placed
    BY <1>2, QuietKeeps DEF ghosts
<1>4. HeldIn(Recorded)'
    BY <1>2, <1>3 DEF HeldIn, boxes, ghosts
<1>5. LinkInv'
    <2>1. \A x \in Parties : Len(q'[x]) \in Nat /\ Len(q[x]) <= Len(q'[x])
        BY <1>1, <1>2, LenProperties DEF HeldIn
    <2> QED BY <1>1, <1>2, <2>1, AttachOnline, LinkGrows
<1>6. ToolInv'
    BY <1>1, <1>2 DEF ToolInv, boxes, ghosts
<1> QED BY <1>3, <1>4, <1>5, <1>6 DEF Kept

LEMMA ConsoleSayStep ==
    ASSUME IInv, NEW h \in Humans, ConsoleSay(h)
    PROVE  Kept
<1> DEFINE c == active[h]
           f == Frame(c, "frame", h, said + 1)
<1>1. LogInv /\ HeldIn(Recorded) /\ LinkInv /\ ToolInv /\ h \in Parties
    BY PartsOfInv DEF Parties
<1>2. c \in placed /\ c \in Calls
    BY <1>1 DEF ConsoleSay, ToolInv, LogInv
<1>3. said' = said + 1 /\ said' \in 0..MaxSays /\ said <= said'
    BY <1>1, BoundsAssumption DEF ConsoleSay, LogInv
<1>4. f \in Frames /\ f.call = c /\ f.kind = "frame" /\ f.n = said + 1
    BY <1>1, <1>2, <1>3, FrameType DEF Frame
<1>5. /\ Route(f) /\ placed' = placed \cup {f.call} /\ placed' = placed /\ Attach(h)
      /\ UNCHANGED <<seen, redo, pending, tools, rung, heard, exposed, drops, crashes>>
    BY <1>2, <1>4 DEF ConsoleSay
<1>6. Admissible(f)
    BY <1>2, <1>3, <1>4 DEF Admissible
<1> HIDE DEF f, c
<1>7. /\ LogGrows
      /\ q' \in [Parties -> Seq(Recorded')]
      /\ buffer' \in [Humans -> [Calls -> Seq(Frames)]]
      /\ \A x \in Humans, d \in Calls : buffer'[x][d] \in Seq(Filed(Recorded', d))
      /\ \A x \in Parties : Len(q'[x]) \in Nat /\ Len(q[x]) <= Len(q'[x])
      /\ hungUp' \cup stranded' \subseteq Parties \X Calls
    BY <1>3, <1>4, <1>5, <1>6, RouteKeeps
<1>8. HeldIn(Recorded')
    BY <1>7, StillHeld
<1>9. HeldIn(Recorded)'
    BY <1>5, <1>7, <1>8 DEF HeldIn
<1>10. LinkInv'
    BY <1>1, <1>5, <1>7, AttachOnline, LinkGrows
<1>11. ToolInv'
    BY <1>1, <1>5, <1>7 DEF ToolInv, tools
<1> QED BY <1>7, <1>9, <1>10, <1>11 DEF Kept

\* The poll moves whole boxes, so order and filing stay.
LEMMA ConsolePollStep ==
    ASSUME IInv, NEW h \in Humans, ConsolePoll(h)
    PROVE  Kept
<1> DEFINE polled == {c \in Calls : active[h] \in {None, c}}
           rings == {c \in polled : \E f \in Range(buffer[h][c]) : f.kind = "invite"}
<1>1. HeldIn(Recorded) /\ LinkInv /\ ToolInv /\ h \in Parties
    BY PartsOfInv DEF Parties
<1>2. /\ Attach(h)
      /\ buffer' = [buffer EXCEPT ![h] = [c \in Calls |-> IF c \in polled THEN <<>> ELSE buffer[h][c]]]
      /\ heard' = [heard EXCEPT ![h] = [c \in Calls |-> IF c \in polled THEN heard[h][c] \o buffer[h][c] ELSE heard[h][c]]]
      /\ rung' = [rung EXCEPT ![h] = rung[h] \cup rings]
      /\ active' \in {active, [active EXCEPT ![h] = None]}
      /\ UNCHANGED <<q, seen, redo, pending, waits, log, said, placed, exposed, hungUp, stranded, drops, crashes>>
    BY DEF ConsolePoll
<1>3. LogGrows /\ HeldIn(Recorded') /\ placed' = placed
    BY <1>2, QuietKeeps
<1>4. rings \subseteq placed
    <2> SUFFICES ASSUME NEW c \in Calls, NEW f \in Range(buffer[h][c])
                 PROVE  c \in placed
        OBVIOUS
    <2>1. buffer[h][c] \in Seq(Filed(Recorded, c))
        BY <1>1 DEF HeldIn
    <2>2. f \in Filed(Recorded, c)
        BY <2>1, RangeOfSeq
    <2> QED BY <2>2 DEF Filed, Recorded
<1> HIDE DEF polled, rings
<1> DEFINE T == Recorded'
<1>5. HeldIn(T)
    BY <1>3
<1> HIDE DEF T
<1>6. ASSUME NEW c \in Calls
      PROVE  /\ <<>> \in Seq(Filed(T, c)) /\ <<>> \in Seq(Frames)
             /\ buffer[h][c] \in Seq(Filed(T, c)) /\ buffer[h][c] \in Seq(Frames)
             /\ heard[h][c] \o buffer[h][c] \in Seq(Filed(T, c))
             /\ heard[h][c] \o buffer[h][c] \in Seq(Frames)
    <2>1. /\ buffer[h][c] \in Seq(Filed(T, c)) /\ heard[h][c] \in Seq(Filed(T, c))
          /\ buffer[h][c] \in Seq(Frames) /\ heard[h][c] \in Seq(Frames)
        BY <1>1, <1>5 DEF HeldIn, ToolInv
    <2>2. <<>> \in Seq(Filed(T, c)) /\ <<>> \in Seq(Frames)
        BY EmptySeq
    <2> QED BY <2>1, <2>2, ConcatProperties
<1>7. /\ buffer' \in [Humans -> [Calls -> Seq(Frames)]]
      /\ heard' \in [Parties -> [Calls -> Seq(Frames)]]
    BY <1>1, <1>2, <1>6 DEF ToolInv
<1>8. ASSUME NEW x \in Humans, NEW c \in Calls
      PROVE  buffer'[x][c] \in Seq(Filed(T, c))
    BY <1>1, <1>2, <1>5, <1>6 DEF HeldIn, ToolInv
<1>9. ASSUME NEW x \in Parties, NEW c \in Calls
      PROVE  heard'[x][c] \in Seq(Filed(T, c))
    BY <1>1, <1>2, <1>5, <1>6 DEF HeldIn, ToolInv
<1>10. HeldIn(Recorded)'
    BY <1>2, <1>5, <1>8, <1>9 DEF HeldIn, T
<1>11. LinkInv'
    <2>1. \A x \in Parties : Len(q'[x]) \in Nat /\ Len(q[x]) <= Len(q'[x])
        BY <1>1, <1>2, LenProperties DEF HeldIn
    <2> QED BY <1>1, <1>2, <2>1, AttachOnline, LinkGrows
<1>12. ToolInv'
    <2>1. active' \in [Parties -> placed' \cup {None}]
        BY <1>1, <1>2 DEF ToolInv
    <2>2. rung' \in [Humans -> SUBSET placed']
        BY <1>1, <1>2, <1>4 DEF ToolInv
    <2> QED BY <1>1, <1>2, <1>7, <2>1, <2>2 DEF ToolInv
<1> QED BY <1>3, <1>10, <1>11, <1>12 DEF Kept

LEMMA ConsoleHangupStep ==
    ASSUME IInv, NEW h \in Humans, ConsoleHangup(h)
    PROVE  Kept
<1> DEFINE c == active[h]
           f == Frame(c, "close", h, 0)
<1>1. LogInv /\ HeldIn(Recorded) /\ LinkInv /\ ToolInv /\ h \in Parties
    BY PartsOfInv DEF Parties
<1>2. c \in placed /\ c \in Calls
    BY <1>1 DEF ConsoleHangup, ToolInv, LogInv
<1>3. f \in Frames /\ f.call = c /\ f.kind = "close"
    <2>1. 0 \in 0..MaxSays
        BY BoundsAssumption
    <2> QED BY <1>1, <1>2, <2>1, FrameType DEF Frame
<1>4. /\ Route(f) /\ Attach(h)
      /\ active' = [active EXCEPT ![h] = None]
      /\ UNCHANGED <<seen, redo, pending, waits, rung, ghosts, drops, crashes>>
    BY DEF ConsoleHangup
<1>5. placed' = placed \cup {f.call} /\ said' \in 0..MaxSays /\ said <= said'
    BY <1>1, <1>2, <1>3, <1>4 DEF ghosts, LogInv
<1>6. Admissible(f)
    BY <1>2, <1>3 DEF Admissible
<1> HIDE DEF f, c
<1>7. /\ LogGrows
      /\ q' \in [Parties -> Seq(Recorded')]
      /\ buffer' \in [Humans -> [Calls -> Seq(Frames)]]
      /\ \A x \in Humans, d \in Calls : buffer'[x][d] \in Seq(Filed(Recorded', d))
      /\ \A x \in Parties : Len(q'[x]) \in Nat /\ Len(q[x]) <= Len(q'[x])
      /\ hungUp' \cup stranded' \subseteq Parties \X Calls
    BY <1>3, <1>4, <1>5, <1>6, RouteKeeps
<1>8. HeldIn(Recorded')
    BY <1>7, StillHeld
<1>9. HeldIn(Recorded)'
    BY <1>4, <1>7, <1>8 DEF HeldIn, ghosts
<1>10. LinkInv'
    BY <1>1, <1>4, <1>7, AttachOnline, LinkGrows
<1>11. ToolInv'
    BY <1>1, <1>4, <1>7 DEF ToolInv, ghosts
<1> QED BY <1>7, <1>9, <1>10, <1>11 DEF Kept

-----------------------------------------------------------------------------
(* The invariant and the theorems.                                          *)

LEMMA InvInit == Init => IInv
<1> SUFFICES ASSUME Init PROVE IInv
    OBVIOUS
<1>1. \A S : <<>> \in Seq(S)
    BY EmptySeq
<1>2. LogInv
    BY <1>1, BoundsAssumption
       DEF Init, LogInv, Rows, States, ScriptNumbered, AnsweredIffSpoken, OutcomeFits
<1>3. HeldIn(Recorded)
    BY <1>1 DEF Init, HeldIn
<1>4. LinkInv
    BY <1>1 DEF Init, LinkInv, OfflineUnread
<1>5. ToolInv
    BY <1>1, BoundsAssumption DEF Init, ToolInv
<1> QED BY <1>2, <1>3, <1>4, <1>5, InvOfParts

\* A step that changes nothing.
LEMMA StutterStep ==
    ASSUME IInv, UNCHANGED vars
    PROVE  Kept
<1>1. HeldIn(Recorded) /\ LinkInv /\ ToolInv
    BY PartsOfInv
<1>2. UNCHANGED <<link, boxes, tools, rung, log, ghosts, hungUp, stranded, drops, crashes>>
    BY DEF vars
<1>3. LogGrows /\ HeldIn(Recorded') /\ placed' = placed
    BY <1>2, QuietKeeps DEF ghosts
<1>4. HeldIn(Recorded)'
    BY <1>2, <1>3 DEF HeldIn, boxes, ghosts, link
<1>5. LinkInv'
    BY <1>1, <1>2 DEF LinkInv, OfflineUnread, link
<1>6. ToolInv'
    BY <1>1, <1>2 DEF ToolInv, tools, ghosts, boxes
<1> QED BY <1>3, <1>4, <1>5, <1>6 DEF Kept

LEMMA Step ==
    ASSUME IInv, [Next]_vars
    PROVE  Kept
<1>1. ASSUME NEW p \in Agents, Tools(p) PROVE Kept
    <2>1. CASE PickupCall(p) \/ Say(p) \/ Hangup(p)
        BY <2>1, PickupCallStep, SayStep, HangupStep
    <2>2. ASSUME NEW c \in Calls, PlaceCall(p, c) PROVE Kept
        BY <2>2, PlaceCallStep
    <2>3. ASSUME NEW c \in Calls, NEW tool \in {"place", "say"}, Answered(p, tool, c) \/ TimesOut(p, tool, c)
          PROVE  Kept
        BY <2>3, AnsweredStep, TimesOutStep
    <2> QED BY <1>1, <2>1, <2>2, <2>3 DEF Tools
<1>2. ASSUME NEW p \in Agents,
             ClientRecv(p) \/ HubAck(p) \/ Drop(p) \/ SessionEnds(p) \/ Login(p) \/ Redeliver(p)
      PROVE  Kept
    BY <1>2, ClientRecvStep, HubAckStep, DropStep, SessionEndsStep, LoginStep, RedeliverStep
<1>3. ASSUME NEW h \in Humans, Console(h) PROVE Kept
    <2>1. CASE ConsoleSay(h) \/ ConsolePoll(h) \/ ConsoleHangup(h)
        BY <2>1, ConsoleSayStep, ConsolePollStep, ConsoleHangupStep
    <2>2. ASSUME NEW c \in Calls, ConsoleCall(h, c) \/ ConsolePickup(h, c) PROVE Kept
        BY <2>2, ConsoleCallStep, ConsolePickupStep
    <2> QED BY <1>3, <2>1, <2>2 DEF Console
<1>4. CASE Crash
    BY <1>4, CrashStep
<1>5. CASE UNCHANGED vars
    BY <1>5, StutterStep
<1> QED BY <1>1, <1>2, <1>3, <1>4, <1>5 DEF Next

LEMMA InvStep == IInv /\ [Next]_vars => IInv'
<1> SUFFICES ASSUME IInv, [Next]_vars PROVE IInv'
    OBVIOUS
<1>1. LogInv' /\ HeldIn(Recorded)' /\ LinkInv' /\ ToolInv'
    BY Step DEF Kept, LogGrows
<1>2. (LogInv /\ HeldIn(Recorded) /\ LinkInv /\ ToolInv => IInv)'
    BY InvOfParts, PTL
<1> QED BY <1>1, <1>2

\* The inductive invariant of calls and their log holds in every state.
THEOREM Invariance == Spec => []IInv
BY InvInit, InvStep, PTL DEF Spec

\* Every variable has its type in every state.
THEOREM TypeCorrect == Spec => []TypeOK
<1>1. IInv => TypeOK
    BY DEF IInv
<1> QED BY <1>1, Invariance, PTL

\* The transcript of a call holds each line once, in the order spoken, and
\* every line anybody was handed: persistHistory under any redelivery.
THEOREM TranscriptIsFaithful == Spec => []TranscriptFaithful
<1>1. ASSUME IInv PROVE TranscriptFaithful
    <2>1. \A c \in Calls : \A i, j \in DOMAIN script[c] :
            i < j /\ script[c][i].from = script[c][j].from => script[c][i].n < script[c][j].n
        BY <1>1 DEF IInv, ScriptNumbered
    <2>2. ASSUME NEW p \in Parties, NEW c \in Calls, NEW f \in Range(heard[p][c]), f.kind = "frame"
          PROVE  f \in Range(script[c])
        <3>1. heard[p][c] \in Seq(RecordedOf(c))
            BY <1>1 DEF IInv, HeldIsRecorded
        <3>2. f \in RecordedOf(c)
            BY <3>1, RangeOfSeq
        <3> QED BY <2>2, <3>2 DEF RecordedOf, Recorded
    <2> QED BY <2>1, <2>2 DEF TranscriptFaithful
<1> QED BY <1>1, Invariance, PTL

\* The log calls a call answered exactly when its transcript has a line.
THEOREM LogAgrees == Spec => []AnsweredIffSpoken
<1>1. IInv => AnsweredIffSpoken
    BY DEF IInv
<1> QED BY <1>1, Invariance, PTL

\* No late line, repeated close or replayed invite reopens a call.
THEOREM OverIsOver == Spec => OverStays
<1>1. IInv /\ [Next]_vars =>
        [\A c \in Calls :
            /\ rec[c].state = "ended" => rec'[c].state = "ended"
            /\ rec[c].state = "missed" => rec'[c].state \in {"missed", "ended"}]_vars
    BY Step DEF Kept, LogGrows
<1> QED BY <1>1, Invariance, PTL DEF Spec, OverStays
-----------------------------------------------------------------------------
(* Order: sequences of frames.                                              *)

LEMMA FrameNumber ==
    ASSUME NEW f \in Frames
    PROVE  f.n \in Nat /\ f.call \in Calls
BY BoundsAssumption DEF Frames

LEMMA InOrderEmpty == InOrder(<<>>) /\ Range(<<>>) = {} /\ DOMAIN <<>> = {}
BY DEF InOrder, Range

\* A line later than all others may follow them.
LEMMA InOrderAppend ==
    ASSUME NEW s \in Seq(Frames), NEW f \in Frames, InOrder(s),
           Line(f) => \A g \in Range(s) : Line(g) => g.n < f.n
    PROVE  InOrder(Append(s, f))
<1> DEFINE r == Append(s, f)
<1>1. /\ DOMAIN s = 1..Len(s) /\ Len(s) \in Nat /\ DOMAIN r = 1..(Len(s) + 1)
      /\ \A i \in 1..Len(s) : r[i] = s[i]
      /\ r[Len(s) + 1] = f
    BY AppendProperties, LenProperties
<1>2. \A i \in 1..Len(s) : s[i] \in Range(s)
    BY <1>1 DEF Range
<1> HIDE DEF r
<1>3. ASSUME NEW i \in DOMAIN r, NEW j \in DOMAIN r, i < j, Line(r[i]), Line(r[j])
      PROVE  r[i].n < r[j].n
    <2>1. i \in 1..Len(s) /\ r[i] = s[i] /\ s[i] \in Range(s)
        BY <1>1, <1>2, <1>3
    <2>2. CASE j = Len(s) + 1
        BY <1>1, <1>3, <2>1, <2>2
    <2>3. CASE j # Len(s) + 1
        <3>1. j \in DOMAIN s /\ r[j] = s[j]
            BY <1>1, <2>3
        <3> QED BY <1>1, <1>3, <2>1, <3>1 DEF InOrder
    <2> QED BY <2>2, <2>3
<1> QED BY <1>3 DEF InOrder, r

LEMMA TailFacts ==
    ASSUME NEW S, NEW s \in Seq(S), s # <<>>
    PROVE  /\ Tail(s) \in Seq(S) /\ DOMAIN s = 1..Len(s) /\ Len(s) \in Nat \ {0}
           /\ DOMAIN Tail(s) = 1..(Len(s) - 1)
           /\ \A i \in 1..(Len(s) - 1) : Tail(s)[i] = s[i + 1]
           /\ Range(Tail(s)) \subseteq Range(s)
<1>1. /\ Tail(s) \in Seq(S) /\ Len(Tail(s)) = Len(s) - 1
      /\ \A i \in 1..Len(Tail(s)) : Tail(s)[i] = s[i + 1]
    BY HeadTailProperties
<1>2. DOMAIN s = 1..Len(s) /\ Len(s) \in Nat \ {0}
    BY EmptySeq, LenProperties
<1>3. DOMAIN Tail(s) = 1..Len(Tail(s))
    BY <1>1, LenProperties
<1>4. \A i \in DOMAIN Tail(s) : i + 1 \in DOMAIN s /\ Tail(s)[i] = s[i + 1]
    BY <1>1, <1>2, <1>3
<1> QED BY <1>1, <1>2, <1>3, <1>4 DEF Range

LEMMA InOrderTail ==
    ASSUME NEW s \in Seq(Frames), s # <<>>, InOrder(s)
    PROVE  InOrder(Tail(s))
<1>1. /\ DOMAIN s = 1..Len(s) /\ Len(s) \in Nat \ {0} /\ DOMAIN Tail(s) = 1..(Len(s) - 1)
      /\ \A i \in 1..(Len(s) - 1) : Tail(s)[i] = s[i + 1]
    BY TailFacts
<1> DEFINE r == Tail(s)
<1> HIDE DEF r
<1>2. ASSUME NEW i \in DOMAIN r, NEW j \in DOMAIN r, i < j, Line(r[i]), Line(r[j])
      PROVE  r[i].n < r[j].n
    <2>1. i + 1 \in DOMAIN s /\ j + 1 \in DOMAIN s /\ i + 1 < j + 1
        BY <1>1, <1>2 DEF r
    <2>2. r[i] = s[i + 1] /\ r[j] = s[j + 1]
        BY <1>1 DEF r
    <2> QED BY <1>2, <2>1, <2>2 DEF InOrder
<1> QED BY <1>2 DEF InOrder, r

\* Splicing one element out moves those after it down by one.
LEMMA Spliced ==
    ASSUME NEW S, NEW s \in Seq(S), NEW i \in DOMAIN s
    PROVE  LET r == RemoveAt(s, i) IN
           /\ r \in Seq(S) /\ DOMAIN s = 1..Len(s) /\ Len(s) \in Nat
           /\ DOMAIN r = 1..(Len(s) - 1)
           /\ \A a \in 1..(Len(s) - 1) : r[a] = IF a < i THEN s[a] ELSE s[a + 1]
           /\ Range(r) \subseteq Range(s) /\ Range(s) \subseteq Range(r) \cup {s[i]}
<1> DEFINE left == SubSeq(s, 1, i - 1)
           right == SubSeq(s, i + 1, Len(s))
           r == RemoveAt(s, i)
<1>1. i \in 1..Len(s) /\ Len(s) \in Nat /\ DOMAIN s = 1..Len(s) /\ \A k \in 1..Len(s) : s[k] \in S
    BY LenProperties, ElementOfSeq
<1>2. /\ left \in Seq(S) /\ Len(left) = i - 1
      /\ \A a \in 1..(i - 1) : left[a] = s[a]
    <2>1. /\ 1 \in Int /\ i - 1 \in Int /\ \A k \in 1..(i - 1) : s[k] \in S
        BY <1>1
    <2>2. /\ left \in Seq(S) /\ Len(left) = (IF 1 <= i - 1 THEN (i - 1) - 1 + 1 ELSE 0)
          /\ \A a \in 1..((i - 1) - 1 + 1) : left[a] = s[1 + a - 1]
        BY <2>1, SubSeqProperties
    <2> HIDE DEF left
    <2>3. \A a \in 1..(i - 1) : a \in 1..((i - 1) - 1 + 1) /\ 1 + a - 1 = a
        BY <1>1
    <2> QED BY <1>1, <2>2, <2>3
<1>3. /\ right \in Seq(S) /\ Len(right) = Len(s) - i
      /\ \A a \in 1..(Len(s) - i) : right[a] = s[i + a]
    <2>1. /\ i + 1 \in Int /\ Len(s) \in Int /\ \A k \in (i + 1)..Len(s) : s[k] \in S
        BY <1>1
    <2>2. /\ right \in Seq(S) /\ Len(right) = (IF i + 1 <= Len(s) THEN Len(s) - (i + 1) + 1 ELSE 0)
          /\ \A a \in 1..(Len(s) - (i + 1) + 1) : right[a] = s[(i + 1) + a - 1]
        BY <2>1, SubSeqProperties
    <2> HIDE DEF right
    <2>3. \A a \in 1..(Len(s) - i) : a \in 1..(Len(s) - (i + 1) + 1) /\ (i + 1) + a - 1 = i + a
        BY <1>1
    <2> QED BY <1>1, <2>2, <2>3
<1>4. r = left \o right
    BY DEF RemoveAt
<1> HIDE DEF left, right, r
<1>5. /\ r \in Seq(S) /\ Len(r) = Len(left) + Len(right)
      /\ \A a \in 1..(Len(left) + Len(right)) : r[a] = IF a <= Len(left) THEN left[a] ELSE right[a - Len(left)]
    BY <1>2, <1>3, <1>4, ConcatProperties
<1>6. Len(left) + Len(right) = Len(s) - 1
    BY <1>1, <1>2, <1>3
<1>7. DOMAIN r = 1..(Len(s) - 1)
    BY <1>5, <1>6, LenProperties
<1>8. ASSUME NEW a \in 1..(Len(s) - 1)
      PROVE  r[a] = IF a < i THEN s[a] ELSE s[a + 1]
    <2>1. CASE a < i
        <3>1. a \in 1..(i - 1) /\ a <= Len(left)
            BY <1>1, <1>2, <2>1
        <3> QED BY <1>2, <1>5, <1>6, <2>1, <3>1
    <2>2. CASE ~(a < i)
        <3>1. ~(a <= Len(left)) /\ a - Len(left) \in 1..(Len(s) - i) /\ i + (a - Len(left)) = a + 1
            BY <1>1, <1>2, <2>2
        <3>2. r[a] = right[a - Len(left)]
            BY <1>5, <1>6, <3>1
        <3> QED BY <1>3, <2>2, <3>1, <3>2
    <2> QED BY <2>1, <2>2
<1>9. Range(r) \subseteq Range(s)
    <2>1. ASSUME NEW a \in DOMAIN r
          PROVE  r[a] \in Range(s)
        <3>1. a \in DOMAIN s /\ a + 1 \in DOMAIN s
            BY <1>1, <1>7
        <3> QED BY <1>7, <1>8, <3>1 DEF Range
    <2> QED BY <2>1 DEF Range
<1>10. Range(s) \subseteq Range(r) \cup {s[i]}
    <2>1. ASSUME NEW b \in DOMAIN s, b # i
          PROVE  s[b] \in Range(r)
        <3>1. CASE b < i
            <4>1. b \in 1..(Len(s) - 1)
                BY <1>1, <3>1
            <4> QED BY <1>7, <1>8, <3>1, <4>1 DEF Range
        <3>2. CASE ~(b < i)
            <4>1. b - 1 \in 1..(Len(s) - 1) /\ ~(b - 1 < i) /\ (b - 1) + 1 = b
                BY <1>1, <2>1, <3>2
            <4> QED BY <1>7, <1>8, <4>1 DEF Range
        <3> QED BY <3>1, <3>2
    <2> QED BY <2>1 DEF Range
<1> QED BY <1>1, <1>5, <1>7, <1>8, <1>9, <1>10 DEF r

-----------------------------------------------------------------------------
(* The order at a session, whatever queue, reading point, pending frames     *)
(* and handed over frames it is taken of.                                   *)

Boxes(had) == \A c \in Calls : had[c] \in Seq(Frames)
LatestSo(held, pends, had, f) ==
    Line(f) => /\ \A g \in Range(held) \cup Range(pends) : Line(g) => g.n < f.n
               /\ \A c \in Calls : \A g \in Range(had[c]) : Line(g) => g.n < f.n

\* The session reads the next frame.
LEMMA OrderRead ==
    ASSUME NEW held \in Seq(Frames), NEW read \in Nat, NEW pends \in Seq(Frames), NEW had, Boxes(had),
           read < Len(held), SessionOrder(held, read, pends, had)
    PROVE  SessionOrder(held, read + 1, Append(pends, held[read + 1]), had)
<1> DEFINE e == held[read + 1]
           pends2 == Append(pends, e)
           n == Len(pends)
<1>1. /\ DOMAIN held = 1..Len(held) /\ Len(held) \in Nat /\ read + 1 \in DOMAIN held
      /\ e \in Frames /\ e \in Range(held)
    <2>1. DOMAIN held = 1..Len(held) /\ Len(held) \in Nat
        BY LenProperties
    <2>2. read + 1 \in DOMAIN held
        BY <2>1
    <2> QED BY <2>1, <2>2, ElementOfSeq DEF Range
<1>2. /\ DOMAIN pends = 1..n /\ n \in Nat /\ DOMAIN pends2 = 1..(n + 1)
      /\ \A i \in 1..n : pends2[i] = pends[i]
      /\ pends2[n + 1] = e /\ pends2 \in Seq(Frames)
      /\ Range(pends2) = Range(pends) \cup {e}
    <2>1. e \in Frames
        BY <1>1
    <2> HIDE DEF e
    <2> QED BY <2>1, AppendProperties, AppendRange, LenProperties
<1> HIDE DEF e, pends2, n
<1>3. Range(held) \cup Range(pends2) = Range(held) \cup Range(pends)
    BY <1>1, <1>2
<1>4. ASSUME NEW i \in 1..(read + 1), held[i].kind # "invite"
      PROVE  held[i] \in Range(had[held[i].call]) \cup Range(pends2)
    <2>1. CASE i = read + 1
        BY <1>2, <2>1 DEF e
    <2>2. CASE i # read + 1
        <3>1. i \in 1..read
            BY <2>2
        <3> QED BY <1>2, <1>4, <3>1 DEF SessionOrder
    <2> QED BY <2>1, <2>2
<1>5. ASSUME NEW i \in DOMAIN pends2, NEW f \in Range(held) \cup Range(pends), Earlier(f, pends2[i])
      PROVE  f \in Range(had[f.call]) \/ \E j \in DOMAIN pends2 : j < i /\ pends2[j] = f
    <2>1. CASE i # n + 1
        <3>1. i \in DOMAIN pends /\ pends2[i] = pends[i]
            BY <1>2, <2>1
        <3>2. f \in Range(had[f.call]) \/ \E j \in DOMAIN pends : j < i /\ pends[j] = f
            BY <1>5, <3>1 DEF SessionOrder
        <3>3. \A j \in DOMAIN pends : j \in DOMAIN pends2 /\ pends2[j] = pends[j]
            BY <1>2
        <3> QED BY <3>2, <3>3
    <2>2. CASE i = n + 1
        <3>1. Earlier(f, e) /\ \A j \in 1..n : j \in DOMAIN pends2 /\ j < i
            BY <1>2, <1>5, <2>2
        <3>2. CASE f \in Range(pends)
            <4>1. PICK j \in DOMAIN pends : pends[j] = f
                BY <3>2 DEF Range
            <4> QED BY <1>2, <3>1, <4>1
        <3>3. CASE f \in Range(held)
            <4>1. PICK k \in DOMAIN held : held[k] = f
                BY <3>3 DEF Range
            <4>2. f \in Frames /\ f.n \in Nat /\ e.n \in Nat
                BY <1>1, <4>1, ElementOfSeq, FrameNumber
            <4>3. k < read + 1
                <5>1. CASE k > read + 1
                    <6>1. e.n < f.n
                        BY <1>1, <3>1, <4>1, <5>1 DEF SessionOrder, InOrder, Earlier, e
                    <6> QED BY <3>1, <4>2, <6>1 DEF Earlier
                <5>2. CASE k = read + 1
                    BY <3>1, <4>1, <4>2, <5>2 DEF Earlier, e
                <5> QED BY <1>1, <5>1, <5>2
            <4>4. k \in 1..read /\ held[k].kind # "invite"
                BY <1>1, <3>1, <4>1, <4>3 DEF Earlier, Line
            <4>5. f \in Range(had[f.call]) \/ f \in Range(pends)
                BY <4>1, <4>4 DEF SessionOrder
            <4> QED BY <3>2, <4>5
        <3> QED BY <3>2, <3>3
    <2> QED BY <2>1, <2>2
<1> QED BY <1>3, <1>4, <1>5 DEF SessionOrder, e, pends2

\* The ack of a frame that was read takes it off the queue.
LEMMA OrderAcked ==
    ASSUME NEW held \in Seq(Frames), NEW read \in Nat \ {0}, NEW pends, NEW had,
           read <= Len(held), SessionOrder(held, read, pends, had)
    PROVE  SessionOrder(Tail(held), read - 1, pends, had)
<1>1. held # <<>>
    BY EmptySeq
<1> DEFINE held2 == Tail(held)
<1>2. /\ held2 \in Seq(Frames) /\ Len(held) \in Nat
      /\ \A i \in 1..(Len(held) - 1) : held2[i] = held[i + 1]
      /\ Range(held2) \subseteq Range(held) /\ InOrder(held2)
    BY <1>1, TailFacts, InOrderTail DEF SessionOrder
<1> HIDE DEF held2
<1>3. ASSUME NEW i \in 1..(read - 1), held2[i].kind # "invite"
      PROVE  held2[i] \in Range(had[held2[i].call]) \cup Range(pends)
    <2>1. i + 1 \in 1..read /\ held2[i] = held[i + 1]
        BY <1>2
    <2> QED BY <1>3, <2>1 DEF SessionOrder
<1>4. /\ \A c \in Calls : InOrder(had[c])
      /\ \A i \in DOMAIN pends : \A f \in Range(held2) \cup Range(pends) :
            Earlier(f, pends[i]) =>
                f \in Range(had[f.call]) \/ \E j \in DOMAIN pends : j < i /\ pends[j] = f
      /\ \A c \in Calls : \A g \in Range(had[c]), f \in Range(held2) \cup Range(pends) :
            Earlier(f, g) => f \in Range(had[f.call])
    BY <1>2 DEF SessionOrder
<1> QED BY <1>2, <1>3, <1>4 DEF SessionOrder, held2

\* The socket dies, or the session, or the hub: nothing counts as read.
LEMMA OrderReset ==
    ASSUME NEW held, NEW read, NEW pends, NEW had, SessionOrder(held, read, pends, had)
    PROVE  /\ SessionOrder(held, 0, pends, had)
           /\ SessionOrder(held, 0, <<>>, had)
           /\ SessionOrder(<<>>, 0, pends, had)
<1>1. 1..0 = {} /\ Range(<<>>) = {} /\ DOMAIN <<>> = {} /\ InOrder(<<>>)
    BY InOrderEmpty
<1>2. SessionOrder(held, 0, pends, had)
    BY <1>1 DEF SessionOrder
<1>3. SessionOrder(held, 0, <<>>, had)
    BY <1>1 DEF SessionOrder
<1>4. SessionOrder(<<>>, 0, pends, had)
    BY <1>1 DEF SessionOrder
<1> QED BY <1>2, <1>3, <1>4

\* A frame later than all others joins the queue.
LEMMA OrderQueued ==
    ASSUME NEW held \in Seq(Frames), NEW read \in Nat, read <= Len(held),
           NEW pends \in Seq(Frames), NEW had, Boxes(had),
           NEW e \in Frames, LatestSo(held, pends, had, e),
           SessionOrder(held, read, pends, had)
    PROVE  SessionOrder(Append(held, e), read, pends, had)
<1> DEFINE held2 == Append(held, e)
<1>1. /\ Len(held) \in Nat /\ \A i \in 1..Len(held) : held2[i] = held[i]
      /\ Range(held2) = Range(held) \cup {e}
    BY AppendProperties, AppendRange, LenProperties
<1>2. InOrder(held2)
    BY InOrderAppend DEF SessionOrder, LatestSo
<1> HIDE DEF held2
<1>3. \A g \in Range(pends) : g \in Frames
    BY RangeOfSeq
<1>4. \A g \in Range(pends) : ~Earlier(e, g)
    <2> SUFFICES ASSUME NEW g \in Range(pends), Earlier(e, g) PROVE FALSE
        OBVIOUS
    <2>1. g.n < e.n /\ e.n < g.n
        BY DEF Earlier, LatestSo
    <2> QED BY <1>3, <2>1, FrameNumber
<1>5. \A c \in Calls : \A g \in Range(had[c]) : ~Earlier(e, g)
    <2> SUFFICES ASSUME NEW c \in Calls, NEW g \in Range(had[c]), Earlier(e, g) PROVE FALSE
        OBVIOUS
    <2>1. g.n < e.n /\ e.n < g.n
        BY DEF Earlier, LatestSo
    <2>2. g \in Frames
        BY RangeOfSeq DEF Boxes
    <2> QED BY <2>1, <2>2, FrameNumber
<1>6. \A i \in 1..read : held2[i] = held[i]
    BY <1>1
<1>7. \A i \in DOMAIN pends : pends[i] \in Range(pends)
    BY DEF Range
<1>8. \A i \in DOMAIN pends : \A f \in Range(held2) \cup Range(pends) :
        Earlier(f, pends[i]) =>
            f \in Range(had[f.call]) \/ \E j \in DOMAIN pends : j < i /\ pends[j] = f
    BY <1>1, <1>4, <1>7 DEF SessionOrder
<1>9. \A c \in Calls : \A g \in Range(had[c]), f \in Range(held2) \cup Range(pends) :
        Earlier(f, g) => f \in Range(had[f.call])
    BY <1>1, <1>5 DEF SessionOrder
<1>10. \A i \in 1..read :
        held2[i].kind # "invite" => held2[i] \in Range(had[held2[i].call]) \cup Range(pends)
    BY <1>6 DEF SessionOrder
<1> QED BY <1>2, <1>8, <1>9, <1>10 DEF SessionOrder, held2

\* A frame that is no line to come, or was handed over, leaves pending.
LEMMA OrderTaken ==
    ASSUME NEW held \in Seq(Frames), NEW read, NEW pends \in Seq(Frames), NEW had, NEW had2,
           NEW i \in DOMAIN pends, SessionOrder(held, read, pends, had),
           \A c \in Calls : Range(had[c]) \subseteq Range(had2[c]) /\ InOrder(had2[c]),
           pends[i].kind = "invite" \/ pends[i] \in Range(had2[pends[i].call]),
           \A c \in Calls : \A g \in Range(had2[c]), f \in Range(held) \cup Range(pends) :
               Earlier(f, g) => f \in Range(had2[f.call])
    PROVE  SessionOrder(held, IF read \in Nat /\ read <= Len(held) THEN read ELSE 0, RemoveAt(pends, i), had2)
<1> DEFINE r == RemoveAt(pends, i)
           n == Len(pends)
           k == IF read \in Nat /\ read <= Len(held) THEN read ELSE 0
<1>1. /\ DOMAIN pends = 1..n /\ n \in Nat /\ DOMAIN r = 1..(n - 1)
      /\ \A a \in 1..(n - 1) : r[a] = IF a < i THEN pends[a] ELSE pends[a + 1]
      /\ Range(r) \subseteq Range(pends) /\ Range(pends) \subseteq Range(r) \cup {pends[i]}
    BY Spliced
<1> HIDE DEF r, n
<1>2. \A f \in Range(held) \cup Range(pends) : f \in Frames /\ f.call \in Calls
    BY RangeOfSeq, FrameNumber
<1>3. ASSUME NEW l \in 1..k, held[l].kind # "invite"
      PROVE  held[l] \in Range(had2[held[l].call]) \cup Range(r)
    <2>1. l \in 1..read /\ l \in 1..Len(held) /\ k = read
        BY LenProperties
    <2>2. held[l] \in Range(had[held[l].call]) \cup Range(pends)
        BY <1>3, <2>1 DEF SessionOrder
    <2>3. held[l].call \in Calls
        BY <2>1, ElementOfSeq, FrameNumber
    <2> QED BY <1>1, <1>3, <2>2, <2>3
<1>4. ASSUME NEW a \in DOMAIN r, NEW f \in Range(held) \cup Range(r), Earlier(f, r[a])
      PROVE  f \in Range(had2[f.call]) \/ \E j \in DOMAIN r : j < a /\ r[j] = f
    <2>1. PICK b : b = IF a < i THEN a ELSE a + 1
        OBVIOUS
    <2>2. b \in DOMAIN pends /\ r[a] = pends[b] /\ i \in 1..n /\ a \in 1..(n - 1)
        BY <1>1, <2>1
    <2>3. f \in Range(held) \cup Range(pends) /\ f.call \in Calls
        BY <1>1, <1>2
    <2>4. f \in Range(had[f.call]) \/ \E j \in DOMAIN pends : j < b /\ pends[j] = f
        BY <1>4, <2>2, <2>3 DEF SessionOrder
    <2>5. CASE f \in Range(had[f.call])
        BY <2>3, <2>5
    <2>6. ASSUME NEW j \in DOMAIN pends, j < b, pends[j] = f
          PROVE  f \in Range(had2[f.call]) \/ \E l \in DOMAIN r : l < a /\ r[l] = f
        <3>1. CASE j = i
            BY <1>4, <2>6, <3>1 DEF Earlier, Line
        <3>2. CASE j < i
            <4>1. j \in DOMAIN r /\ j < a /\ r[j] = pends[j]
                BY <1>1, <2>1, <2>2, <2>6, <3>2
            <4> QED BY <2>6, <4>1
        <3>3. CASE j > i
            <4>1. j - 1 \in 1..(n - 1) /\ j - 1 < a /\ ~(j - 1 < i) /\ (j - 1) + 1 = j
                BY <1>1, <2>1, <2>2, <2>6, <3>3
            <4>2. r[j - 1] = pends[j]
                BY <1>1, <4>1
            <4> QED BY <1>1, <2>6, <4>1, <4>2
        <3> QED BY <1>1, <2>2, <3>1, <3>2, <3>3
    <2> QED BY <2>4, <2>5, <2>6
<1>5. /\ InOrder(held)
      /\ \A c \in Calls : InOrder(had2[c])
      /\ \A c \in Calls : \A g \in Range(had2[c]), f \in Range(held) \cup Range(r) :
            Earlier(f, g) => f \in Range(had2[f.call])
    BY <1>1 DEF SessionOrder
<1> HIDE DEF k
<1>6. SessionOrder(held, k, r, had2)
    BY <1>3, <1>4, <1>5 DEF SessionOrder
<1> QED BY <1>6 DEF k, r

\* A line is the only one of its call with its number, and was spoken.
LEMMA LineUnique ==
    ASSUME LogInv
    PROVE  /\ \A f \in Recorded : Line(f) => f.n <= said
           /\ \A f, g \in Recorded :
                Line(f) /\ Line(g) /\ f.call = g.call /\ f.n = g.n => f = g
<1>1. ASSUME NEW f \in Recorded, Line(f)
      PROVE  /\ f.call \in Calls /\ f.n \in Nat
             /\ \E i \in DOMAIN script[f.call] : script[f.call][i] = f
    <2>1. f \in Frames /\ f \in Range(script[f.call])
        BY <1>1 DEF Recorded, Line
    <2> QED BY <2>1, FrameNumber DEF Range
<1>2. ASSUME NEW f \in Recorded, Line(f)
      PROVE  f.n <= said
    BY <1>1, <1>2 DEF LogInv, ScriptNumbered
<1>3. ASSUME NEW f \in Recorded, NEW g \in Recorded, Line(f), Line(g), f.call = g.call, f.n = g.n
      PROVE  f = g
    <2>1. PICK i \in DOMAIN script[f.call] : script[f.call][i] = f
        BY <1>1, <1>3
    <2>2. PICK j \in DOMAIN script[f.call] : script[f.call][j] = g
        BY <1>1, <1>3
    <2>3. i \in Nat /\ j \in Nat /\ f.call \in Calls /\ f.n \in Nat
        BY <1>1, <1>3, LenProperties DEF LogInv
    <2>4. ~(i < j) /\ ~(j < i)
        BY <1>3, <2>1, <2>2, <2>3 DEF LogInv, ScriptNumbered
    <2>5. i = j
        BY <2>3, <2>4
    <2> QED BY <2>1, <2>2, <2>5
<1> QED BY <1>2, <1>3

\* The first line or close of a call in pending is handed over, unless it was.
LEMMA OrderAnswered ==
    ASSUME NEW held \in Seq(Frames), NEW read \in Nat, read <= Len(held), NEW pends \in Seq(Frames),
           NEW had \in [Calls -> Seq(Frames)], NEW had2, NEW c \in Calls, NEW i \in DOMAIN pends,
           SessionOrder(held, read, pends, had),
           pends[i].call = c, pends[i].kind # "invite",
           \A j \in DOMAIN pends : pends[j].call = c /\ pends[j].kind # "invite" => i <= j,
           had2 = [had EXCEPT ![c] =
               IF pends[i] \in Range(had[c]) THEN had[c] ELSE Append(had[c], pends[i])],
           \A g \in Range(had[c]) :
               g.call = c /\ (Line(g) /\ Line(pends[i]) /\ g.n = pends[i].n => g = pends[i])
    PROVE  SessionOrder(held, read, RemoveAt(pends, i), had2)
<1>1. PICK e : e = pends[i]
    OBVIOUS
<1>2. e \in Frames /\ e \in Range(pends) /\ e.n \in Nat
    BY <1>1, ElementOfSeq, LenProperties, FrameNumber DEF Range
<1>3. had[c] \in Seq(Frames) /\ \A g \in Range(had[c]) : g \in Frames /\ g.n \in Nat
    <2>1. had[c] \in Seq(Frames)
        OBVIOUS
    <2> QED BY <2>1, RangeOfSeq, FrameNumber
<1>4. /\ had2[c] = IF e \in Range(had[c]) THEN had[c] ELSE Append(had[c], e)
      /\ \A d \in Calls : d # c => had2[d] = had[d]
    BY <1>1
<1>5. Range(Append(had[c], e)) = Range(had[c]) \cup {e}
    BY <1>2, <1>3, AppendRange
<1>6. Range(had2[c]) = Range(had[c]) \cup {e}
    BY <1>4, <1>5
<1>7. InOrder(had2[c])
    <2>1. CASE e \in Range(had[c])
        BY <1>4, <2>1 DEF SessionOrder
    <2>2. CASE e \notin Range(had[c])
        <3>1. ASSUME NEW g \in Range(had[c]), Line(g), Line(e)
              PROVE  g.n < e.n
            <4>1. g.call = c /\ e.call = c /\ g.n # e.n
                BY <1>1, <2>2, <3>1
            <4>2. ~(e.n < g.n)
                BY <1>2, <2>2, <3>1, <4>1 DEF SessionOrder, Earlier
            <4> QED BY <1>2, <1>3, <4>1, <4>2
        <3>2. InOrder(had[c])
            BY DEF SessionOrder
        <3>3. InOrder(Append(had[c], e))
            BY <1>2, <1>3, <3>1, <3>2, InOrderAppend
        <3> QED BY <1>4, <2>2, <3>3
    <2> QED BY <2>1, <2>2
<1>8. ASSUME NEW d \in Calls
      PROVE  Range(had[d]) \subseteq Range(had2[d]) /\ InOrder(had2[d])
    BY <1>4, <1>6, <1>7 DEF SessionOrder
<1>9. ASSUME NEW d \in Calls, NEW g \in Range(had2[d]), NEW f \in Range(held) \cup Range(pends), Earlier(f, g)
      PROVE  f \in Range(had2[f.call])
    <2>0. f \in Frames /\ f.call \in Calls
        BY RangeOfSeq, FrameNumber
    <2>1. CASE g \in Range(had[d])
        <3>1. f \in Range(had[f.call])
            BY <1>9, <2>1 DEF SessionOrder
        <3> QED BY <1>8, <2>0, <3>1
    <2>2. CASE g \notin Range(had[d])
        <3>1. g = e
            BY <1>4, <1>6, <2>2
        <3>2. f \in Range(had[f.call]) \/ \E j \in DOMAIN pends : j < i /\ pends[j] = f
            BY <1>1, <1>9, <3>1 DEF SessionOrder
        <3>3. ASSUME NEW j \in DOMAIN pends, j < i, pends[j] = f
              PROVE  FALSE
            <4>1. pends[j].call = c /\ pends[j].kind # "invite"
                BY <1>1, <1>9, <3>1, <3>3 DEF Earlier, Line
            <4>2. i <= j /\ i \in Nat /\ j \in Nat
                BY <4>1, LenProperties
            <4> QED BY <3>3, <4>2
        <3> QED BY <1>8, <2>0, <3>2, <3>3
    <2> QED BY <2>1, <2>2
<1>10. pends[i] \in Range(had2[pends[i].call])
    BY <1>1, <1>6
<1>11. SessionOrder(held, IF read \in Nat /\ read <= Len(held) THEN read ELSE 0, RemoveAt(pends, i), had2)
    <2>1. \A d \in Calls : Range(had[d]) \subseteq Range(had2[d]) /\ InOrder(had2[d])
        BY <1>8
    <2>2. \A d \in Calls : \A g \in Range(had2[d]), f \in Range(held) \cup Range(pends) :
            Earlier(f, g) => f \in Range(had2[f.call])
        BY <1>9
    <2>3. SessionOrder(held, read, pends, had)
        OBVIOUS
    <2> QED BY ONLY held \in Seq(Frames), pends \in Seq(Frames), i \in DOMAIN pends,
                    <1>10, <2>1, <2>2, <2>3, OrderTaken
<1> QED BY <1>11

-----------------------------------------------------------------------------
(* Ordered, action by action.                                               *)

SessionsOrdered == \A p \in Agents : SessionOrder(q[p], seen[p], pending[p], heard[p])
ConsolesOrdered == \A h \in Humans, c \in Calls : InOrder(heard[h][c] \o buffer[h][c])

\* What the order lemmas need of the invariant.
LEMMA OrderFacts ==
    ASSUME IInv
    PROVE  /\ \A p \in Parties : q[p] \in Seq(Frames) /\ Range(q[p]) \subseteq Recorded
           /\ \A p \in Agents :
                /\ p \in Parties
                /\ pending[p] \in Seq(Frames) /\ Range(pending[p]) \subseteq Recorded
                /\ seen[p] \in Nat /\ redo[p] \in Nat /\ Len(q[p]) \in Nat
                /\ seen[p] + redo[p] <= Len(q[p])
           /\ \A p \in Parties, c \in Calls :
                /\ heard[p] \in [Calls -> Seq(Frames)]
                /\ heard[p][c] \in Seq(Frames)
                /\ Range(heard[p][c]) \subseteq Recorded
                /\ \A f \in Range(heard[p][c]) : f.call = c
           /\ \A h \in Humans, c \in Calls :
                /\ h \in Parties
                /\ buffer[h][c] \in Seq(Frames)
                /\ Range(buffer[h][c]) \subseteq Recorded
                /\ \A f \in Range(buffer[h][c]) : f.call = c
<1>1. HeldIn(Recorded) /\ LinkInv /\ TypeOK
    BY PartsOfInv DEF IInv
<1>2. ASSUME NEW p \in Parties
      PROVE  q[p] \in Seq(Frames) /\ Range(q[p]) \subseteq Recorded
    <2>1. q[p] \in Seq(Recorded) /\ q[p] \in Seq(Frames)
        BY <1>1 DEF HeldIn, TypeOK
    <2> QED BY <2>1, RangeOfSeq
<1>3. ASSUME NEW p \in Agents
      PROVE  /\ p \in Parties
             /\ pending[p] \in Seq(Frames) /\ Range(pending[p]) \subseteq Recorded
             /\ seen[p] \in Nat /\ redo[p] \in Nat /\ Len(q[p]) \in Nat
             /\ seen[p] + redo[p] <= Len(q[p])
    <2>1. p \in Parties /\ pending[p] \in Seq(Recorded) /\ pending[p] \in Seq(Frames)
        BY <1>1 DEF HeldIn, TypeOK, Parties
    <2>2. Len(q[p]) \in Nat
        BY <1>2, <2>1, LenProperties
    <2>3. seen[p] \in Nat /\ redo[p] \in Nat /\ seen[p] + redo[p] <= Len(q[p])
        BY <1>1, <2>1 DEF LinkInv
    <2> QED BY <2>1, <2>2, <2>3, RangeOfSeq
<1>4. ASSUME NEW p \in Parties, NEW c \in Calls
      PROVE  /\ heard[p] \in [Calls -> Seq(Frames)]
             /\ heard[p][c] \in Seq(Frames)
             /\ Range(heard[p][c]) \subseteq Recorded
             /\ \A f \in Range(heard[p][c]) : f.call = c
    <2>1. heard[p] \in [Calls -> Seq(Frames)] /\ heard[p][c] \in Seq(Filed(Recorded, c))
        BY <1>1 DEF HeldIn, TypeOK
    <2>2. Range(heard[p][c]) \subseteq Filed(Recorded, c)
        BY <2>1, RangeOfSeq
    <2> QED BY <2>1, <2>2 DEF Filed
<1>5. ASSUME NEW h \in Humans, NEW c \in Calls
      PROVE  /\ h \in Parties
             /\ buffer[h][c] \in Seq(Frames)
             /\ Range(buffer[h][c]) \subseteq Recorded
             /\ \A f \in Range(buffer[h][c]) : f.call = c
    <2>1. h \in Parties /\ buffer[h][c] \in Seq(Frames) /\ buffer[h][c] \in Seq(Filed(Recorded, c))
        BY <1>1 DEF HeldIn, TypeOK, Parties
    <2>2. Range(buffer[h][c]) \subseteq Filed(Recorded, c)
        BY <2>1, RangeOfSeq
    <2> QED BY <2>1, <2>2 DEF Filed
<1> QED BY <1>2, <1>3, <1>4, <1>5

\* The two halves of Ordered, when the other one's variables are left alone.
LEMMA SessionsQuiet ==
    ASSUME SessionsOrdered, UNCHANGED <<q, seen, pending, heard>>
    PROVE  SessionsOrdered'
BY DEF SessionsOrdered

LEMMA ConsolesQuiet ==
    ASSUME ConsolesOrdered, UNCHANGED <<buffer, heard>>
    PROVE  ConsolesOrdered'
BY DEF ConsolesOrdered

\* One session's boxes change.
LEMMA SessionChanges ==
    ASSUME IInv, SessionsOrdered, NEW p \in Agents,
           SessionOrder(q'[p], seen'[p], pending'[p], heard'[p]),
           \A x \in Agents : x # p =>
               q'[x] = q[x] /\ seen'[x] = seen[x] /\ pending'[x] = pending[x] /\ heard'[x] = heard[x]
    PROVE  SessionsOrdered'
<1>1. ASSUME NEW x \in Agents
      PROVE  SessionOrder(q'[x], seen'[x], pending'[x], heard'[x])
    <2>1. CASE x = p
        BY <2>1
    <2>2. CASE x # p
        <3>1. q'[x] = q[x] /\ seen'[x] = seen[x] /\ pending'[x] = pending[x] /\ heard'[x] = heard[x]
            BY <2>2
        <3>2. SessionOrder(q[x], seen[x], pending[x], heard[x])
            BY DEF SessionsOrdered
        <3> QED BY ONLY <3>1, <3>2
    <2> QED BY <2>1, <2>2
<1> QED BY <1>1 DEF SessionsOrdered

\* A new line is later than every line there is.
LEMMA NewIsLatest ==
    ASSUME IInv, NEW f \in Frames, Line(f) => f.n = said + 1
    PROVE  \A g \in Recorded : Line(f) /\ Line(g) => g.n < f.n
<1>1. LogInv
    BY PartsOfInv
<1>2. ASSUME NEW g \in Recorded, Line(f), Line(g)
      PROVE  g.n < f.n
    <2>1. g \in Frames /\ g.n <= said
        BY <1>1, <1>2, LineUnique DEF Recorded
    <2>2. g.n \in Nat /\ said \in Nat /\ f.n = said + 1
        BY <1>1, <1>2, <2>1, FrameNumber DEF LogInv
    <2> QED BY <2>1, <2>2
<1> QED BY <1>2

LEMMA RouteOrdered ==
    ASSUME IInv, Ordered, NEW f \in Frames, Route(f), Line(f) => f.n = said + 1,
           UNCHANGED <<seen, pending, heard>>
    PROVE  Ordered'
<1>1. PICK x \in Parties : x = Peer(f.from, f.call) /\ Deliver(x, f)
    <2>1. Peer(f.from, f.call) \in Parties
        BY PeerType DEF Frames
    <2> QED BY <2>1 DEF Route
<1>2. SessionsOrdered /\ ConsolesOrdered /\ f.call \in Calls
    BY FrameNumber DEF Ordered, SessionsOrdered, ConsolesOrdered
<1>3. \A g \in Recorded : Line(f) /\ Line(g) => g.n < f.n
    BY NewIsLatest
<1>4. CASE x \in Humans /\ online[x]
    <2>1. UNCHANGED <<q, seen, pending, heard>>
        BY <1>1, <1>4 DEF Deliver
    <2>2. buffer' = [buffer EXCEPT ![x][f.call] = Append(@, f)]
        BY <1>1, <1>4 DEF Deliver
    <2>3. ASSUME NEW h \in Humans, NEW c \in Calls
          PROVE  InOrder(heard[h][c] \o buffer'[h][c])
        <3>1. InOrder(heard[h][c] \o buffer[h][c])
            BY <1>2 DEF ConsolesOrdered
        <3>2. CASE h = x /\ c = f.call
            <4>1. PICK a, b : a = heard[h][c] /\ b = buffer[h][c]
                OBVIOUS
            <4>2. /\ a \in Seq(Frames) /\ b \in Seq(Frames)
                  /\ Range(a) \cup Range(b) \subseteq Recorded
                BY <4>1, OrderFacts
            <4>3. buffer'[h][c] = Append(b, f)
                BY <1>2, <1>4, <2>2, <3>2, <4>1 DEF IInv, TypeOK
            <4>4. a \o b \in Seq(Frames) /\ Range(a \o b) \subseteq Recorded
                BY <4>2, ConcatProperties, RangeConcatenation
            <4>5. InOrder(Append(a \o b, f))
                BY <1>3, <3>1, <4>1, <4>4, InOrderAppend
            <4>6. Append(a \o b, f) = a \o Append(b, f)
                <5>1. <<f>> \in Seq(Frames)
                    BY AppendIsConcat, EmptySeq
                <5>2. (a \o b) \o <<f>> = a \o (b \o <<f>>)
                    BY <4>2, <5>1, ConcatAssociative
                <5> QED BY <4>2, <4>4, <5>2, AppendIsConcat
            <4> QED BY <4>1, <4>3, <4>5, <4>6
        <3>3. CASE ~(h = x /\ c = f.call)
            <4>1. buffer'[h][c] = buffer[h][c]
                BY <1>2, <1>4, <2>2, <3>3 DEF IInv, TypeOK
            <4> QED BY <3>1, <4>1
        <3> QED BY <3>2, <3>3
    <2> QED BY <1>2, <2>1, <2>3, SessionsQuiet DEF Ordered, SessionsOrdered
<1>5. CASE ~(x \in Humans /\ online[x])
    <2>1. q' = [q EXCEPT ![x] = Append(@, f)] /\ buffer' = buffer
        BY <1>1, <1>5 DEF Deliver
    <2>2. ConsolesOrdered'
        BY <1>2, <2>1, ConsolesQuiet
    <2>3. \A y \in Parties : y # x => q'[y] = q[y]
        BY <2>1 DEF IInv, TypeOK
    <2>4. CASE x \in Agents
        <3>1. q'[x] = Append(q[x], f)
            BY <2>1 DEF IInv, TypeOK
        <3>2. /\ q[x] \in Seq(Frames) /\ seen[x] \in Nat /\ seen[x] <= Len(q[x])
              /\ pending[x] \in Seq(Frames) /\ Boxes(heard[x])
            BY <2>4, OrderFacts DEF Boxes
        <3>3. LatestSo(q[x], pending[x], heard[x], f)
            BY <1>3, <2>4, OrderFacts DEF LatestSo
        <3>4. SessionOrder(q[x], seen[x], pending[x], heard[x])
            BY <1>2, <2>4 DEF SessionsOrdered
        <3>5. SessionOrder(Append(q[x], f), seen[x], pending[x], heard[x])
            BY <3>2, <3>3, <3>4, OrderQueued
        <3>6. \A y \in Agents : y # x => q'[y] = q[y]
            BY <2>3 DEF Parties
        <3>7. SessionsOrdered'
            BY <1>2, <2>4, <3>1, <3>5, <3>6, SessionChanges
        <3> QED BY <2>2, <3>7 DEF Ordered, SessionsOrdered, ConsolesOrdered
    <2>5. CASE x \notin Agents
        <3>1. \A y \in Agents : q'[y] = q[y]
            BY <2>3, <2>5 DEF Parties
        <3>2. SessionsOrdered'
            BY <1>2, <3>1 DEF SessionsOrdered
        <3> QED BY <2>2, <3>2 DEF Ordered, SessionsOrdered, ConsolesOrdered
    <2> QED BY <2>4, <2>5
<1> QED BY <1>4, <1>5

LEMMA SendOrdered ==
    ASSUME IInv, Ordered, NEW p \in Parties, NEW f \in Frames, SendCall(p, f), Line(f) => f.n = said + 1,
           UNCHANGED <<seen, pending, heard>>
    PROVE  Ordered'
<1>1. CASE Route(f)
    BY <1>1, RouteOrdered
<1>2. CASE UNCHANGED <<q, buffer, log, hungUp, stranded>>
    BY <1>2 DEF Ordered
<1> QED BY <1>1, <1>2 DEF SendCall

\* The actions that send a frame: a line has the next number.
LEMMA SpeakOrdered ==
    ASSUME IInv, Ordered
    PROVE  /\ \A p \in Agents, c \in Calls : PlaceCall(p, c) => Ordered'
           /\ \A p \in Agents : Say(p) \/ Hangup(p) => Ordered'
           /\ \A h \in Humans, c \in Calls : ConsoleCall(h, c) => Ordered'
           /\ \A h \in Humans : ConsoleSay(h) \/ ConsoleHangup(h) => Ordered'
<1>1. /\ 0 \in 0..MaxSays
      /\ said \in Nat
      /\ active \in [Parties -> Calls \cup {None}]
      /\ \A p \in Agents : p \in Parties
      /\ \A h \in Humans : h \in Parties
      /\ said < MaxSays => said + 1 \in 0..MaxSays
    BY BoundsAssumption DEF IInv, TypeOK, Parties
<1>2. ASSUME NEW p \in Parties, NEW c \in Calls, NEW kind \in {"invite", "close"},
             SendCall(p, Frame(c, kind, p, 0)) \/ Route(Frame(c, kind, p, 0)),
             UNCHANGED <<seen, pending, heard>>
      PROVE  Ordered'
    <2>1. Frame(c, kind, p, 0) \in Frames /\ ~Line(Frame(c, kind, p, 0))
        BY <1>1, FrameType DEF Frame, Line
    <2>2. PICK f \in Frames : f = Frame(c, kind, p, 0) /\ ~Line(f)
        BY <2>1
    <2> QED BY <1>2, <2>2, SendOrdered, RouteOrdered
<1>3. ASSUME NEW p \in Parties, NEW c \in Calls, said < MaxSays,
             SendCall(p, Frame(c, "frame", p, said + 1)) \/ Route(Frame(c, "frame", p, said + 1)),
             UNCHANGED <<seen, pending, heard>>
      PROVE  Ordered'
    <2>1. Frame(c, "frame", p, said + 1) \in Frames /\ Frame(c, "frame", p, said + 1).n = said + 1
        BY <1>1, <1>3, FrameType DEF Frame
    <2>2. PICK f \in Frames : f = Frame(c, "frame", p, said + 1) /\ f.n = said + 1
        BY <2>1
    <2> QED BY <1>3, <2>2, SendOrdered, RouteOrdered
<1>4. ASSUME NEW p \in Agents, NEW c \in Calls, PlaceCall(p, c) PROVE Ordered'
    BY <1>1, <1>2, <1>4 DEF PlaceCall
<1>5. ASSUME NEW p \in Agents, Say(p) PROVE Ordered'
    <2>1. active[p] \in Calls
        BY <1>1, <1>5 DEF Say
    <2> QED BY <1>1, <1>3, <1>5, <2>1 DEF Say
<1>6. ASSUME NEW p \in Agents, Hangup(p) PROVE Ordered'
    <2>1. active[p] \in Calls
        BY <1>1, <1>6 DEF Hangup
    <2> QED BY <1>1, <1>2, <1>6, <2>1 DEF Hangup, ghosts
<1>7. ASSUME NEW h \in Humans, NEW c \in Calls, ConsoleCall(h, c) PROVE Ordered'
    BY <1>1, <1>2, <1>7 DEF ConsoleCall
<1>8. ASSUME NEW h \in Humans, ConsoleSay(h) PROVE Ordered'
    <2>1. active[h] \in Calls
        BY <1>1, <1>8 DEF ConsoleSay
    <2> QED BY <1>1, <1>3, <1>8, <2>1 DEF ConsoleSay
<1>9. ASSUME NEW h \in Humans, ConsoleHangup(h) PROVE Ordered'
    <2>1. active[h] \in Calls
        BY <1>1, <1>9 DEF ConsoleHangup
    <2> QED BY <1>1, <1>2, <1>9, <2>1 DEF ConsoleHangup, ghosts
<1> QED BY <1>4, <1>5, <1>6, <1>7, <1>8, <1>9

\* The invite that is picked up is no line.
LEMMA PickupCallOrdered ==
    ASSUME IInv, Ordered, NEW p \in Agents, PickupCall(p)
    PROVE  Ordered'
<1>1. SessionsOrdered /\ ConsolesOrdered
    BY DEF Ordered, SessionsOrdered, ConsolesOrdered
<1>2. PICK i \in DOMAIN pending[p] :
        /\ pending[p][i].kind = "invite"
        /\ pending' = [pending EXCEPT ![p] = RemoveAt(@, i)]
    <2>1. LastInvite(p) \in Invites(p)
        BY LastInviteIn, OrderFacts DEF PickupCall
    <2> QED BY <2>1 DEF PickupCall, Invites
<1>3. UNCHANGED <<q, seen, buffer, heard>>
    BY DEF PickupCall, link, ghosts
<1>4. SessionOrder(q[p], seen[p], RemoveAt(pending[p], i), heard[p])
    <2>1. /\ q[p] \in Seq(Frames) /\ seen[p] \in Nat /\ seen[p] <= Len(q[p])
          /\ pending[p] \in Seq(Frames)
        BY OrderFacts
    <2>2. SessionOrder(q[p], seen[p], pending[p], heard[p])
        BY <1>1 DEF SessionsOrdered
    <2>3. PICK held, read, pends, had :
            held = q[p] /\ read = seen[p] /\ pends = pending[p] /\ had = heard[p]
        OBVIOUS
    <2>4. /\ \A c \in Calls : Range(had[c]) \subseteq Range(had[c]) /\ InOrder(had[c])
          /\ \A c \in Calls : \A g \in Range(had[c]), f \in Range(held) \cup Range(pends) :
                Earlier(f, g) => f \in Range(had[f.call])
        BY <2>2, <2>3 DEF SessionOrder
    <2>5. SessionOrder(held, IF read \in Nat /\ read <= Len(held) THEN read ELSE 0, RemoveAt(pends, i), had)
        BY <1>2, <2>1, <2>2, <2>3, <2>4, OrderTaken
    <2> QED BY <2>1, <2>3, <2>5
<1>5. SessionsOrdered'
    <2>1. pending'[p] = RemoveAt(pending[p], i) /\ \A x \in Agents : x # p => pending'[x] = pending[x]
        BY <1>2 DEF IInv, TypeOK
    <2> QED BY <1>1, <1>3, <1>4, <2>1, SessionChanges
<1> QED BY <1>1, <1>3, <1>5, ConsolesQuiet DEF Ordered, SessionsOrdered, ConsolesOrdered

LEMMA AnsweredOrdered ==
    ASSUME IInv, Ordered, NEW p \in Agents, NEW tool, NEW c \in Calls, Answered(p, tool, c)
    PROVE  Ordered'
<1>1. SessionsOrdered /\ ConsolesOrdered
    BY DEF Ordered, SessionsOrdered, ConsolesOrdered
<1>2. /\ q[p] \in Seq(Frames) /\ seen[p] \in Nat /\ seen[p] <= Len(q[p])
      /\ pending[p] \in Seq(Frames) /\ p \in Parties
      /\ heard[p] \in [Calls -> Seq(Frames)]
    BY OrderFacts
<1>3. PICK i \in DOMAIN pending[p] : i = FirstOf(Match(p, c)) /\ i \in Match(p, c)
    <2>1. Match(p, c) # {}
        BY DEF Answered
    <2>2. PICK k : k = FirstOf(Match(p, c)) /\ k \in Match(p, c)
        BY <1>2, <2>1, FirstOfMatch
    <2>3. k \in DOMAIN pending[p]
        BY <2>2 DEF Match
    <2> QED BY <2>2, <2>3
<1>4. \A j \in Match(p, c) : i <= j
    <2>1. Match(p, c) \in SUBSET Nat /\ Match(p, c) # {}
        <3>1. DOMAIN pending[p] \subseteq Nat
            BY <1>2, LenProperties
        <3>2. Match(p, c) \subseteq DOMAIN pending[p]
            BY DEF Match
        <3> QED BY <1>3, <3>1, <3>2
    <2>2. \E k \in Match(p, c) : \A j \in Match(p, c) : k <= j
        BY <2>1, FirstPosition
    <2> QED BY <1>3, <2>2 DEF FirstOf
<1>5. PICK pends, had, had2 :
        /\ pends = pending[p] /\ had = heard[p]
        /\ had2 = [had EXCEPT ![c] =
             IF pends[i] \in Range(had[c]) THEN had[c] ELSE Append(had[c], pends[i])]
    OBVIOUS
<1>6. /\ pending' = [pending EXCEPT ![p] = RemoveAt(pends, i)]
      /\ heard' = [heard EXCEPT ![p] = had2]
      /\ UNCHANGED <<q, seen, buffer>>
    BY <1>3, <1>5 DEF Answered, link
<1>7. pends[i].call = c /\ pends[i].kind # "invite"
    BY <1>3, <1>5 DEF Match
<1>8. \A j \in DOMAIN pends : pends[j].call = c /\ pends[j].kind # "invite" => i <= j
    BY <1>4, <1>5 DEF Match
<1>9. \A g \in Range(had[c]) :
        g.call = c /\ (Line(g) /\ Line(pends[i]) /\ g.n = pends[i].n => g = pends[i])
    <2>1. LogInv
        BY PartsOfInv
    <2>2. pends[i] \in Recorded
        BY <1>5, OrderFacts DEF Range
    <2>3. \A g \in Range(had[c]) : g.call = c /\ g \in Recorded
        BY <1>2, <1>5, OrderFacts
    <2> QED BY <1>7, <2>1, <2>2, <2>3, LineUnique
<1>10. SessionOrder(q[p], seen[p], pends, had)
    BY <1>1, <1>5 DEF SessionsOrdered
<1>11. SessionOrder(q[p], seen[p], RemoveAt(pends, i), had2)
    <2>1. PICK held, read : held = q[p] /\ read = seen[p]
        OBVIOUS
    <2>2. /\ held \in Seq(Frames) /\ read \in Nat /\ read <= Len(held) /\ pends \in Seq(Frames)
          /\ had \in [Calls -> Seq(Frames)] /\ i \in DOMAIN pends
          /\ SessionOrder(held, read, pends, had)
        BY <1>2, <1>5, <1>10, <2>1
    <2>3. SessionOrder(held, read, RemoveAt(pends, i), had2)
        <3>1. had2 = [had EXCEPT ![c] =
                 IF pends[i] \in Range(had[c]) THEN had[c] ELSE Append(had[c], pends[i])]
            BY <1>5
        <3>2. pends[i].call = c
            BY <1>7
        <3>3. pends[i].kind # "invite"
            BY <1>7
        <3>4. c \in Calls
            OBVIOUS
        <3> QED BY ONLY <1>8, <1>9, <2>2, <3>1, <3>2, <3>3, <3>4, OrderAnswered
    <2> QED BY <2>1, <2>3
<1>12. SessionsOrdered'
    <2>1. /\ pending'[p] = RemoveAt(pends, i) /\ heard'[p] = had2
          /\ \A x \in Agents : x # p => pending'[x] = pending[x] /\ heard'[x] = heard[x]
        BY <1>2, <1>6 DEF IInv, TypeOK, Parties
    <2> QED BY <1>1, <1>6, <1>11, <2>1, SessionChanges
<1>13. ConsolesOrdered'
    <2>1. \A h \in Humans : h # p /\ h \in Parties
        BY PartiesAssumption DEF Parties
    <2>2. \A h \in Humans : heard'[h] = heard[h]
        BY <1>6, <2>1 DEF IInv, TypeOK
    <2> QED BY <1>1, <1>6, <2>2 DEF ConsolesOrdered
<1> QED BY <1>12, <1>13 DEF Ordered, SessionsOrdered, ConsolesOrdered

LEMMA ClientRecvOrdered ==
    ASSUME IInv, Ordered, NEW p \in Agents, ClientRecv(p)
    PROVE  Ordered'
<1>1. SessionsOrdered /\ ConsolesOrdered
    BY DEF Ordered, SessionsOrdered, ConsolesOrdered
<1>2. /\ q[p] \in Seq(Frames) /\ seen[p] \in Nat /\ seen[p] < Len(q[p])
      /\ pending[p] \in Seq(Frames) /\ p \in Parties /\ Boxes(heard[p])
    BY OrderFacts DEF ClientRecv, Boxes
<1>3. /\ seen' = [seen EXCEPT ![p] = @ + 1]
      /\ pending' = [pending EXCEPT ![p] = Append(@, q[p][seen[p] + 1])]
      /\ UNCHANGED <<q, buffer, heard>>
    BY DEF ClientRecv, ghosts
<1>4. SessionOrder(q[p], seen[p] + 1, Append(pending[p], q[p][seen[p] + 1]), heard[p])
    BY <1>1, <1>2, OrderRead DEF SessionsOrdered
<1>5. /\ seen'[p] = seen[p] + 1 /\ pending'[p] = Append(pending[p], q[p][seen[p] + 1])
      /\ \A x \in Agents : x # p => seen'[x] = seen[x] /\ pending'[x] = pending[x]
    BY <1>2, <1>3 DEF IInv, TypeOK, Parties
<1>6. SessionsOrdered'
    BY <1>1, <1>3, <1>4, <1>5, SessionChanges
<1> QED BY <1>1, <1>3, <1>6, ConsolesQuiet DEF Ordered, SessionsOrdered, ConsolesOrdered

LEMMA HubAckOrdered ==
    ASSUME IInv, Ordered, NEW p \in Agents, HubAck(p)
    PROVE  Ordered'
<1>1. SessionsOrdered /\ ConsolesOrdered
    BY DEF Ordered, SessionsOrdered, ConsolesOrdered
<1>2. /\ q[p] \in Seq(Frames) /\ seen[p] \in Nat \ {0} /\ seen[p] <= Len(q[p])
      /\ p \in Parties
    BY OrderFacts DEF HubAck
<1>3. /\ seen' = [seen EXCEPT ![p] = @ - 1]
      /\ q' = [q EXCEPT ![p] = Tail(q[p])]
      /\ UNCHANGED <<pending, buffer, heard>>
    BY DEF HubAck, Acked, boxes, ghosts
<1>4. SessionOrder(Tail(q[p]), seen[p] - 1, pending[p], heard[p])
    BY <1>1, <1>2, OrderAcked DEF SessionsOrdered
<1>5. /\ seen'[p] = seen[p] - 1 /\ q'[p] = Tail(q[p])
      /\ \A x \in Agents : x # p => seen'[x] = seen[x] /\ q'[x] = q[x]
    BY <1>2, <1>3 DEF IInv, TypeOK, Parties
<1>6. SessionsOrdered'
    BY <1>1, <1>3, <1>4, <1>5, SessionChanges
<1> QED BY <1>1, <1>3, <1>6, ConsolesQuiet DEF Ordered, SessionsOrdered, ConsolesOrdered

\* A socket that dies, alone or with its session.
LEMMA DisconnectOrdered ==
    ASSUME IInv, Ordered, NEW p \in Agents, Drop(p) \/ SessionEnds(p)
    PROVE  Ordered'
<1>1. SessionsOrdered /\ ConsolesOrdered /\ p \in Parties
    BY OrderFacts DEF Ordered, SessionsOrdered, ConsolesOrdered
<1>2. q' = q
    BY DisconnectLink DEF Drop, SessionEnds
<1>3. /\ seen' = [seen EXCEPT ![p] = 0]
      /\ UNCHANGED <<buffer, heard>>
      /\ pending' = pending \/ pending' = [pending EXCEPT ![p] = <<>>]
    BY DEF Drop, SessionEnds, Disconnect, boxes, ghosts
<1>4. SessionOrder(q[p], 0, pending[p], heard[p]) /\ SessionOrder(q[p], 0, <<>>, heard[p])
    BY <1>1, OrderReset DEF SessionsOrdered
<1>5. /\ seen'[p] = 0 /\ pending'[p] \in {pending[p], <<>>}
      /\ \A x \in Agents : x # p => seen'[x] = seen[x] /\ pending'[x] = pending[x]
    BY <1>1, <1>3 DEF IInv, TypeOK, Parties
<1>6. SessionsOrdered'
    BY <1>1, <1>2, <1>3, <1>4, <1>5, SessionChanges
<1> QED BY <1>1, <1>3, <1>6, ConsolesQuiet DEF Ordered, SessionsOrdered, ConsolesOrdered

\* The front of a sequence of frames that is in order is in order.
LEMMA InOrderFront ==
    ASSUME NEW s \in Seq(Frames), NEW t \in Seq(Frames), InOrder(s \o t)
    PROVE  InOrder(s)
<1>1. PICK r : r = s \o t
    OBVIOUS
<1>2. /\ r \in Seq(Frames) /\ Len(r) = Len(s) + Len(t)
      /\ \A i \in 1..(Len(s) + Len(t)) : r[i] = IF i <= Len(s) THEN s[i] ELSE t[i - Len(s)]
      /\ Len(s) \in Nat /\ Len(t) \in Nat /\ DOMAIN s = 1..Len(s)
    BY <1>1, ConcatProperties, LenProperties
<1>3. DOMAIN r = 1..(Len(s) + Len(t))
    BY <1>2, LenProperties
<1>4. \A i \in DOMAIN s : i \in DOMAIN r /\ r[i] = s[i]
    BY <1>2, <1>3
<1>5. InOrder(r)
    BY <1>1
<1> QED BY <1>4, <1>5 DEF InOrder

\* A console is killed or polled: its buffer is dropped or handed over whole.
LEMMA ConsoleEmptied ==
    ASSUME IInv, ConsolesOrdered, NEW h \in Humans, NEW c \in Calls
    PROVE  /\ InOrder(heard[h][c] \o <<>>)
           /\ InOrder((heard[h][c] \o buffer[h][c]) \o <<>>)
           /\ InOrder(heard[h][c] \o buffer[h][c])
<1>1. PICK a, b : a = heard[h][c] /\ b = buffer[h][c]
    OBVIOUS
<1>2. a \in Seq(Frames) /\ b \in Seq(Frames)
    BY <1>1, OrderFacts
<1>3. InOrder(a \o b)
    BY <1>1 DEF ConsolesOrdered
<1>4. a \o b \in Seq(Frames)
    BY <1>2, ConcatProperties
<1>5. a \o <<>> = a /\ (a \o b) \o <<>> = a \o b
    BY <1>2, <1>4, ConcatEmptySeq
<1>6. InOrder(a)
    BY <1>2, <1>3, InOrderFront
<1> QED BY <1>1, <1>3, <1>5, <1>6

LEMMA CrashOrdered ==
    ASSUME IInv, Ordered, Crash
    PROVE  Ordered'
<1>1. SessionsOrdered /\ ConsolesOrdered
    BY DEF Ordered, SessionsOrdered, ConsolesOrdered
<1>2. /\ q' = [p \in Parties |-> IF p \in Agents /\ online[p] THEN <<>> ELSE q[p]]
      /\ seen' = [p \in Parties |-> 0]
      /\ buffer' = [h \in Humans |-> [c \in Calls |-> <<>>]]
      /\ UNCHANGED <<pending, heard>>
    BY DEF Crash
<1>3. ASSUME NEW p \in Agents
      PROVE  SessionOrder(q'[p], seen'[p], pending'[p], heard'[p])
    <2>1. /\ SessionOrder(q[p], 0, pending[p], heard[p])
          /\ SessionOrder(<<>>, 0, pending[p], heard[p])
        BY <1>1, OrderReset DEF SessionsOrdered
    <2>2. q'[p] \in {q[p], <<>>} /\ seen'[p] = 0
        BY <1>2, OrderFacts
    <2> QED BY <1>2, <2>1, <2>2
<1>4. ASSUME NEW h \in Humans, NEW c \in Calls
      PROVE  InOrder(heard'[h][c] \o buffer'[h][c])
    <2>1. heard'[h][c] = heard[h][c] /\ buffer'[h][c] = <<>>
        BY <1>2
    <2> QED BY <1>1, <2>1, ConsoleEmptied
<1> QED BY <1>3, <1>4 DEF Ordered

LEMMA ConsolePollOrdered ==
    ASSUME IInv, Ordered, NEW h \in Humans, ConsolePoll(h)
    PROVE  Ordered'
<1>1. SessionsOrdered /\ ConsolesOrdered /\ h \in Parties
    BY DEF Ordered, SessionsOrdered, ConsolesOrdered, Parties
<1>2. PICK polled :
        /\ buffer' = [buffer EXCEPT ![h] = [c \in Calls |-> IF c \in polled THEN <<>> ELSE buffer[h][c]]]
        /\ heard' = [heard EXCEPT ![h] =
             [c \in Calls |-> IF c \in polled THEN heard[h][c] \o buffer[h][c] ELSE heard[h][c]]]
    BY DEF ConsolePoll
<1>3. UNCHANGED <<q, seen, pending>>
    BY DEF ConsolePoll
<1>4. /\ \A x \in Parties : x # h => heard'[x] = heard[x]
      /\ \A x \in Humans : x # h => buffer'[x] = buffer[x]
      /\ \A c \in Calls :
           \/ heard'[h][c] = heard[h][c] \o buffer[h][c] /\ buffer'[h][c] = <<>>
           \/ heard'[h][c] = heard[h][c] /\ buffer'[h][c] = buffer[h][c]
    BY <1>1, <1>2 DEF IInv, TypeOK
<1>5. SessionsOrdered'
    <2>1. \A p \in Agents : p # h /\ p \in Parties
        BY PartiesAssumption DEF Parties
    <2>2. \A p \in Agents : heard'[p] = heard[p]
        BY <1>4, <2>1
    <2> QED BY <1>1, <1>3, <2>2 DEF SessionsOrdered
<1>6. ASSUME NEW x \in Humans, NEW c \in Calls
      PROVE  InOrder(heard'[x][c] \o buffer'[x][c])
    <2>1. x \in Parties
        BY DEF Parties
    <2>2. CASE x = h
        <3>1. CASE heard'[h][c] = heard[h][c] \o buffer[h][c] /\ buffer'[h][c] = <<>>
            BY <1>1, <2>2, <3>1, ConsoleEmptied
        <3>2. CASE heard'[h][c] = heard[h][c] /\ buffer'[h][c] = buffer[h][c]
            BY <1>1, <2>2, <3>2, ConsoleEmptied
        <3> QED BY <1>4, <3>1, <3>2
    <2>3. CASE x # h
        <3>1. heard'[x][c] = heard[x][c] /\ buffer'[x][c] = buffer[x][c]
            BY <1>4, <2>1, <2>3
        <3> QED BY <1>1, <3>1, ConsoleEmptied
    <2> QED BY <2>2, <2>3
<1> QED BY <1>5, <1>6 DEF Ordered, SessionsOrdered

\* The actions that touch no box.
LEMMA BoxesLeftAlone ==
    ASSUME NEW p
    PROVE  /\ \A tool, c : TimesOut(p, tool, c) => UNCHANGED <<q, seen, pending, buffer, heard>>
           /\ Login(p) \/ Redeliver(p) => UNCHANGED <<q, seen, pending, buffer, heard>>
           /\ \A c : ConsolePickup(p, c) => UNCHANGED <<q, seen, pending, buffer, heard>>
           /\ UNCHANGED vars => UNCHANGED <<q, seen, pending, buffer, heard>>
BY DEF TimesOut, Login, Redeliver, ConsolePickup, vars, link, boxes, ghosts

LEMMA QuietOrdered ==
    ASSUME Ordered, UNCHANGED <<q, seen, pending, buffer, heard>>
    PROVE  Ordered'
BY DEF Ordered

LEMMA OrderedStep ==
    ASSUME IInv, Ordered, [Next]_vars
    PROVE  Ordered'
<1>1. ASSUME NEW p \in Agents, Tools(p) PROVE Ordered'
    <2>1. CASE PickupCall(p) \/ Say(p) \/ Hangup(p)
        BY <2>1, PickupCallOrdered, SpeakOrdered
    <2>2. ASSUME NEW c \in Calls, PlaceCall(p, c) PROVE Ordered'
        BY <2>2, SpeakOrdered
    <2>3. ASSUME NEW c \in Calls, NEW tool \in {"place", "say"}, Answered(p, tool, c)
          PROVE  Ordered'
        BY <2>3, AnsweredOrdered
    <2>4. ASSUME NEW c \in Calls, NEW tool \in {"place", "say"}, TimesOut(p, tool, c)
          PROVE  Ordered'
        BY <2>4, BoxesLeftAlone, QuietOrdered
    <2> QED BY <1>1, <2>1, <2>2, <2>3, <2>4 DEF Tools
<1>2. ASSUME NEW p \in Agents,
             ClientRecv(p) \/ HubAck(p) \/ Drop(p) \/ SessionEnds(p) \/ Login(p) \/ Redeliver(p)
      PROVE  Ordered'
    <2>1. CASE ClientRecv(p) \/ HubAck(p) \/ Drop(p) \/ SessionEnds(p)
        BY <2>1, ClientRecvOrdered, HubAckOrdered, DisconnectOrdered
    <2>2. CASE Login(p) \/ Redeliver(p)
        BY <2>2, BoxesLeftAlone, QuietOrdered
    <2> QED BY <1>2, <2>1, <2>2
<1>3. ASSUME NEW h \in Humans, Console(h) PROVE Ordered'
    <2>1. CASE ConsoleSay(h) \/ ConsolePoll(h) \/ ConsoleHangup(h)
        BY <2>1, ConsolePollOrdered, SpeakOrdered
    <2>2. ASSUME NEW c \in Calls, ConsoleCall(h, c) PROVE Ordered'
        BY <2>2, SpeakOrdered
    <2>3. ASSUME NEW c \in Calls, ConsolePickup(h, c) PROVE Ordered'
        BY <2>3, BoxesLeftAlone, QuietOrdered
    <2> QED BY <1>3, <2>1, <2>2, <2>3 DEF Console
<1>4. CASE Crash
    BY <1>4, CrashOrdered
<1>5. CASE UNCHANGED vars
    BY <1>5, BoxesLeftAlone, QuietOrdered
<1> QED BY <1>1, <1>2, <1>3, <1>4, <1>5 DEF Next

LEMMA OrderedInit == Init => Ordered
<1> SUFFICES ASSUME Init PROVE Ordered
    OBVIOUS
<1>1. ASSUME NEW p \in Agents
      PROVE  SessionOrder(q[p], seen[p], pending[p], heard[p])
    <2>1. /\ q[p] = <<>> /\ seen[p] = 0 /\ pending[p] = <<>>
          /\ \A c \in Calls : heard[p][c] = <<>>
        BY DEF Init, Parties
    <2> QED BY <2>1, InOrderEmpty DEF SessionOrder
<1>2. ASSUME NEW h \in Humans, NEW c \in Calls
      PROVE  InOrder(heard[h][c] \o buffer[h][c])
    <2>1. heard[h][c] = <<>> /\ buffer[h][c] = <<>>
        BY DEF Init, Parties
    <2>2. <<>> \o <<>> = <<>>
        BY EmptySeq, ConcatEmptySeq
    <2> QED BY <2>1, <2>2, InOrderEmpty
<1> QED BY <1>1, <1>2 DEF Ordered

\* What a session is still owed of a call, and what a console has heard and has
\* buffered, is in the order it was spoken, at every moment.
THEOREM OrderHolds == Spec => []Ordered
<1>1. IInv /\ Ordered /\ [Next]_vars => Ordered'
    BY OrderedStep
<1> QED BY <1>1, OrderedInit, Invariance, PTL DEF Spec

\* A party is handed the other side's lines in the order they were spoken,
\* whatever sockets die, envelopes come again or tools overlap.
THEOREM LinesInOrder == Spec => []HeardInOrder
<1>1. ASSUME IInv, Ordered PROVE HeardInOrder
    <2>1. ASSUME NEW p \in Agents, NEW c \in Calls PROVE InOrder(heard[p][c])
        BY <1>1 DEF Ordered, SessionOrder
    <2>2. ASSUME NEW h \in Humans, NEW c \in Calls PROVE InOrder(heard[h][c])
        <3>1. ConsolesOrdered
            BY <1>1 DEF Ordered, ConsolesOrdered
        <3>2. InOrder(heard[h][c] \o <<>>) /\ heard[h][c] \in Seq(Frames)
            BY <1>1, <3>1, ConsoleEmptied, OrderFacts
        <3> QED BY <3>2, ConcatEmptySeq
    <2> QED BY <2>1, <2>2 DEF HeardInOrder, Parties
<1> QED BY <1>1, Invariance, OrderHolds, PTL

-----------------------------------------------------------------------------
(* Closes: who gets the frames of a call, and that a close is not lost.      *)

InboxParty == \A p \in Parties : \A f \in Range(q[p]) : PartyOf(p, f.call)
PendingParty == \A p \in Agents : \A f \in Range(pending[p]) : PartyOf(p, f.call)
BufferParty == \A h \in Humans, c \in Calls : buffer[h][c] # <<>> => PartyOf(h, c)
RungParty == \A h \in Humans, c \in Calls : c \in rung[h] => PartyOf(h, c)
ActiveParty == \A p \in Parties, c \in Calls : active[p] = c => PartyOf(p, c)

LEMMA PartiesOnlyParts ==
    /\ PartiesOnly <=> InboxParty /\ PendingParty /\ BufferParty /\ RungParty /\ ActiveParty
    /\ PartiesOnly' <=> InboxParty' /\ PendingParty' /\ BufferParty' /\ RungParty' /\ ActiveParty'
BY DEF PartiesOnly, InboxParty, PendingParty, BufferParty, RungParty, ActiveParty

\* The peer is the other party, and has the party as its own peer.
LEMMA PeerFacts ==
    ASSUME NEW p \in Parties, NEW c \in Calls
    PROVE  PartyOf(Peer(p, c), c) /\ (PartyOf(p, c) => Peer(Peer(p, c), c) = p)
BY CallsAssumption DEF Peer, PartyOf

\* A close of the call is where the party reads, or was stranded.
Closed(p, c) == (\E f \in Reads(p, c) : IsClose(f, c)) \/ <<p, c>> \in stranded

LEMMA CloseHeldDef ==
    /\ CloseHeld <=> \A p \in Parties, c \in Calls :
        PartyOf(p, c) /\ <<Peer(p, c), c>> \in hungUp => Closed(p, c) \/ <<p, c>> \in exposed
    /\ CloseHeld' <=> \A p \in Parties, c \in Calls :
        PartyOf(p, c) /\ <<Peer(p, c), c>> \in hungUp' => Closed(p, c)' \/ <<p, c>> \in exposed'
BY DEF CloseHeld, Closed, PartyOf, Peer

\* A step that hangs up nothing has to keep the closes, or expose the party.
LEMMA ClosesKept ==
    ASSUME CloseHeld, hungUp' = hungUp, exposed \subseteq exposed',
           \A p \in Parties, c \in Calls : Closed(p, c) => Closed(p, c)' \/ <<p, c>> \in exposed'
    PROVE  CloseHeld'
BY CloseHeldDef

\* A party's active call changes.
LEMMA ActiveChanges ==
    ASSUME IInv, ActiveParty, NEW p \in Parties, NEW v,
           active' = active \/ active' = [active EXCEPT ![p] = v],
           v \in Calls => PartyOf(p, v)
    PROVE  ActiveParty'
<1>1. active \in [Parties -> Calls \cup {None}]
    BY DEF IInv, TypeOK
<1>2. ASSUME NEW x \in Parties, NEW c \in Calls, active'[x] = c
      PROVE  PartyOf(x, c)
    <2>1. CASE active'[x] = active[x]
        BY <1>2, <2>1 DEF ActiveParty
    <2>2. CASE active'[x] # active[x]
        <3>1. x = p /\ active'[x] = v
            BY <1>1, <2>2
        <3> QED BY <1>2, <3>1
    <2> QED BY <2>1, <2>2
<1> QED BY <1>2 DEF ActiveParty

\* A routed frame goes to the peer of its sender, a close of it counts as hung up.
LEMMA RouteReaches ==
    ASSUME IInv, PartiesOnly, CloseHeld, NEW f \in Frames,
           Route(f) \/ UNCHANGED <<q, buffer, log, hungUp, stranded>>, UNCHANGED <<pending, heard, exposed>>
    PROVE  InboxParty' /\ PendingParty' /\ BufferParty' /\ CloseHeld'
<1>1. /\ InboxParty /\ PendingParty /\ BufferParty
      /\ q \in [Parties -> Seq(Frames)] /\ buffer \in [Humans -> [Calls -> Seq(Frames)]]
    BY PartiesOnlyParts DEF IInv, TypeOK
<1>2. PendingParty'
    BY <1>1 DEF PendingParty
<1>3. CASE UNCHANGED <<q, buffer, log, hungUp, stranded>>
    <2>1. \A p \in Parties, c \in Calls : Closed(p, c)' = Closed(p, c)
        BY <1>3 DEF Closed, Reads, IsClose
    <2>2. CloseHeld'
        BY <1>3, <2>1, CloseHeldDef
    <2> QED BY <1>1, <1>2, <1>3, <2>2 DEF InboxParty, BufferParty
<1>4. CASE Route(f)
    <2>1. f.from \in Parties /\ f.call \in Calls
        BY DEF Frames
    <2>2. PICK x \in Parties : x = Peer(f.from, f.call) /\ PartyOf(x, f.call)
        BY <2>1, PeerType, PeerFacts
    <2>3. /\ Deliver(x, f)
          /\ hungUp' = IF f.kind = "close" THEN hungUp \cup {<<f.from, f.call>>} ELSE hungUp
          /\ stranded' = IF f.kind = "close" /\ x \in Unattached
                         THEN stranded \cup {<<x, f.call>>} ELSE stranded
        BY <1>4, <2>2 DEF Route
    <2>4. /\ \A p \in Parties : Range(q[p]) \subseteq Range(q'[p]) /\ Range(q'[p]) \subseteq Range(q[p]) \cup {f}
          /\ \A p \in Parties : p # x => q'[p] = q[p]
          /\ \A h \in Humans, c \in Calls : Range(buffer[h][c]) \subseteq Range(buffer'[h][c])
          /\ \A h \in Humans, c \in Calls : ~(h = x /\ c = f.call) => buffer'[h][c] = buffer[h][c]
          /\ \/ f \in Range(q'[x]) /\ (x \in Humans => x \in Unattached)
             \/ x \in Humans /\ f \in Range(buffer'[x][f.call])
        <3>1. CASE x \in Humans /\ online[x]
            <4>1. q' = q /\ buffer' = [buffer EXCEPT ![x] = [buffer[x] EXCEPT ![f.call] = Append(buffer[x][f.call], f)]]
                BY <2>3, <3>1 DEF Deliver
            <4>2. /\ buffer'[x][f.call] = Append(buffer[x][f.call], f)
                  /\ \A h \in Humans, c \in Calls : ~(h = x /\ c = f.call) => buffer'[h][c] = buffer[h][c]
                BY <1>1, <2>1, <3>1, <4>1
            <4>3. buffer[x][f.call] \in Seq(Frames)
                BY <1>1, <2>1, <3>1
            <4>4. Range(Append(buffer[x][f.call], f)) = Range(buffer[x][f.call]) \cup {f}
                BY <4>3, AppendRange
            <4> QED BY <3>1, <4>1, <4>2, <4>4
        <3>2. CASE ~(x \in Humans /\ online[x])
            <4>1. q' = [q EXCEPT ![x] = Append(q[x], f)] /\ buffer' = buffer
                BY <2>3, <3>2 DEF Deliver
            <4>2. q'[x] = Append(q[x], f) /\ \A p \in Parties : p # x => q'[p] = q[p]
                BY <1>1, <4>1
            <4>3. q[x] \in Seq(Frames)
                BY <1>1
            <4>4. Range(Append(q[x], f)) = Range(q[x]) \cup {f}
                BY <4>3, AppendRange
            <4> QED BY <3>2, <4>1, <4>2, <4>4 DEF Unattached
        <3> QED BY <3>1, <3>2
    <2>5. InboxParty'
        BY <1>1, <2>2, <2>4 DEF InboxParty
    <2>6. BufferParty'
        BY <1>1, <2>2, <2>4 DEF BufferParty
    <2>7. ASSUME NEW p \in Parties, NEW c \in Calls, PartyOf(p, c), <<Peer(p, c), c>> \in hungUp'
          PROVE  Closed(p, c)' \/ <<p, c>> \in exposed'
        <3>1. CASE <<Peer(p, c), c>> \in hungUp
            <4>1. Closed(p, c) \/ <<p, c>> \in exposed
                BY <2>7, <3>1, CloseHeldDef
            <4>2. Reads(p, c) \subseteq Reads(p, c)'
                BY <2>4 DEF Reads, Parties
            <4>3. Closed(p, c) => Closed(p, c)'
                BY <2>3, <4>2 DEF Closed, IsClose
            <4> QED BY <4>1, <4>3
        <3>2. CASE <<Peer(p, c), c>> \notin hungUp
            <4>1. f.kind = "close" /\ Peer(p, c) = f.from /\ c = f.call
                BY <2>3, <2>7, <3>2
            <4>2. x = p
                BY <2>2, <2>7, <4>1, PeerFacts
            <4>3. f \in Reads(p, c)' \/ <<p, c>> \in stranded'
                BY <2>3, <2>4, <4>1, <4>2, PartiesAssumption DEF Reads, Parties
            <4> QED BY <4>1, <4>3 DEF Closed, IsClose
        <3> QED BY <3>1, <3>2
    <2>8. CloseHeld'
        BY <2>7, CloseHeldDef
    <2> QED BY <1>2, <2>5, <2>6, <2>8
<1> QED BY <1>3, <1>4

Reaching == PartiesOnly /\ CloseHeld

\* The actions that send a frame.
LEMMA SpeakReaches ==
    ASSUME IInv, Reaching
    PROVE  /\ \A p \in Agents, c \in Calls : PlaceCall(p, c) => Reaching'
           /\ \A p \in Agents : Say(p) \/ Hangup(p) => Reaching'
           /\ \A h \in Humans, c \in Calls : ConsoleCall(h, c) => Reaching'
           /\ \A h \in Humans : ConsoleSay(h) \/ ConsoleHangup(h) => Reaching'
<1>1. /\ 0 \in 0..MaxSays
      /\ said \in Nat
      /\ active \in [Parties -> Calls \cup {None}]
      /\ \A p \in Agents : p \in Parties
      /\ \A h \in Humans : h \in Parties
      /\ said < MaxSays => said + 1 \in 0..MaxSays
      /\ None \notin Calls
    BY BoundsAssumption, PartiesAssumption DEF IInv, TypeOK, Parties
<1>2. ASSUME NEW p \in Parties, NEW c \in Calls, NEW kind \in {"invite", "frame", "close"}, NEW n \in 0..MaxSays,
             SendCall(p, Frame(c, kind, p, n)) \/ Route(Frame(c, kind, p, n)),
             UNCHANGED <<pending, heard, exposed, rung>>,
             active' = active \/ active' = [active EXCEPT ![p] = None]
                 \/ (Caller[c] = p /\ active' = [active EXCEPT ![p] = c])
      PROVE  Reaching'
    <2>1. PICK f \in Frames : f = Frame(c, kind, p, n)
        BY FrameType
    <2>2. Route(f) \/ UNCHANGED <<q, buffer, log, hungUp, stranded>>
        BY <1>2, <2>1 DEF SendCall
    <2>3. PartiesOnly /\ CloseHeld /\ RungParty /\ ActiveParty
        BY PartiesOnlyParts DEF Reaching
    <2>4. InboxParty' /\ PendingParty' /\ BufferParty' /\ CloseHeld'
        BY <1>2, <2>2, <2>3, RouteReaches
    <2>5. RungParty'
        BY <1>2, <2>3 DEF RungParty
    <2>6. ActiveParty'
        <3>1. CASE active' = active \/ active' = [active EXCEPT ![p] = None]
            BY <1>1, <2>3, <3>1, ActiveChanges
        <3>2. CASE Caller[c] = p /\ active' = [active EXCEPT ![p] = c]
            <4>1. PartyOf(p, c)
                BY <3>2 DEF PartyOf
            <4> QED BY <2>3, <3>2, <4>1, ActiveChanges
        <3> QED BY <1>2, <3>1, <3>2
    <2> QED BY <2>4, <2>5, <2>6, PartiesOnlyParts DEF Reaching
<1>4. ASSUME NEW p \in Agents, NEW c \in Calls, PlaceCall(p, c) PROVE Reaching'
    BY <1>1, <1>2, <1>4 DEF PlaceCall
<1>5. ASSUME NEW p \in Agents, Say(p) PROVE Reaching'
    <2>1. active[p] \in Calls /\ said + 1 \in 0..MaxSays
        BY <1>1, <1>5 DEF Say
    <2> QED BY <1>1, <1>2, <1>5, <2>1 DEF Say
<1>6. ASSUME NEW p \in Agents, Hangup(p) PROVE Reaching'
    <2>1. active[p] \in Calls
        BY <1>1, <1>6 DEF Hangup
    <2> QED BY <1>1, <1>2, <1>6, <2>1 DEF Hangup, ghosts
<1>7. ASSUME NEW h \in Humans, NEW c \in Calls, ConsoleCall(h, c) PROVE Reaching'
    BY <1>1, <1>2, <1>7 DEF ConsoleCall
<1>8. ASSUME NEW h \in Humans, ConsoleSay(h) PROVE Reaching'
    <2>1. active[h] \in Calls /\ said + 1 \in 0..MaxSays
        BY <1>1, <1>8 DEF ConsoleSay
    <2> QED BY <1>1, <1>2, <1>8, <2>1 DEF ConsoleSay, tools
<1>9. ASSUME NEW h \in Humans, ConsoleHangup(h) PROVE Reaching'
    <2>1. active[h] \in Calls
        BY <1>1, <1>9 DEF ConsoleHangup
    <2> QED BY <1>1, <1>2, <1>9, <2>1 DEF ConsoleHangup, ghosts
<1> QED BY <1>4, <1>5, <1>6, <1>7, <1>8, <1>9

\* A step of one session that moves frames between its boxes.
LEMMA SessionReaches ==
    ASSUME IInv, Reaching, NEW p \in Agents, NEW v,
           \A x \in Parties : x # p => q'[x] = q[x] /\ heard'[x] = heard[x],
           \A x \in Agents : x # p => pending'[x] = pending[x],
           UNCHANGED <<buffer, rung, hungUp, stranded>>, exposed \subseteq exposed',
           Range(q'[p]) \subseteq Range(q[p]),
           Range(pending'[p]) \subseteq Range(pending[p]) \cup Range(q[p]),
           \A c \in Calls : \A f \in Reads(p, c) :
               f.call = c /\ f.kind = "close" => f \in Reads(p, c)' \/ <<p, c>> \in exposed',
           active' = active \/ active' = [active EXCEPT ![p] = v],
           v \in Calls => PartyOf(p, v)
    PROVE  Reaching'
<1>1. /\ InboxParty /\ PendingParty /\ BufferParty /\ RungParty /\ ActiveParty /\ CloseHeld
      /\ p \in Parties
    BY PartiesOnlyParts DEF Reaching, Parties
<1>2. InboxParty'
    <2>1. ASSUME NEW x \in Parties, NEW f \in Range(q'[x]) PROVE PartyOf(x, f.call)
        <3>1. f \in Range(q[x])
            OBVIOUS
        <3> QED BY <1>1, <3>1 DEF InboxParty
    <2> QED BY <2>1 DEF InboxParty
<1>3. PendingParty'
    <2>1. ASSUME NEW x \in Agents, NEW f \in Range(pending'[x]) PROVE PartyOf(x, f.call)
        <3>1. f \in Range(pending[x]) \cup Range(q[x])
            OBVIOUS
        <3> QED BY <1>1, <3>1 DEF InboxParty, PendingParty, Parties
    <2> QED BY <2>1 DEF PendingParty
<1>4. BufferParty' /\ RungParty'
    BY <1>1 DEF BufferParty, RungParty
<1>5. ActiveParty'
    BY <1>1, ActiveChanges
<1>6. ASSUME NEW x \in Parties, NEW c \in Calls, Closed(x, c)
      PROVE  Closed(x, c)' \/ <<x, c>> \in exposed'
    <2> SUFFICES ASSUME <<x, c>> \notin stranded
                 PROVE  Closed(x, c)' \/ <<x, c>> \in exposed'
        BY DEF Closed
    <2>1. PICK f \in Reads(x, c) : f.call = c /\ f.kind = "close"
        BY <1>6 DEF Closed, IsClose
    <2>2. f \in Reads(x, c)' \/ <<x, c>> \in exposed'
        <3>1. CASE x = p
            BY <2>1, <3>1
        <3>2. CASE x # p
            <4>1. Reads(x, c)' = Reads(x, c)
                BY <3>2 DEF Reads
            <4> QED BY <2>1, <4>1
        <3> QED BY <3>1, <3>2
    <2> QED BY <2>1, <2>2 DEF Closed, IsClose
<1>7. CloseHeld'
    BY <1>1, <1>6, ClosesKept
<1> QED BY <1>2, <1>3, <1>4, <1>5, <1>7, PartiesOnlyParts DEF Reaching

LEMMA PickupCallReaches ==
    ASSUME IInv, Reaching, NEW p \in Agents, PickupCall(p)
    PROVE  Reaching'
<1>1. pending[p] \in Seq(Frames) /\ p \in Parties /\ PendingParty
    BY OrderFacts, PartiesOnlyParts DEF Reaching
<1>2. PICK i \in DOMAIN pending[p] :
        /\ pending[p][i].kind = "invite"
        /\ pending' = [pending EXCEPT ![p] = RemoveAt(pending[p], i)]
        /\ active' = [active EXCEPT ![p] = pending[p][i].call]
    <2>1. LastInvite(p) \in Invites(p)
        BY <1>1, LastInviteIn DEF PickupCall
    <2> QED BY <2>1 DEF PickupCall, Invites
<1>3. UNCHANGED <<q, buffer, rung, heard, exposed, hungUp, stranded>>
    BY DEF PickupCall, link, ghosts
<1>4. /\ Range(RemoveAt(pending[p], i)) \subseteq Range(pending[p])
      /\ Range(pending[p]) \subseteq Range(RemoveAt(pending[p], i)) \cup {pending[p][i]}
    BY <1>1, Spliced
<1>5. /\ pending'[p] = RemoveAt(pending[p], i)
      /\ \A x \in Agents : x # p => pending'[x] = pending[x]
    BY <1>2 DEF IInv, TypeOK
<1>6. ASSUME NEW c \in Calls, NEW f \in Reads(p, c), f.kind = "close"
      PROVE  f \in Reads(p, c)'
    <2>1. f # pending[p][i]
        BY <1>2, <1>6
    <2> QED BY <1>3, <1>4, <1>5, <2>1 DEF Reads
<1>7. PartyOf(p, pending[p][i].call)
    BY <1>1 DEF PendingParty, Range
<1> QED BY <1>2, <1>3, <1>4, <1>5, <1>6, <1>7, SessionReaches

LEMMA AnsweredReaches ==
    ASSUME IInv, Reaching, NEW p \in Agents, NEW tool, NEW c \in Calls, Answered(p, tool, c)
    PROVE  Reaching'
<1>1. /\ pending[p] \in Seq(Frames) /\ p \in Parties /\ heard[p][c] \in Seq(Frames)
      /\ None \notin Calls
    BY OrderFacts, PartiesAssumption
<1>2. PICK i \in DOMAIN pending[p] : i = FirstOf(Match(p, c)) /\ i \in Match(p, c)
    <2>1. Match(p, c) # {}
        BY DEF Answered
    <2>2. PICK k : k = FirstOf(Match(p, c)) /\ k \in Match(p, c)
        BY <1>1, <2>1, FirstOfMatch
    <2>3. k \in DOMAIN pending[p]
        BY <2>2 DEF Match
    <2> QED BY <2>2, <2>3
<1>3. PICK e : e = pending[p][i] /\ e.call = c /\ e \in Frames
    <2>1. pending[p][i].call = c
        BY <1>2 DEF Match
    <2>2. pending[p][i] \in Frames
        BY <1>1, <1>2, ElementOfSeq, LenProperties
    <2> QED BY <2>1, <2>2
<1>4. /\ pending' = [pending EXCEPT ![p] = RemoveAt(pending[p], i)]
      /\ heard' = [heard EXCEPT ![p] = [heard[p] EXCEPT ![c] =
             IF e \in Range(heard[p][c]) THEN heard[p][c] ELSE Append(heard[p][c], e)]]
      /\ active' = active \/ active' = [active EXCEPT ![p] = None]
      /\ UNCHANGED <<q, buffer, rung, exposed, hungUp, stranded>>
    BY <1>2, <1>3 DEF Answered, link
<1>5. /\ Range(RemoveAt(pending[p], i)) \subseteq Range(pending[p])
      /\ Range(pending[p]) \subseteq Range(RemoveAt(pending[p], i)) \cup {e}
    BY <1>1, <1>3, Spliced
<1>6. /\ pending'[p] = RemoveAt(pending[p], i)
      /\ \A x \in Agents : x # p => pending'[x] = pending[x]
    BY <1>4 DEF IInv, TypeOK
<1>7. /\ heard'[p][c] = IF e \in Range(heard[p][c]) THEN heard[p][c] ELSE Append(heard[p][c], e)
      /\ \A d \in Calls : d # c => heard'[p][d] = heard[p][d]
      /\ \A x \in Parties : x # p => heard'[x] = heard[x]
    BY <1>1, <1>4 DEF IInv, TypeOK
<1>8. Range(heard'[p][c]) = Range(heard[p][c]) \cup {e}
    <2>1. Range(Append(heard[p][c], e)) = Range(heard[p][c]) \cup {e}
        BY <1>1, <1>3, AppendRange
    <2> QED BY <1>7, <2>1
<1>9. ASSUME NEW d \in Calls, NEW f \in Reads(p, d), f.call = d
      PROVE  f \in Reads(p, d)'
    <2>1. Range(heard[p][d]) \subseteq Range(heard'[p][d])
        BY <1>7, <1>8
    <2>2. CASE f = e
        BY <1>3, <1>8, <1>9, <2>2 DEF Reads
    <2>3. CASE f # e
        BY <1>4, <1>5, <1>6, <1>9, <2>1, <2>3 DEF Reads
    <2> QED BY <2>2, <2>3
<1> QED BY <1>1, <1>4, <1>5, <1>6, <1>7, <1>9, SessionReaches

LEMMA ClientRecvReaches ==
    ASSUME IInv, Reaching, NEW p \in Agents, ClientRecv(p)
    PROVE  Reaching'
<1>1. /\ pending[p] \in Seq(Frames) /\ p \in Parties /\ q[p] \in Seq(Frames)
      /\ seen[p] \in Nat /\ Len(q[p]) \in Nat /\ seen[p] < Len(q[p])
      /\ None \notin Calls
    BY OrderFacts, PartiesAssumption DEF ClientRecv
<1>2. PICK e \in Frames : e = q[p][seen[p] + 1] /\ e \in Range(q[p])
    <2>1. seen[p] + 1 \in DOMAIN q[p] /\ seen[p] + 1 \in 1..Len(q[p])
        BY <1>1, LenProperties
    <2> QED BY <1>1, <2>1, ElementOfSeq DEF Range
<1>3. /\ pending' = [pending EXCEPT ![p] = Append(pending[p], e)]
      /\ UNCHANGED <<q, buffer, active, rung, heard, exposed, hungUp, stranded>>
    BY <1>2 DEF ClientRecv, tools, ghosts
<1>4. /\ pending'[p] = Append(pending[p], e)
      /\ \A x \in Agents : x # p => pending'[x] = pending[x]
    BY <1>3 DEF IInv, TypeOK
<1>5. Range(pending'[p]) = Range(pending[p]) \cup {e}
    BY <1>1, <1>4, AppendRange
<1>6. ASSUME NEW c \in Calls, NEW f \in Reads(p, c)
      PROVE  f \in Reads(p, c)'
    BY <1>3, <1>5 DEF Reads
<1> QED BY <1>1, <1>2, <1>3, <1>4, <1>5, <1>6, SessionReaches

\* What is acked was read, so it is pending or was handed over.
LEMMA HubAckReaches ==
    ASSUME IInv, Ordered, Reaching, NEW p \in Agents, HubAck(p)
    PROVE  Reaching'
<1>1. /\ p \in Parties /\ q[p] \in Seq(Frames)
      /\ seen[p] \in Nat \ {0} /\ Len(q[p]) \in Nat /\ seen[p] <= Len(q[p])
      /\ None \notin Calls
    BY OrderFacts, PartiesAssumption DEF HubAck
<1>2. /\ q' = [q EXCEPT ![p] = Tail(q[p])]
      /\ UNCHANGED <<pending, buffer, active, rung, heard, exposed, hungUp, stranded>>
    BY DEF HubAck, Acked, boxes, tools, ghosts
<1>3. q'[p] = Tail(q[p]) /\ \A x \in Parties : x # p => q'[x] = q[x]
    BY <1>1, <1>2 DEF IInv, TypeOK
<1>4. /\ q[p] # <<>>
      /\ DOMAIN q[p] = 1..Len(q[p])
      /\ DOMAIN Tail(q[p]) = 1..(Len(q[p]) - 1)
      /\ \A i \in 1..(Len(q[p]) - 1) : Tail(q[p])[i] = q[p][i + 1]
      /\ Range(Tail(q[p])) \subseteq Range(q[p])
    <2>1. q[p] # <<>>
        BY <1>1, EmptySeq
    <2> QED BY <1>1, <2>1, TailFacts
<1>5. ASSUME NEW f \in Range(q[p]), f # q[p][1]
      PROVE  f \in Range(Tail(q[p]))
    <2>1. PICK k \in 1..Len(q[p]) : q[p][k] = f
        BY <1>4 DEF Range
    <2>2. k - 1 \in 1..(Len(q[p]) - 1) /\ (k - 1) + 1 = k
        BY <1>1, <1>5, <2>1
    <2>3. Tail(q[p])[k - 1] = f
        BY <1>4, <2>1, <2>2
    <2> QED BY <1>4, <2>2, <2>3 DEF Range
<1>6. q[p][1].kind # "invite" => q[p][1] \in Range(heard[p][q[p][1].call]) \cup Range(pending[p])
    <2>1. SessionOrder(q[p], seen[p], pending[p], heard[p]) /\ 1 \in 1..seen[p]
        BY <1>1 DEF Ordered
    <2> QED BY <2>1 DEF SessionOrder
<1>7. ASSUME NEW c \in Calls, NEW f \in Reads(p, c), f.call = c, f.kind = "close"
      PROVE  f \in Reads(p, c)'
    <2>1. CASE f = q[p][1]
        BY <1>2, <1>6, <1>7, <2>1 DEF Reads
    <2>2. CASE f # q[p][1]
        BY <1>2, <1>3, <1>5, <1>7, <2>2 DEF Reads
    <2> QED BY <2>1, <2>2
<1> QED BY <1>1, <1>2, <1>3, <1>4, <1>7, SessionReaches

\* A session that ends exposes the calls of what it had pending.
LEMMA DisconnectReaches ==
    ASSUME IInv, Reaching, NEW p \in Agents, Drop(p) \/ SessionEnds(p)
    PROVE  Reaching'
<1>1. q' = q /\ None \notin Calls /\ UNCHANGED <<buffer, rung, heard, hungUp, stranded>>
    BY DisconnectLink, PartiesAssumption DEF Drop, SessionEnds, boxes, ghosts
<1>2. CASE Drop(p)
    <2>1. UNCHANGED <<pending, active, exposed>>
        BY <1>2 DEF Drop, boxes, tools, ghosts
    <2>2. ASSUME NEW c \in Calls, NEW f \in Reads(p, c) PROVE f \in Reads(p, c)'
        BY <1>1, <2>1 DEF Reads
    <2> QED BY <1>1, <2>1, <2>2, SessionReaches
<1>3. CASE SessionEnds(p)
    <2>1. /\ pending' = [pending EXCEPT ![p] = <<>>]
          /\ active' = [active EXCEPT ![p] = None]
          /\ exposed' = exposed \cup {<<p, pending[p][i].call>> : i \in DOMAIN pending[p]}
        BY <1>3 DEF SessionEnds
    <2>2. /\ pending'[p] = <<>> /\ \A x \in Agents : x # p => pending'[x] = pending[x]
          /\ Range(pending'[p]) = {}
        BY <2>1, InOrderEmpty DEF IInv, TypeOK
    <2>3. ASSUME NEW c \in Calls, NEW f \in Reads(p, c), f.call = c
          PROVE  f \in Reads(p, c)' \/ <<p, c>> \in exposed'
        <3>1. CASE f \in Range(pending[p])
            BY <2>1, <2>3, <3>1 DEF Range
        <3>2. CASE f \notin Range(pending[p])
            BY <1>1, <2>3, <3>2 DEF Reads
        <3> QED BY <3>1, <3>2
    <2> QED BY <1>1, <2>1, <2>2, <2>3, SessionReaches
<1> QED BY <1>2, <1>3

\* A crash exposes the calls of what was in the hub's memory only.
LEMMA CrashReaches ==
    ASSUME IInv, Reaching, Crash
    PROVE  Reaching'
<1>1. /\ InboxParty /\ PendingParty /\ RungParty /\ ActiveParty /\ CloseHeld /\ None \notin Calls
    BY PartiesOnlyParts, PartiesAssumption DEF Reaching
<1>2. /\ q' = [p \in Parties |-> IF p \in Agents /\ online[p] THEN <<>> ELSE q[p]]
      /\ buffer' = [h \in Humans |-> [c \in Calls |-> <<>>]]
      /\ active' = [p \in Parties |-> IF p \in Humans THEN None ELSE active[p]]
      /\ exposed' = exposed \cup Volatile
      /\ UNCHANGED <<pending, rung, heard, hungUp, stranded>>
    BY DEF Crash
<1>3. InboxParty'
    <2>1. ASSUME NEW x \in Parties, NEW f \in Range(q'[x]) PROVE PartyOf(x, f.call)
        <3>1. q'[x] = q[x]
            BY <1>2, InOrderEmpty
        <3> QED BY <1>1, <3>1 DEF InboxParty
    <2> QED BY <2>1 DEF InboxParty
<1>4. PendingParty' /\ RungParty'
    BY <1>1, <1>2 DEF PendingParty, RungParty
<1>5. BufferParty'
    BY <1>2 DEF BufferParty
<1>6. ActiveParty'
    BY <1>1, <1>2 DEF ActiveParty
<1>7. ASSUME NEW x \in Parties, NEW c \in Calls, Closed(x, c)
      PROVE  Closed(x, c)' \/ <<x, c>> \in exposed'
    <2> SUFFICES ASSUME <<x, c>> \notin stranded
                 PROVE  Closed(x, c)' \/ <<x, c>> \in exposed'
        BY <1>2 DEF Closed
    <2>1. PICK f \in Reads(x, c) : f.call = c /\ f.kind = "close"
        BY <1>7 DEF Closed, IsClose
    <2>2. CASE <<x, c>> \in Volatile
        BY <1>2, <2>2
    <2>3. CASE <<x, c>> \notin Volatile
        <3>1. f \in Range(q[x]) => ~(x \in Agents /\ online[x])
            BY <2>1, <2>3 DEF Volatile
        <3>2. x \in Humans => buffer[x][c] = <<>>
            BY <2>3 DEF Volatile
        <3>3. f \in Reads(x, c)'
            <4>1. CASE f \in Range(heard[x][c])
                BY <1>2, <4>1 DEF Reads
            <4>2. CASE x \in Agents /\ f \in Range(q[x])
                BY <1>2, <3>1, <4>2 DEF Reads
            <4>3. CASE x \in Agents /\ f \in Range(pending[x])
                BY <1>2, <4>3 DEF Reads
            <4>4. CASE x \notin Agents /\ f \in Range(buffer[x][c])
                BY <3>2, <4>4, InOrderEmpty DEF Parties
            <4> QED BY <2>1, <4>1, <4>2, <4>3, <4>4 DEF Reads
        <3> QED BY <2>1, <3>3 DEF Closed, IsClose
    <2> QED BY <2>2, <2>3
<1>8. CloseHeld'
    BY <1>1, <1>2, <1>7, ClosesKept
<1> QED BY <1>3, <1>4, <1>5, <1>6, <1>8, PartiesOnlyParts DEF Reaching

\* A poll moves whole buffers to the human.
LEMMA ConsolePollReaches ==
    ASSUME IInv, Reaching, NEW h \in Humans, ConsolePoll(h)
    PROVE  Reaching'
<1>1. /\ InboxParty /\ PendingParty /\ BufferParty /\ RungParty /\ ActiveParty /\ CloseHeld
      /\ None \notin Calls /\ h \in Parties
    BY PartiesOnlyParts, PartiesAssumption DEF Reaching, Parties
<1>2. PICK polled :
        /\ buffer' = [buffer EXCEPT ![h] = [c \in Calls |-> IF c \in polled THEN <<>> ELSE buffer[h][c]]]
        /\ heard' = [heard EXCEPT ![h] =
             [c \in Calls |-> IF c \in polled THEN heard[h][c] \o buffer[h][c] ELSE heard[h][c]]]
        /\ rung' = [rung EXCEPT ![h] = rung[h] \cup
             {c \in polled : \E f \in Range(buffer[h][c]) : f.kind = "invite"}]
    BY DEF ConsolePoll
<1>3. /\ UNCHANGED <<q, pending, exposed, hungUp, stranded>>
      /\ active' = active \/ active' = [active EXCEPT ![h] = None]
    BY DEF ConsolePoll
<1>4. /\ \A x \in Parties : x # h => heard'[x] = heard[x]
      /\ \A x \in Humans : x # h => buffer'[x] = buffer[x] /\ rung'[x] = rung[x]
      /\ \A c \in Calls :
           \/ heard'[h][c] = heard[h][c] \o buffer[h][c] /\ buffer'[h][c] = <<>>
           \/ heard'[h][c] = heard[h][c] /\ buffer'[h][c] = buffer[h][c]
      /\ \A c \in rung'[h] : c \in rung[h] \/ \E f \in Range(buffer[h][c]) : TRUE
    BY <1>1, <1>2 DEF IInv, TypeOK
<1>5. InboxParty' /\ PendingParty'
    BY <1>1, <1>3 DEF InboxParty, PendingParty
<1>6. BufferParty'
    BY <1>1, <1>4 DEF BufferParty
<1>7. RungParty'
    <2>1. ASSUME NEW x \in Humans, NEW c \in Calls, c \in rung'[x]
          PROVE  PartyOf(x, c)
        <3>1. CASE c \in rung[x]
            BY <1>1, <3>1 DEF RungParty
        <3>2. CASE c \notin rung[x]
            <4>1. x = h /\ \E f \in Range(buffer[h][c]) : TRUE
                BY <1>4, <2>1, <3>2
            <4>2. buffer[h][c] # <<>>
                BY <4>1, InOrderEmpty
            <4> QED BY <1>1, <4>1, <4>2 DEF BufferParty
        <3> QED BY <3>1, <3>2
    <2> QED BY <2>1 DEF RungParty
<1>8. ActiveParty'
    BY <1>1, <1>3, ActiveChanges
<1>9. ASSUME NEW x \in Parties, NEW c \in Calls
      PROVE  Reads(x, c) \subseteq Reads(x, c)'
    <2>1. CASE x = h
        <3>1. x \notin Agents
            BY <2>1, PartiesAssumption
        <3>2. Range(heard[h][c]) \cup Range(buffer[h][c]) \subseteq Range(heard'[h][c]) \cup Range(buffer'[h][c])
            <4>1. CASE heard'[h][c] = heard[h][c] \o buffer[h][c]
                <5>1. heard[h][c] \in Seq(Frames) /\ buffer[h][c] \in Seq(Frames)
                    BY <1>1, OrderFacts
                <5> QED BY <4>1, <5>1, RangeConcatenation
            <4>2. CASE heard'[h][c] = heard[h][c] /\ buffer'[h][c] = buffer[h][c]
                BY <4>2
            <4> QED BY <1>4, <4>1, <4>2
        <3> QED BY <1>3, <2>1, <3>1, <3>2 DEF Reads
    <2>2. CASE x # h
        BY <1>3, <1>4, <2>2 DEF Reads, Parties
    <2> QED BY <2>1, <2>2
<1>10. CloseHeld'
    <2>1. \A x \in Parties, c \in Calls : Closed(x, c) => Closed(x, c)'
        BY <1>3, <1>9 DEF Closed, IsClose
    <2> QED BY <1>1, <1>3, <2>1, ClosesKept
<1> QED BY <1>5, <1>6, <1>7, <1>8, <1>10, PartiesOnlyParts DEF Reaching

\* The actions that touch no box: tools give up, sessions log in, humans pick up.
LEMMA QuietReaches ==
    ASSUME IInv, Reaching, NEW p \in Parties, NEW v,
           UNCHANGED <<q, pending, buffer, heard, exposed, hungUp, stranded>>,
           \A h \in Humans : rung'[h] \subseteq rung[h],
           active' = active \/ active' = [active EXCEPT ![p] = v],
           v \in Calls => PartyOf(p, v)
    PROVE  Reaching'
<1>1. /\ InboxParty /\ PendingParty /\ BufferParty /\ RungParty /\ ActiveParty /\ CloseHeld
    BY PartiesOnlyParts DEF Reaching
<1>2. InboxParty' /\ PendingParty' /\ BufferParty' /\ RungParty'
    BY <1>1 DEF InboxParty, PendingParty, BufferParty, RungParty
<1>3. ActiveParty'
    BY <1>1, ActiveChanges
<1>4. CloseHeld'
    <2>1. \A x \in Parties, c \in Calls : Reads(x, c)' = Reads(x, c)
        BY DEF Reads
    <2>2. \A x \in Parties, c \in Calls : Closed(x, c) => Closed(x, c)'
        BY <2>1 DEF Closed, IsClose
    <2> QED BY <1>1, <2>2, ClosesKept
<1> QED BY <1>2, <1>3, <1>4, PartiesOnlyParts DEF Reaching

LEMMA LoginReaches ==
    ASSUME IInv, Reaching, NEW p \in Agents
    PROVE  /\ \A tool, c : TimesOut(p, tool, c) => Reaching'
           /\ Login(p) \/ Redeliver(p) => Reaching'
<1>1. p \in Parties /\ None \notin Calls
    BY PartiesAssumption DEF Parties
<1>2. ASSUME NEW tool, NEW c, TimesOut(p, tool, c) PROVE Reaching'
    <2>1. /\ UNCHANGED <<q, pending, buffer, heard, exposed, hungUp, stranded, rung>>
          /\ active' = active \/ active' = [active EXCEPT ![p] = None]
        BY <1>2 DEF TimesOut, link, boxes
    <2> QED BY <1>1, <2>1, QuietReaches
<1>3. CASE Login(p) \/ Redeliver(p)
    <2>1. UNCHANGED <<q, pending, buffer, heard, exposed, hungUp, stranded, rung, active>>
        BY <1>3 DEF Login, Redeliver, boxes, tools, ghosts
    <2> QED BY <1>1, <2>1, QuietReaches
<1> QED BY <1>2, <1>3

LEMMA ConsolePickupReaches ==
    ASSUME IInv, Reaching, NEW h \in Humans, NEW c \in Calls, ConsolePickup(h, c)
    PROVE  Reaching'
<1>1. h \in Parties
    BY DEF Parties
<1>2. /\ UNCHANGED <<q, pending, buffer, heard, exposed, hungUp, stranded>>
      /\ rung' = [rung EXCEPT ![h] = @ \ {c}] /\ c \in rung[h]
      /\ active' = [active EXCEPT ![h] = c]
    BY DEF ConsolePickup, boxes, ghosts
<1>3. \A x \in Humans : rung'[x] \subseteq rung[x]
    BY <1>2 DEF IInv, TypeOK
<1>4. PartyOf(h, c)
    BY <1>2, PartiesOnlyParts DEF Reaching, RungParty
<1> QED BY <1>1, <1>2, <1>3, <1>4, QuietReaches

LEMMA StutterReaches ==
    ASSUME Reaching, UNCHANGED vars
    PROVE  Reaching'
<1>1. UNCHANGED <<q, pending, buffer, heard, exposed, hungUp, stranded, rung, active>>
    BY DEF vars, link, boxes, tools, ghosts
<1>2. \A x \in Parties, c \in Calls : Reads(x, c)' = Reads(x, c)
    BY <1>1 DEF Reads
<1>3. PartiesOnly'
    BY <1>1 DEF Reaching, PartiesOnly
<1>4. CloseHeld'
    BY <1>1, <1>2 DEF Reaching, CloseHeld, IsClose
<1> QED BY <1>3, <1>4 DEF Reaching

LEMMA ReachingStep ==
    ASSUME IInv, Ordered, Reaching, [Next]_vars
    PROVE  Reaching'
<1>1. ASSUME NEW p \in Agents, Tools(p) PROVE Reaching'
    <2>1. CASE PickupCall(p) \/ Say(p) \/ Hangup(p)
        BY <2>1, PickupCallReaches, SpeakReaches
    <2>2. ASSUME NEW c \in Calls, PlaceCall(p, c) PROVE Reaching'
        BY <2>2, SpeakReaches
    <2>3. ASSUME NEW c \in Calls, NEW tool \in {"place", "say"}, Answered(p, tool, c)
          PROVE  Reaching'
        BY <2>3, AnsweredReaches
    <2>4. ASSUME NEW c \in Calls, NEW tool \in {"place", "say"}, TimesOut(p, tool, c)
          PROVE  Reaching'
        BY <2>4, LoginReaches
    <2> QED BY <1>1, <2>1, <2>2, <2>3, <2>4 DEF Tools
<1>2. ASSUME NEW p \in Agents,
             ClientRecv(p) \/ HubAck(p) \/ Drop(p) \/ SessionEnds(p) \/ Login(p) \/ Redeliver(p)
      PROVE  Reaching'
    <2>1. CASE ClientRecv(p) \/ HubAck(p)
        BY <2>1, ClientRecvReaches, HubAckReaches
    <2>2. CASE Drop(p) \/ SessionEnds(p)
        BY <2>2, DisconnectReaches
    <2>3. CASE Login(p) \/ Redeliver(p)
        BY <2>3, LoginReaches
    <2> QED BY <1>2, <2>1, <2>2, <2>3
<1>3. ASSUME NEW h \in Humans, Console(h) PROVE Reaching'
    <2>1. CASE ConsoleSay(h) \/ ConsolePoll(h) \/ ConsoleHangup(h)
        BY <2>1, ConsolePollReaches, SpeakReaches
    <2>2. ASSUME NEW c \in Calls, ConsoleCall(h, c) \/ ConsolePickup(h, c) PROVE Reaching'
        BY <2>2, SpeakReaches, ConsolePickupReaches
    <2> QED BY <1>3, <2>1, <2>2 DEF Console
<1>4. CASE Crash
    BY <1>4, CrashReaches
<1>5. CASE UNCHANGED vars
    BY <1>5, StutterReaches
<1> QED BY <1>1, <1>2, <1>3, <1>4, <1>5 DEF Next

LEMMA ReachingInit == Init => Reaching
<1> SUFFICES ASSUME Init PROVE Reaching
    OBVIOUS
<1>1. PartiesOnly
    BY PartiesAssumption, InOrderEmpty DEF Init, PartiesOnly, Parties
<1>2. CloseHeld
    BY DEF Init, CloseHeld
<1> QED BY <1>1, <1>2 DEF Reaching

\* The invariant behind HeardInOrder and HangupReaches holds in every state.
THEOREM OrderAndReach == Spec => []OInv
<1>1. IInv /\ Ordered /\ Reaching /\ [Next]_vars => Reaching'
    BY ReachingStep
<1>2. Spec => []Reaching
    BY <1>1, ReachingInit, Invariance, OrderHolds, PTL DEF Spec
<1>3. IInv /\ Ordered /\ Reaching => OInv
    BY DEF OInv, Reaching
<1> QED BY <1>2, <1>3, Invariance, OrderHolds, PTL

\* A party on a call the other side has hung up has been told, or its next read finds
\* the close, unless that was in a memory that was lost or came to a human whose
\* console was not attached.
THEOREM HangupsReach == Spec => []HangupReaches
<1>1. ASSUME OInv PROVE HangupReaches
    <2> SUFFICES ASSUME NEW p \in Parties, NEW c \in Calls, active[p] = c, <<Peer(p, c), c>> \in hungUp
                 PROVE  \/ \E f \in Reads(p, c) : IsClose(f, c)
                        \/ <<p, c>> \in exposed \cup stranded
        BY DEF HangupReaches
    <2>1. PartyOf(p, c)
        BY <1>1 DEF OInv, PartiesOnly
    <2> QED BY <1>1, <2>1 DEF OInv, CloseHeld
<1> QED BY <1>1, OrderAndReach, PTL
=============================================================================
