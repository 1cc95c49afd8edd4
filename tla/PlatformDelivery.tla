-------------------------- MODULE PlatformDelivery --------------------------
(***************************************************************************)
(* Routing on the platform and its way down to a machine.                  *)
(*                                                                         *)
(* The HubDO keeps messages (with their delivery mark) and calls in its    *)
(* database and whatever it knows of a socket in the socket's attachment,  *)
(* so a hibernating object loses nothing.  An exposed agent is attached    *)
(* through its daemon's bridge: one connection at a time, which the daemon *)
(* opens again when it breaks, although the platform may not have noticed  *)
(* that the old one is dead.  The bridge acknowledges a frame before it    *)
(* hands the envelope to the daemon, and the daemon fetches attachments    *)
(* before it injects the envelope into the local hub.  The account's human *)
(* has no socket: the web console drains messages and polls the calls.     *)
(*                                                                         *)
(* A party is the human, a bridged agent, or Peer, who stands for everyone *)
(* beyond the account and is linked to it or not.                          *)
(***************************************************************************)
EXTENDS Integers, Sequences, FiniteSets, SequencesExt

CONSTANTS
  Agents, Human, Peer,  \* the parties
  Sockets,              \* the connections of the bridges
  AgentOf,              \* Sockets -> Agents
  Msgs, Calls,          \* ids of messages and of calls
  From, To,             \* Msgs \cup Calls -> party
  ByName,               \* the ids addressed by @nickname, the others by agent id
  WithFiles,            \* the messages that carry attachments
  None,
  MaxSent,              \* bound: messages sent and calls placed
  MaxLines,             \* bound: lines spoken in all calls
  MaxFaults             \* bound: broken connections, daemon stops, changes of the link

Parties == Agents \cup {Human, Peer}
Ids == Msgs \cup Calls

ASSUME PartiesAssumption ==
  /\ Human \notin Agents /\ Peer \notin Agents /\ Human # Peer
  /\ None \notin Ids
  /\ Msgs \cap Calls = {}
  /\ IsFiniteSet(Sockets) /\ IsFiniteSet(Msgs) /\ IsFiniteSet(Calls)
  /\ AgentOf \in [Sockets -> Agents]
  /\ From \in [Ids -> Parties]
  /\ To \in [Ids -> Agents \cup {Human}]
  /\ \A c \in Calls : {From[c], To[c]} \in {{Human, a} : a \in Agents}
  /\ ByName \subseteq Ids
  /\ WithFiles \subseteq Msgs
  /\ MaxSent \in Nat /\ MaxLines \in Nat /\ MaxFaults \in Nat

VARIABLES
  msgs,       \* messages: "none", "queued" (delivered_at NULL), "delivered"
  calls,      \* calls and call_frames: state, answered, who spoke each line
  opened,     \* the calls in the order they were placed (started_ms)
  friends,    \* the account is linked to Peer
  stage,      \* what the platform's end of a socket has come to
  owns,       \* the socket's claims hold the agent's nickname
  up,         \* the client's end is up
  down,       \* frames on their way to the client
  acks,       \* acks on their way to the platform
  fetching,   \* envelopes whose attachments the daemon is downloading
  kept,       \* messages injected into the local hub
  rung,       \* calls whose invite the daemon injected
  hung,       \* calls whose close the daemon injected
  lost,       \* history: acknowledged envelopes a daemon stop took away
  cursor,     \* ccall: the console's call, the lines it has had, or None
  shown,      \* history: the lines the console was given under that cursor, by position
  faults

database == <<msgs, calls, opened>>
sockets == <<stage, owns, up, down, acks>>
daemon == <<fetching, kept, rung, hung, lost>>
console == <<cursor, shown>>
vars == <<database, friends, sockets, daemon, console, faults>>

---------------------------------------------------------------------------
Stages == {"closed", "challenged", "verifying", "live"}
CallStates == {"none", "ringing", "active", "ended", "missed"}
Open(c) == calls[c].state \in {"ringing", "active"}
Over(c) == calls[c].state \in {"ended", "missed"}

Frame(id, kind) == [id |-> id, kind |-> kind]
Sms(m) == Frame(m, "sms")
FrameKinds == {"sms", "invite", "frame", "close"}

Linked(x, y) == Peer \in {x, y} => friends

Live(a) == {s \in Sockets : AgentOf[s] = a /\ stage[s] = "live"}

\* Where an envelope goes: to the socket that owns the nickname it names, if
\* one does, and otherwise to every live socket of the agent.
TargetsOne(a, named) ==   \* mutant: any one socket will do
  IF Live(a) = {} THEN {} ELSE {CHOOSE s \in Live(a) : TRUE}
Targets(a, named) ==
  LET owner == {s \in Live(a) : owns[s]}
  IN  IF named /\ owner # {} THEN owner ELSE Live(a)

\* Sending on a socket whose client is gone sends nothing.
Sent(S, f) == [s \in Sockets |-> IF s \in S /\ up[s] THEN Append(down[s], f) ELSE down[s]]

\* The queue of a party, and the orders in which a login may be sent it (creation
\* times are the senders' own: any order).
Undelivered(a) == {m \in Msgs : To[m] = a /\ msgs[m] = "queued"}

LoginQueueNot(a) == {<<>>}   \* mutant: what was sent once is not sent again
LoginQueue(a) == SetToSeqs({Sms(m) : m \in Undelivered(a)})

\* The most recent open call of a party.
CallsOf(p) == {i \in DOMAIN opened : p \in {From[opened[i]], To[opened[i]]}}
OpenCalls(p) == {i \in CallsOf(p) : Open(opened[i])}
LatestOpenCall(p) == IF OpenCalls(p) = {} THEN None ELSE opened[Max(OpenCalls(p))]

\* What a login is sent again after its queue.
RedeliveredInviteNot(a) == <<>>   \* mutant: calls are not in the queue
RedeliveredInvite(a) ==
  LET c == LatestOpenCall(a)
  IN  IF c # None /\ To[c] = a /\ calls[c].state = "ringing" THEN <<Frame(c, "invite")>> ELSE <<>>

---------------------------------------------------------------------------
(* persistCall                                                             *)

Invited(c) == IF calls[c].state = "none" THEN [calls[c] EXCEPT !.state = "ringing"] ELSE calls[c]
Answered(c, call) ==
  [call EXCEPT !.answered = TRUE, !.state = IF @ = "ringing" THEN "active" ELSE @]
Spoken(c, p) == Answered(c, [calls[c] EXCEPT !.lines = Append(@, p)])
Closed(c) == [calls[c] EXCEPT !.state = IF calls[c].answered THEN "ended" ELSE "missed"]

---------------------------------------------------------------------------
TypeOK ==
  /\ msgs \in [Msgs -> {"none", "queued", "delivered"}]
  /\ calls \in [Calls -> [state : CallStates, answered : BOOLEAN, lines : Seq(Parties)]]
  /\ opened \in Seq(Calls)
  /\ friends \in BOOLEAN
  /\ stage \in [Sockets -> Stages]
  /\ owns \in [Sockets -> BOOLEAN]
  /\ up \in [Sockets -> BOOLEAN]
  /\ down \in [Sockets -> Seq([id : Ids, kind : FrameKinds])]
  /\ acks \in [Sockets -> Seq(Ids)]
  /\ fetching \subseteq WithFiles
  /\ kept \subseteq Msgs
  /\ rung \subseteq Calls
  /\ hung \subseteq Calls
  /\ lost \subseteq Msgs
  /\ cursor \in {None} \cup [call : Calls, seq : Nat, sawInvite : BOOLEAN]
  /\ cursor # None => cursor.seq <= Len(calls[cursor.call].lines)
  /\ shown \in Seq(Nat)
  /\ faults \in 0 .. MaxFaults

Init ==
  /\ msgs = [m \in Msgs |-> "none"]
  /\ calls = [c \in Calls |-> [state |-> "none", answered |-> FALSE, lines |-> <<>>]]
  /\ opened = <<>>
  /\ friends = TRUE
  /\ stage = [s \in Sockets |-> "closed"]
  /\ owns = [s \in Sockets |-> FALSE]
  /\ up = [s \in Sockets |-> FALSE]
  /\ down = [s \in Sockets |-> <<>>]
  /\ acks = [s \in Sockets |-> <<>>]
  /\ fetching = {} /\ kept = {} /\ rung = {} /\ hung = {} /\ lost = {}
  /\ cursor = None
  /\ shown = <<>>
  /\ faults = 0

---------------------------------------------------------------------------
(* Sockets.                                                                *)

\* The bridge opens its connection and says hello; it has one at a time.
Connect(s) ==
  /\ stage[s] = "closed"
  /\ \A t \in Sockets : AgentOf[t] = AgentOf[s] => ~up[t]
  /\ up' = [up EXCEPT ![s] = TRUE]
  /\ stage' = [stage EXCEPT ![s] = "challenged"]
  /\ UNCHANGED <<database, friends, owns, down, acks, daemon, console, faults>>

\* The signature arrives; checking it is awaited.
AuthResponse(s) ==
  /\ stage[s] = "challenged" /\ up[s]
  /\ stage' = [stage EXCEPT ![s] = "verifying"]
  /\ UNCHANGED <<database, friends, owns, up, down, acks, daemon, console, faults>>

\* It was good: the socket claims the nickname if no live socket of the agent
\* has it, and is sent the queue and the ringing call.
Verified(s) ==
  /\ stage[s] = "verifying"
  /\ LET a == AgentOf[s]
     IN  /\ stage' = [stage EXCEPT ![s] = "live"]
         /\ owns' = [owns EXCEPT ![s] = \A t \in Live(a) : ~owns[t]]
         /\ \E queue \in LoginQueue(a) :
              down' = [down EXCEPT ![s] = IF up[s] THEN @ \o queue \o RedeliveredInvite(a) ELSE @]
  /\ UNCHANGED <<database, friends, up, acks, daemon, console, faults>>

\* The client's end goes away: what was on its way to it is gone, the acks it
\* had sent may still arrive.
Drop(s) ==
  /\ up[s]
  /\ faults < MaxFaults
  /\ faults' = faults + 1
  /\ up' = [up EXCEPT ![s] = FALSE]
  /\ down' = [down EXCEPT ![s] = <<>>]
  /\ \E n \in 0 .. Len(acks[s]) : acks' = [acks EXCEPT ![s] = SubSeq(@, 1, n)]
  /\ UNCHANGED <<database, friends, stage, owns, daemon, console>>

\* The platform notices; the rest of the socket's frames are never read.
Close(s) ==
  /\ stage[s] \in {"challenged", "live"} /\ ~up[s]
  /\ stage' = [stage EXCEPT ![s] = "closed"]
  /\ owns' = [owns EXCEPT ![s] = FALSE]
  /\ acks' = [acks EXCEPT ![s] = <<>>]
  /\ UNCHANGED <<database, friends, up, down, daemon, console, faults>>

\* The last writer of a claim takes it from the agent's other sockets.
Claim(s) ==
  /\ stage[s] = "live" /\ up[s] /\ ~owns[s]
  /\ owns' = [t \in Sockets |-> IF AgentOf[t] = AgentOf[s] THEN t = s ELSE owns[t]]
  /\ UNCHANGED <<database, friends, stage, up, down, acks, daemon, console, faults>>

\* The daemon stops: its connections break and the downloads it had under way
\* are forgotten.
DaemonStops ==
  /\ faults < MaxFaults
  /\ \E s \in Sockets : up[s]
  /\ faults' = faults + 1
  /\ up' = [s \in Sockets |-> FALSE]
  /\ down' = [s \in Sockets |-> <<>>]
  /\ lost' = lost \cup fetching
  /\ fetching' = {}
  /\ UNCHANGED <<database, friends, stage, owns, acks, kept, rung, hung, console>>

---------------------------------------------------------------------------
(* Messages.                                                               *)

\* An agent writes through its own live socket; the human and Peer need none.
MoreIds == Cardinality({m \in Msgs : msgs[m] # "none"}) + Len(opened) < MaxSent
MaySend(p) == p \in Agents => \E s \in Live(p) : up[s]

\* A send, or the retry of one: a message already stored is not sent again.
Send(m) ==
  /\ msgs[m] = "none" /\ MoreIds
  /\ MaySend(From[m])
  /\ Linked(From[m], To[m])
  /\ msgs' = [msgs EXCEPT ![m] = "queued"]
  /\ down' = Sent(Targets(To[m], m \in ByName), Sms(m))
  /\ UNCHANGED <<calls, opened, friends, stage, owns, up, acks, daemon, console, faults>>

\* The bridge acknowledges and hands the envelope over; without attachments it
\* is injected at once.
Receive(s) ==
  /\ up[s] /\ down[s] # <<>>
  /\ LET f == Head(down[s])
         wait == f.id \in WithFiles
     IN  /\ acks' = [acks EXCEPT ![s] = Append(@, f.id)]
         /\ down' = [down EXCEPT ![s] = Tail(@)]
         /\ fetching' = IF wait THEN fetching \cup {f.id} ELSE fetching
         /\ kept' = IF f.kind = "sms" /\ ~wait THEN kept \cup {f.id} ELSE kept
         /\ rung' = IF f.kind = "invite" THEN rung \cup {f.id} ELSE rung
         /\ hung' = IF f.kind = "close" THEN hung \cup {f.id} ELSE hung
  /\ UNCHANGED <<database, friends, stage, owns, up, lost, console, faults>>

\* The attachments are here, or could not be had: the envelope goes in anyway.
Fetched(m) ==
  /\ m \in fetching
  /\ fetching' = fetching \ {m}
  /\ kept' = kept \cup {m}
  /\ UNCHANGED <<database, friends, sockets, rung, hung, lost, console, faults>>

\* markDelivered: only the recipient's ack of a stored message counts.
Marked(s) ==
  [m \in Msgs |-> IF m = Head(acks[s]) /\ To[m] = AgentOf[s] /\ msgs[m] = "queued"
                  THEN "delivered" ELSE msgs[m]]

Ack(s) ==
  /\ acks[s] # <<>> /\ stage[s] = "live"
  /\ msgs' = Marked(s)
  /\ acks' = [acks EXCEPT ![s] = Tail(@)]
  /\ UNCHANGED <<calls, opened, friends, stage, owns, up, down, daemon, console, faults>>

\* The console drains the human's queue.
ConsoleInbox ==
  /\ Undelivered(Human) # {}
  /\ msgs' = [m \in Msgs |-> IF m \in Undelivered(Human) THEN "delivered" ELSE msgs[m]]
  /\ UNCHANGED <<calls, opened, friends, sockets, daemon, console, faults>>

\* The link to Peer is accepted or taken back.
Befriend ==
  /\ faults < MaxFaults
  /\ faults' = faults + 1
  /\ friends' = ~friends
  /\ UNCHANGED <<database, sockets, daemon, console>>

---------------------------------------------------------------------------
(* Calls.                                                                  *)

\* An envelope of a call is recorded and handed to the other party's sockets.
RouteCall(c, p, kind, record) ==
  LET to == IF p = Human THEN (IF To[c] = Human THEN From[c] ELSE To[c]) ELSE Human
  IN  /\ calls' = [calls EXCEPT ![c] = record]
      /\ down' = IF to = Human THEN down
                 ELSE Sent(Targets(to, c \in ByName), Frame(c, kind))
      /\ UNCHANGED <<msgs, friends, stage, owns, up, acks, daemon, faults>>

NewCursor(c, saw) == [call |-> c, seq |-> 0, sawInvite |-> saw]

\* The console places a call: it becomes the console's call, whatever that was.
ConsoleCall(c) ==
  /\ From[c] = Human /\ calls[c].state = "none" /\ MoreIds
  /\ RouteCall(c, Human, "invite", Invited(c))
  /\ opened' = Append(opened, c)
  /\ cursor' = NewCursor(c, TRUE)
  /\ shown' = <<>>

AgentCall(c) ==
  /\ From[c] \in Agents /\ calls[c].state = "none" /\ MoreIds
  /\ MaySend(From[c])
  /\ RouteCall(c, From[c], "invite", Invited(c))
  /\ opened' = Append(opened, c)
  /\ UNCHANGED console

\* The agent of a call speaks or hangs up: one it was rung for, or one it placed
\* once the console has spoken.
AgentOn(c) ==
  IF From[c] = Human THEN c \in rung ELSE Human \in ToSet(calls[c].lines)
AgentParty(c) == IF From[c] = Human THEN To[c] ELSE From[c]

MoreLines == FoldSet(LAMBDA c, n : Len(calls[c].lines) + n, 0, Calls) < MaxLines

AgentSays(c) ==
  /\ AgentOn(c) /\ c \notin hung
  /\ MaySend(AgentParty(c))
  /\ MoreLines
  /\ RouteCall(c, AgentParty(c), "frame", Spoken(c, AgentParty(c)))
  /\ UNCHANGED <<opened, console>>

AgentHangsUp(c) ==
  /\ AgentOn(c) /\ c \notin hung /\ Open(c)
  /\ MaySend(AgentParty(c))
  /\ RouteCall(c, AgentParty(c), "close", Closed(c))
  /\ UNCHANGED <<opened, console>>

\* The console picks up the call it was shown, and starts its lines over.
ConsolePickup ==
  /\ cursor # None /\ To[cursor.call] = Human
  /\ calls[cursor.call].state = "ringing"
  /\ cursor' = NewCursor(cursor.call, TRUE)
  /\ shown' = <<>>
  /\ UNCHANGED <<database, friends, sockets, daemon, faults>>

ConsoleSays ==
  /\ cursor # None
  /\ MoreLines
  /\ RouteCall(cursor.call, Human, "frame", Spoken(cursor.call, Human))
  /\ UNCHANGED <<opened, console>>

ConsoleHangup ==
  /\ cursor # None
  /\ RouteCall(cursor.call, Human, "close", Closed(cursor.call))
  /\ cursor' = None
  /\ shown' = <<>>
  /\ UNCHANGED opened

\* A poll shows the other party's lines after the cursor, in their order, of the
\* console's call or else of its latest open one, and forgets a call that is over.
ForeignAfterNone(c, seq) == {i \in DOMAIN calls[c].lines : calls[c].lines[i] # Human}   \* mutant: no cursor
ForeignAfter(c, seq) == {i \in seq + 1 .. Len(calls[c].lines) : calls[c].lines[i] # Human}
LinesAfter(c, seq) ==
  {lines \in SetToSeqs(ForeignAfter(c, seq)) :
     \A i, j \in DOMAIN lines : i < j => lines[i] < lines[j]}

\* The cursor moves to the last line shown, not over the human's own after it.
LastForeignCounted(c, seq) ==   \* mutant: counts from the line after the cursor
  seq + 1 + Cardinality(ForeignAfter(c, seq))
LastForeign(c, seq) == Max({seq} \cup ForeignAfter(c, seq))

ConsolePoll ==
  /\ cursor # None \/ LatestOpenCall(Human) # None
  /\ LET at == IF cursor # None THEN cursor ELSE NewCursor(LatestOpenCall(Human), FALSE)
         c == at.call
     IN  \/ /\ Over(c)
            /\ shown' = <<>>
            /\ cursor' = None
         \/ /\ ~Over(c)
            /\ \E lines \in LinesAfter(c, at.seq) :
                 shown' = (IF cursor # None THEN shown ELSE <<>>) \o lines
            /\ cursor' = [call |-> c, seq |-> LastForeign(c, at.seq), sawInvite |-> TRUE]
  /\ UNCHANGED <<database, friends, sockets, daemon, faults>>

---------------------------------------------------------------------------
Next ==
  \/ \E s \in Sockets :
       \/ Connect(s) \/ AuthResponse(s) \/ Verified(s) \/ Drop(s) \/ Close(s) \/ Claim(s)
       \/ Receive(s) \/ Ack(s)
  \/ DaemonStops
  \/ \E m \in Msgs : Send(m) \/ Fetched(m)
  \/ ConsoleInbox \/ Befriend
  \/ \E c \in Calls : ConsoleCall(c) \/ AgentCall(c) \/ AgentSays(c) \/ AgentHangsUp(c)
  \/ ConsolePickup \/ ConsoleSays \/ ConsoleHangup \/ ConsolePoll

\* The bridge reconnects, frames travel, the platform notices dead sockets and
\* works off what arrives, downloads end, the console asks for its messages.
Fairness ==
  /\ \A s \in Sockets :
       /\ SF_vars(Connect(s)) /\ WF_vars(AuthResponse(s)) /\ WF_vars(Verified(s))
       /\ WF_vars(Close(s)) /\ WF_vars(Receive(s)) /\ WF_vars(Ack(s))
  /\ \A m \in Msgs : WF_vars(Fetched(m))
  /\ WF_vars(ConsoleInbox)

Spec == Init /\ [][Next]_vars /\ Fairness

---------------------------------------------------------------------------
(* Properties.                                                             *)

\* A connection the daemon really has, attached on the platform.
Attached(s) == stage[s] = "live" /\ up[s]

\* No message waits unnoticed while its agent is attached: every real
\* connection of the recipient carries it or its ack.  A message addressed by
\* nickname is exempt: it goes to the socket that holds the claim alone, which
\* may be one whose client is gone.
QueuedIsCarried ==
  \A m \in Msgs \ ByName, s \in Sockets :
    msgs[m] = "queued" /\ To[m] = AgentOf[s] /\ Attached(s) =>
      Sms(m) \in ToSet(down[s]) \/ m \in ToSet(acks[s])

\* A ringing call reaches the agent it is for: if no call was placed with the
\* agent after it, every real connection carries the invite, unless the daemon has
\* rung.  (A ringing call behind a later open one is not sent again at a login, and
\* nothing makes up for that when the later one is over.)
Newest(c) == CallsOf(To[c]) # {} /\ opened[Max(CallsOf(To[c]))] = c
RingIsCarried ==
  \A c \in Calls \ ByName, s \in Sockets :
    calls[c].state = "ringing" /\ To[c] = AgentOf[s] /\ Attached(s) /\ Newest(c) =>
      c \in rung \/ Frame(c, "invite") \in ToSet(down[s])

\* No ghost rings: an invite on its way to a daemon that has not rung is followed
\* there by the close, once the call is over.  (One that has rung may be sent the
\* invite again while its agent hangs up.)
RingIsTakenBack ==
  \A c \in Calls \ ByName, s \in Sockets : \A i \in DOMAIN down[s] :
    down[s][i] = Frame(c, "invite") /\ Over(c) /\ c \notin rung =>
      \E j \in i + 1 .. Len(down[s]) : down[s][j] = Frame(c, "close")

\* What the console was shown under its cursor is what the other party has said
\* up to it, each line once and in order.
ShownOnce ==
  cursor # None =>
    /\ \A i, j \in DOMAIN shown : i < j => shown[i] < shown[j]
    /\ ToSet(shown) = {i \in 1 .. cursor.seq : calls[cursor.call].lines[i] # Human}

\* Every message the platform stored reaches the recipient's local hub and is
\* marked delivered, however its connections break, as long as they break finitely
\* often and it was not addressed by nickname.  The exception is an envelope that
\* a daemon stop took away between its ack and the end of its downloads.
EventuallyDelivered ==
  \A m \in {n \in Msgs \ ByName : To[n] \in Agents} :
    msgs[m] = "queued" ~> msgs[m] = "delivered" /\ m \in kept \cup lost

---------------------------------------------------------------------------
(* The strengthening that makes the invariants inductive: frames travel only *)
(* to a real connection, of the agent they are for.                        *)

Fits(f, s) ==
  /\ f.kind = "sms" => f.id \in Msgs /\ To[f.id] = AgentOf[s]
  /\ f.kind # "sms" => f.id \in Calls
  /\ f.kind = "invite" => To[f.id] = AgentOf[s]

Routed ==
  \A s \in Sockets :
    /\ down[s] # <<>> => Attached(s)
    /\ \A f \in ToSet(down[s]) : Fits(f, s)

IInv ==
  /\ TypeOK /\ Routed
  /\ QueuedIsCarried /\ RingIsCarried /\ RingIsTakenBack /\ ShownOnce
=============================================================================
