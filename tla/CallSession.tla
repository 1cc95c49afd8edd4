---------------------------- MODULE CallSession ----------------------------
(***************************************************************************)
(* Calls on one local hub: the blocking tools of a session (mcp.ts over    *)
(* connection.ts), the call routes of the human console (server.ts) and    *)
(* the call log they leave behind (history.ts).                            *)
(*                                                                         *)
(* A call has no state of its own anywhere: each party remembers the call  *)
(* it believes it is on, the hub keeps a row and a transcript, and         *)
(* everything in between is a frame that rides on an SMS envelope.  How    *)
(* envelopes reach a session is HubDelivery; here an agent has one socket, *)
(* whose death both sides see at once, and q stands for what the hub holds *)
(* for it.  Tools may overlap: the server answers requests concurrently    *)
(* and place_call and say wait for up to a minute.                         *)
(***************************************************************************)
EXTENDS Naturals, Sequences, SequencesExt, FiniteSets

CONSTANTS
    Agents,     \* sessions with the call tools
    Humans,     \* parties driven over the console API
    Calls,      \* call ids
    Caller,     \* [Calls -> party]
    Callee,     \* [Calls -> party]
    None,       \* "not on a call"
    MaxSays,    \* bound: lines spoken, in all calls
    MaxWaits,   \* bound: tools of one agent that wait at a time
    MaxDrops,   \* bound: sockets that die, session ends included
    MaxCrashes  \* bound: hub crashes

Parties == Agents \cup Humans

ASSUME PartiesAssumption == Agents \cap Humans = {} /\ None \notin Calls
ASSUME CallsAssumption ==
    /\ Caller \in [Calls -> Parties]
    /\ Callee \in [Calls -> Parties]
    /\ \A c \in Calls : Caller[c] # Callee[c]
ASSUME BoundsAssumption ==
    MaxSays \in Nat /\ MaxWaits \in Nat /\ MaxDrops \in Nat /\ MaxCrashes \in Nat

VARIABLES
    online,     \* online[p]: the agent's socket is authenticated, the human's console attached
    q,          \* q[p]: frames in the durable inbox (offline) or unacked (online), in order
    seen,       \* seen[p]: how many of the first of q[p] the session has read, its acks on the way
    redo,       \* redo[p]: how many of the last of q[p] the drain after a login still has to deliver
    pending,    \* pending[p]: HubConnection.calls of an agent's session
    buffer,     \* buffer[h][c]: the frames of a call in an attached console's buffer
    active,     \* active[p]: activeCall of the connection, consoleCall of the hub
    waits,      \* waits[p]: the tools that wait in awaitCall, as <<tool, call>>
    rung,       \* rung[h]: the invites a poll has shown the human, until picked up
    rec,        \* rec[c]: the call row: its state and whether answered_ms is set (history.json)
    script,     \* script[c]: the frames of the transcript in seq order (history.json)
    said,       \* how many lines were spoken, which numbers them
    placed,     \* calls placed so far
    heard,      \* heard[p][c]: the frames handed to p by a tool, each at its first time, or by a poll
    hungUp,     \* <<p, c>>: a close of p has been routed
    stranded,   \* <<h, c>>: a close was routed to h while its console was not attached
    exposed,    \* <<p, c>>: a frame for p was in memory only when the hub or the session died
    drops, crashes

link   == <<online, q, seen, redo>>
boxes  == <<pending, buffer>>
tools  == <<active, waits>>
log    == <<rec, script>>
ghosts == <<said, placed, heard, exposed>>
vars   == <<link, boxes, tools, rung, log, ghosts, hungUp, stranded, drops, crashes>>

-----------------------------------------------------------------------------
(* Frames and what they do to the log.                                     *)

Frame(c, kind, p, n) == [call |-> c, kind |-> kind, from |-> p, n |-> n]
Frames == [call : Calls, kind : {"invite", "frame", "close"}, from : Parties, n : 0..MaxSays]

Peer(p, c) == IF Caller[c] = p THEN Callee[c] ELSE Caller[c]

\* upsertCallInvite: INSERT OR IGNORE.
AfterInvite(r) == IF r.state = "none" THEN [r EXCEPT !.state = "ringing"] ELSE r

\* markCallAnswered, which a first frame implies.
AfterAnswerRinging(r) ==   \* mutant: only a ringing call is answered
    IF r.state = "ringing" THEN [state |-> "active", answered |-> TRUE] ELSE r
AfterAnswer(r) ==
    IF r.state = "none" THEN r
    ELSE [state |-> IF r.state = "ringing" THEN "active" ELSE r.state, answered |-> TRUE]

\* closeCall.
AfterClose(r) ==
    IF r.state = "none" THEN r
    ELSE [r EXCEPT !.state = IF r.answered THEN "ended" ELSE "missed"]

AfterFrame(r, f) ==
    CASE f.kind = "invite" -> AfterInvite(r)
      [] f.kind = "frame"  -> AfterAnswer(r)
      [] f.kind = "close"  -> AfterClose(r)

\* insertCallFrame: the next seq, unless the frame is there already.
InsertedAgain(s, f) == IF f.kind = "frame" THEN Append(s, f) ELSE s   \* mutant: no check of the id
Inserted(s, f) == IF f.kind = "frame" /\ f \notin Range(s) THEN Append(s, f) ELSE s

\* persistHistory of a call envelope.
Persist(f) ==
    /\ rec' = [rec EXCEPT ![f.call] = AfterFrame(@, f)]
    /\ script' = [script EXCEPT ![f.call] = Inserted(@, f)]

\* awaitCall looks for the first frame of its call that is a line or a close.
MatchAny(p, c) == {i \in DOMAIN pending[p] : pending[p][i].kind # "invite"}   \* mutant: of any call
Match(p, c) == {i \in DOMAIN pending[p] : pending[p][i].call = c /\ pending[p][i].kind # "invite"}
FirstOfLast(S) == CHOOSE i \in S : \A j \in S : j <= i   \* mutant: the newest frame
FirstOf(S) == CHOOSE i \in S : \A j \in S : i <= j

\* takeInvite looks for the last invite.
Invites(p) == {i \in DOMAIN pending[p] : pending[p][i].kind = "invite"}
LastInvite(p) == CHOOSE i \in Invites(p) : \A j \in Invites(p) : j <= i

-----------------------------------------------------------------------------
Init ==
    /\ online = [p \in Parties |-> p \in Agents]
    /\ q = [p \in Parties |-> <<>>]
    /\ seen = [p \in Parties |-> 0]
    /\ redo = [p \in Parties |-> 0]
    /\ pending = [p \in Agents |-> <<>>]
    /\ buffer = [h \in Humans |-> [c \in Calls |-> <<>>]]
    /\ active = [p \in Parties |-> None]
    /\ waits = [p \in Agents |-> {}]
    /\ rung = [h \in Humans |-> {}]
    /\ rec = [c \in Calls |-> [state |-> "none", answered |-> FALSE]]
    /\ script = [c \in Calls |-> <<>>]
    /\ said = 0
    /\ placed = {}
    /\ heard = [p \in Parties |-> [c \in Calls |-> <<>>]]
    /\ hungUp = {}
    /\ stranded = {}
    /\ exposed = {}
    /\ drops = 0
    /\ crashes = 0

-----------------------------------------------------------------------------
(* Routing.  The hub runs on one thread: while a drain goes on nothing     *)
(* else is handled.                                                        *)

Idle == \A p \in Parties : redo[p] = 0

\* deliverTo and inboxAppend for the other party of a frame's call.
Deliver(x, f) ==
    IF x \in Humans /\ online[x]
    THEN /\ buffer' = [buffer EXCEPT ![x][f.call] = Append(@, f)]
         /\ UNCHANGED q
    ELSE /\ q' = [q EXCEPT ![x] = Append(@, f)]
         /\ UNCHANGED buffer

Unattached == {h \in Humans : ~online[h]}

Route(f) ==
    LET x == Peer(f.from, f.call) IN
    /\ Persist(f)
    /\ Deliver(x, f)
    /\ hungUp' = IF f.kind = "close" THEN hungUp \cup {<<f.from, f.call>>} ELSE hungUp
    /\ stranded' = IF f.kind = "close" /\ x \in Unattached
                   THEN stranded \cup {<<x, f.call>>} ELSE stranded

-----------------------------------------------------------------------------
(* The tools of an agent (mcp.ts).                                         *)

\* sendCall: a frame that no socket can carry is dropped without a word; one
\* that is lost with its socket shows as a send after the drop.
SendCall(p, f) ==
    \/ /\ online[p]
       /\ Idle
       /\ Route(f)
    \/ /\ ~online[p]
       /\ UNCHANGED <<q, buffer, log, hungUp, stranded>>

Wait(p, tool, c) ==
    /\ Cardinality(waits[p]) < MaxWaits
    /\ <<tool, c>> \notin waits[p]
    /\ waits' = [waits EXCEPT ![p] = @ \cup {<<tool, c>>}]

PlaceCall(p, c) ==
    /\ Caller[c] = p
    /\ c \notin placed
    /\ placed' = placed \cup {c}
    /\ active' = [active EXCEPT ![p] = c]
    /\ SendCall(p, Frame(c, "invite", p, 0))
    /\ Wait(p, "place", c)
    /\ UNCHANGED <<online, seen, redo, pending, rung, said, heard, exposed, drops, crashes>>

\* pickup_call: the newest invite becomes the active call, whatever was.
PickupCall(p) ==
    /\ Invites(p) # {}
    /\ active' = [active EXCEPT ![p] = pending[p][LastInvite(p)].call]
    /\ pending' = [pending EXCEPT ![p] = RemoveAt(@, LastInvite(p))]
    /\ UNCHANGED <<link, buffer, waits, rung, log, ghosts, hungUp, stranded, drops, crashes>>

Say(p) ==
    LET c == active[p] IN
    /\ c # None
    /\ said < MaxSays
    /\ said' = said + 1
    /\ SendCall(p, Frame(c, "frame", p, said + 1))
    /\ Wait(p, "say", c)
    /\ UNCHANGED <<online, seen, redo, pending, active, rung, placed, heard, exposed, drops, crashes>>

\* A waiting tool finds its frame: a line is returned, a close ends the call,
\* that is, whichever call the session is on by now.
Answered(p, tool, c) ==
    LET i == FirstOf(Match(p, c))
        f == pending[p][i] IN
    /\ <<tool, c>> \in waits[p]
    /\ Match(p, c) # {}
    /\ waits' = [waits EXCEPT ![p] = @ \ {<<tool, c>>}]
    /\ pending' = [pending EXCEPT ![p] = RemoveAt(@, i)]
    /\ heard' = [heard EXCEPT ![p][c] = IF f \in Range(@) THEN @ ELSE Append(@, f)]
    /\ active' = IF f.kind = "close" THEN [active EXCEPT ![p] = None] ELSE active
    /\ UNCHANGED <<link, buffer, rung, log, said, placed, exposed, hungUp, stranded, drops, crashes>>

\* Twenty polls found nothing.  say keeps the call, place_call gives it up,
\* and neither tells the other side.
TimesOut(p, tool, c) ==
    /\ <<tool, c>> \in waits[p]
    /\ Match(p, c) = {}
    /\ waits' = [waits EXCEPT ![p] = @ \ {<<tool, c>>}]
    /\ active' = IF tool = "place" THEN [active EXCEPT ![p] = None] ELSE active
    /\ UNCHANGED <<link, boxes, rung, log, said, placed, heard, exposed, hungUp, stranded, drops, crashes>>

Hangup(p) ==
    /\ active[p] # None
    /\ SendCall(p, Frame(active[p], "close", p, 0))
    /\ active' = [active EXCEPT ![p] = None]
    /\ UNCHANGED <<online, seen, redo, pending, waits, rung, ghosts, drops, crashes>>

Tools(p) ==
    \/ PickupCall(p) \/ Say(p) \/ Hangup(p)
    \/ \E c \in Calls :
        \/ PlaceCall(p, c)
        \/ \E tool \in {"place", "say"} : Answered(p, tool, c) \/ TimesOut(p, tool, c)

-----------------------------------------------------------------------------
(* Sessions.                                                               *)

\* The session reads a deliver frame and acks it.
ClientRecv(p) ==
    /\ online[p]
    /\ seen[p] < Len(q[p]) - redo[p]
    /\ seen' = [seen EXCEPT ![p] = @ + 1]
    /\ pending' = [pending EXCEPT ![p] = Append(@, q[p][seen[p] + 1])]
    /\ UNCHANGED <<online, q, redo, buffer, tools, rung, log, ghosts, hungUp, stranded, drops, crashes>>

Acked(p) == Tail(q[p])

HubAck(p) ==
    /\ Idle
    /\ online[p]
    /\ seen[p] > 0
    /\ seen' = [seen EXCEPT ![p] = @ - 1]
    /\ q' = [q EXCEPT ![p] = Acked(p)]
    /\ UNCHANGED <<online, redo, boxes, tools, rung, log, ghosts, hungUp, stranded, drops, crashes>>

\* handleClose: what was not acked returns to the inbox, in order.
TookBack(p) == q[p]

\* The socket dies, and the frames on it are gone.
Disconnect(p) ==
    /\ Idle
    /\ online[p]
    /\ drops < MaxDrops
    /\ drops' = drops + 1
    /\ online' = [online EXCEPT ![p] = FALSE]
    /\ seen' = [seen EXCEPT ![p] = 0]
    /\ q' = [q EXCEPT ![p] = TookBack(p)]
    /\ UNCHANGED redo

Drop(p) ==
    /\ Disconnect(p)
    /\ UNCHANGED <<boxes, tools, rung, log, ghosts, hungUp, stranded, crashes>>

\* The session's process ends, and a new one takes its place at the next login.
SessionEnds(p) ==
    /\ Disconnect(p)
    /\ pending' = [pending EXCEPT ![p] = <<>>]
    /\ active' = [active EXCEPT ![p] = None]
    /\ waits' = [waits EXCEPT ![p] = {}]
    /\ exposed' = exposed \cup {<<p, pending[p][i].call>> : i \in DOMAIN pending[p]}
    /\ UNCHANGED <<buffer, rung, log, said, placed, heard, hungUp, stranded, crashes>>

\* auth_response: the inbox is drained into deliverTo, one envelope at a time,
\* and deliverTo records each of them again.
Login(p) ==
    /\ Idle
    /\ ~online[p]
    /\ online' = [online EXCEPT ![p] = TRUE]
    /\ redo' = [redo EXCEPT ![p] = Len(q[p])]
    /\ UNCHANGED <<q, seen, boxes, tools, rung, log, ghosts, hungUp, stranded, drops, crashes>>

Redeliver(p) ==
    /\ redo[p] > 0
    /\ redo' = [redo EXCEPT ![p] = @ - 1]
    /\ Persist(q[p][Len(q[p]) - redo[p] + 1])
    /\ UNCHANGED <<online, q, seen, boxes, tools, rung, ghosts, hungUp, stranded, drops, crashes>>

\* Calls of which a party's frames are in the hub's memory only.
Volatile ==
    {pc \in Parties \X Calls :
        \/ /\ pc[1] \in Agents /\ online[pc[1]]
           /\ \E f \in Range(q[pc[1]]) : f.call = pc[2]
        \/ /\ pc[1] \in Humans
           /\ buffer[pc[1]][pc[2]] # <<>>}

\* The hub process is killed: sessions lose their sockets, and unacked, the
\* console buffers and consoleCall are gone.  The log is on disk.
Crash ==
    /\ crashes < MaxCrashes
    /\ crashes' = crashes + 1
    /\ online' = [p \in Parties |-> FALSE]
    /\ q' = [p \in Parties |-> IF p \in Agents /\ online[p] THEN <<>> ELSE q[p]]
    /\ seen' = [p \in Parties |-> 0]
    /\ redo' = [p \in Parties |-> 0]
    /\ buffer' = [h \in Humans |-> [c \in Calls |-> <<>>]]
    /\ active' = [p \in Parties |-> IF p \in Humans THEN None ELSE active[p]]
    /\ exposed' = exposed \cup Volatile
    /\ UNCHANGED <<pending, waits, rung, log, said, placed, heard, hungUp, stranded, drops>>

-----------------------------------------------------------------------------
(* The console routes of a human.  Every request attaches the console.     *)

Attach(h) == online' = [online EXCEPT ![h] = TRUE]

ConsoleCall(h, c) ==
    /\ Idle
    /\ Caller[c] = h
    /\ c \notin placed
    /\ placed' = placed \cup {c}
    /\ Attach(h)
    /\ Route(Frame(c, "invite", h, 0))
    /\ active' = [active EXCEPT ![h] = c]
    /\ UNCHANGED <<seen, redo, pending, waits, rung, said, heard, exposed, drops, crashes>>

ConsolePickup(h, c) ==
    /\ Idle
    /\ c \in rung[h]
    /\ rung' = [rung EXCEPT ![h] = @ \ {c}]
    /\ Attach(h)
    /\ active' = [active EXCEPT ![h] = c]
    /\ UNCHANGED <<q, seen, redo, boxes, waits, log, ghosts, hungUp, stranded, drops, crashes>>

\* There is no check that anybody has picked up.
ConsoleSay(h) ==
    LET c == active[h] IN
    /\ Idle
    /\ c # None
    /\ said < MaxSays
    /\ said' = said + 1
    /\ Attach(h)
    /\ Route(Frame(c, "frame", h, said + 1))
    /\ UNCHANGED <<seen, redo, pending, tools, rung, placed, heard, exposed, drops, crashes>>

\* The poll hands over the frames of the active call, or all of them when
\* there is none; a close among them ends the active call.
ConsolePoll(h) ==
    LET polled == {c \in Calls : active[h] \in {None, c}}
        Has(c, kind) == \E f \in Range(buffer[h][c]) : f.kind = kind IN
    /\ Idle
    /\ Attach(h)
    /\ buffer' = [buffer EXCEPT ![h] = [c \in Calls |-> IF c \in polled THEN <<>> ELSE @[c]]]
    /\ heard' = [heard EXCEPT ![h] = [c \in Calls |-> IF c \in polled THEN @[c] \o buffer[h][c] ELSE @[c]]]
    /\ rung' = [rung EXCEPT ![h] = @ \cup {c \in polled : Has(c, "invite")}]
    /\ active' = IF \E c \in polled : Has(c, "close") THEN [active EXCEPT ![h] = None] ELSE active
    /\ UNCHANGED <<q, seen, redo, pending, waits, log, said, placed, exposed, hungUp, stranded, drops, crashes>>

ConsoleHangup(h) ==
    /\ Idle
    /\ active[h] # None
    /\ Attach(h)
    /\ Route(Frame(active[h], "close", h, 0))
    /\ active' = [active EXCEPT ![h] = None]
    /\ UNCHANGED <<seen, redo, pending, waits, rung, ghosts, drops, crashes>>

Console(h) ==
    \/ ConsoleSay(h) \/ ConsolePoll(h) \/ ConsoleHangup(h)
    \/ \E c \in Calls : ConsoleCall(h, c) \/ ConsolePickup(h, c)

-----------------------------------------------------------------------------
Next ==
    \/ \E p \in Agents :
        \/ Tools(p)
        \/ ClientRecv(p) \/ HubAck(p)
        \/ Drop(p) \/ SessionEnds(p) \/ Login(p) \/ Redeliver(p)
    \/ \E h \in Humans : Console(h)
    \/ Crash

Spec == Init /\ [][Next]_vars

-----------------------------------------------------------------------------
(* Properties.                                                             *)

\* Every variable has its type, and what a session has read or the drain has
\* still to deliver is part of what the hub holds for it.
TypeOK ==
    /\ online \in [Parties -> BOOLEAN]
    /\ q \in [Parties -> Seq(Frames)]
    /\ seen \in [Parties -> Nat]
    /\ redo \in [Parties -> Nat]
    /\ \A p \in Parties : seen[p] + redo[p] <= Len(q[p])
    /\ pending \in [Agents -> Seq(Frames)]
    /\ buffer \in [Humans -> [Calls -> Seq(Frames)]]
    /\ active \in [Parties -> Calls \cup {None}]
    /\ waits \in [Agents -> SUBSET ({"place", "say"} \X Calls)]
    /\ rung \in [Humans -> SUBSET Calls]
    /\ rec \in [Calls -> [state : {"none", "ringing", "active", "ended", "missed"}, answered : BOOLEAN]]
    /\ script \in [Calls -> Seq(Frames)]
    /\ said \in 0..MaxSays
    /\ placed \subseteq Calls
    /\ heard \in [Parties -> [Calls -> Seq(Frames)]]
    /\ hungUp \cup stranded \cup exposed \subseteq Parties \X Calls
    /\ drops \in 0..MaxDrops /\ crashes \in 0..MaxCrashes

\* The transcript (getCallTranscript) holds each line once, the lines of one
\* speaker in the order spoken, and every line a party was ever handed,
\* however often the drain records it again.
TranscriptFaithful ==
    /\ \A c \in Calls : \A i, j \in DOMAIN script[c] :
        i < j /\ script[c][i].from = script[c][j].from => script[c][i].n < script[c][j].n
    /\ \A p \in Parties, c \in Calls : \A f \in Range(heard[p][c]) :
        f.kind = "frame" => f \in Range(script[c])

\* A party is handed the other side's lines in the order they were spoken,
\* through lost sockets, redeliveries and tools that overlap.
Line(f) == f.kind = "frame"
InOrder(s) == \A i, j \in DOMAIN s : i < j /\ Line(s[i]) /\ Line(s[j]) => s[i].n < s[j].n
HeardInOrder == \A p \in Parties, c \in Calls : InOrder(heard[p][c])

\* The log calls a call answered exactly when its transcript has a line.
AnsweredIffSpoken ==
    \A c \in Calls : rec[c].state # "none" => (rec[c].answered <=> script[c] # <<>>)

\* The frames a party was handed or has where it reads: an agent from its socket and
\* from what its tools have not taken, a human from the console's buffer only.
IsClose(f, c) == f.call = c /\ f.kind = "close"
Reads(p, c) ==
    Range(heard[p][c])
        \cup (IF p \in Agents THEN Range(q[p]) \cup Range(pending[p]) ELSE Range(buffer[p][c]))

\* While a party is on a call the other side has hung up, it has been told or the close
\* is where its next read finds it: no tool, poll or login loses a hangup.  Two ways to
\* lose one are excepted: the memory that held the close died (exposed), or it came while
\* the human's console was not attached, as after a kill of the hub, and went to its
\* durable inbox, which no poll reads (stranded).
HangupReaches ==
    \A p \in Parties, c \in Calls :
        active[p] = c /\ <<Peer(p, c), c>> \in hungUp =>
            \/ \E f \in Reads(p, c) : IsClose(f, c)
            \/ <<p, c>> \in exposed \cup stranded

\* A call that is over stays over: frames that come late and envelopes that
\* come again may still turn "missed" into "ended", and nothing else.
OverStays ==
    [][\A c \in Calls :
        /\ rec[c].state = "ended" => rec'[c].state = "ended"
        /\ rec[c].state = "missed" => rec'[c].state \in {"missed", "ended"}]_vars

-----------------------------------------------------------------------------
(* The inductive invariant behind TranscriptFaithful, AnsweredIffSpoken and *)
(* OverStays (CallSessionProofs).                                           *)

\* The frames the log has taken in: recording them again adds no line and
\* starts no call.
Recorded ==
    {f \in Frames :
        /\ f.call \in placed
        /\ f.kind = "invite" => rec[f.call].state # "none"
        /\ f.kind = "frame" => f \in Range(script[f.call])}
RecordedOf(c) == {f \in Recorded : f.call = c}

\* Whatever is queued, waits to be read or was handed over is recorded.
HeldIsRecorded ==
    /\ q \in [Parties -> Seq(Recorded)]
    /\ pending \in [Agents -> Seq(Recorded)]
    /\ \A h \in Humans, c \in Calls : buffer[h][c] \in Seq(RecordedOf(c))
    /\ \A p \in Parties, c \in Calls : heard[p][c] \in Seq(RecordedOf(c))

\* Nobody is on, or is rung by, a call not yet placed, and it has no lines.
OnlyPlaced ==
    /\ active \in [Parties -> placed \cup {None}]
    /\ rung \in [Humans -> SUBSET placed]
    /\ \A c \in Calls \ placed : script[c] = <<>>

\* A session that is away has read nothing.
OfflineUnread == \A p \in Parties : ~online[p] => seen[p] = 0

\* The lines of a transcript are numbered in the order spoken.
ScriptNumbered ==
    \A c \in Calls : \A i \in DOMAIN script[c] :
        /\ script[c][i].n <= said
        /\ \A j \in DOMAIN script[c] : i < j => script[c][i].n < script[c][j].n

\* A call without a row was not answered, one that ended was.
OutcomeFits ==
    \A c \in Calls :
        /\ rec[c].state = "none" => ~rec[c].answered
        /\ rec[c].state = "ended" => rec[c].answered

IInv ==
    /\ TypeOK /\ HeldIsRecorded /\ OnlyPlaced /\ OfflineUnread
    /\ ScriptNumbered /\ AnsweredIffSpoken /\ OutcomeFits

-----------------------------------------------------------------------------
(* The strengthening behind HeardInOrder and HangupReaches.                 *)

Earlier(f, g) == Line(f) /\ Line(g) /\ f.call = g.call /\ f.n < g.n

\* The order at a session, whose socket may die with frames read and not acked, so
\* that they come again.  The hub holds lines in order; what was read of them is
\* pending or was handed over; and a line overtaken by a later one, in pending or
\* among those handed over, is only there again.
SessionOrder(held, read, pends, had) ==
    /\ InOrder(held)
    /\ \A c \in Calls : InOrder(had[c])
    /\ \A i \in 1..read :
        held[i].kind # "invite" => held[i] \in Range(had[held[i].call]) \cup Range(pends)
    /\ \A i \in DOMAIN pends : \A f \in Range(held) \cup Range(pends) :
        Earlier(f, pends[i]) =>
            f \in Range(had[f.call]) \/ \E j \in DOMAIN pends : j < i /\ pends[j] = f
    /\ \A c \in Calls : \A g \in Range(had[c]), f \in Range(held) \cup Range(pends) :
        Earlier(f, g) => f \in Range(had[f.call])

Ordered ==
    /\ \A p \in Agents : SessionOrder(q[p], seen[p], pending[p], heard[p])
    /\ \A h \in Humans, c \in Calls : InOrder(heard[h][c] \o buffer[h][c])

\* Only the two parties of a call get its frames, are rung by it or are on it.
PartyOf(p, c) == p \in {Caller[c], Callee[c]}
PartiesOnly ==
    /\ \A p \in Parties : \A f \in Range(q[p]) : PartyOf(p, f.call)
    /\ \A p \in Agents : \A f \in Range(pending[p]) : PartyOf(p, f.call)
    /\ \A h \in Humans, c \in Calls : buffer[h][c] # <<>> \/ c \in rung[h] => PartyOf(h, c)
    /\ \A p \in Parties, c \in Calls : active[p] = c => PartyOf(p, c)

\* The close of a party is with the other one, on a call or not, or was exposed or
\* stranded.
CloseHeld ==
    \A p \in Parties, c \in Calls :
        PartyOf(p, c) /\ <<Peer(p, c), c>> \in hungUp =>
            \/ \E f \in Reads(p, c) : IsClose(f, c)
            \/ <<p, c>> \in exposed \cup stranded

OInv == IInv /\ Ordered /\ PartiesOnly /\ CloseHeld
=============================================================================
