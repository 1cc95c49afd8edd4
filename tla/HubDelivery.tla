---------------------------- MODULE HubDelivery ----------------------------
(***************************************************************************)
(* SMS delivery inside one local hub (packages/hub/src/server.ts, with the *)
(* inboxes of store.ts and the message rows of history.ts).                *)
(*                                                                         *)
(* Agents hold WebSocket sessions; humans are driven over HTTP (a          *)
(* "console") and never have one.  A message is routed to a recipient and  *)
(* is then in exactly the places the hub keeps it: the durable inbox of    *)
(* store.json, the volatile `unacked` map of an agent with a live session, *)
(* or the volatile buffer of an attached console.  The hub runs on one     *)
(* thread, so a frame handler, a close event and an HTTP request are       *)
(* atomic; what interleaves is their order, and what is lost is what a     *)
(* socket or the process loses when it dies.                               *)
(***************************************************************************)
EXTENDS Naturals, Sequences, SequencesExt

CONSTANTS
    Agents,      \* agents that connect over WebSocket
    Humans,      \* agents driven over the console API
    Sockets,     \* the sessions those agents open, one socket each at a time
    Nicks,       \* bare nicknames
    Msgs,        \* message ids
    AgentOf,     \* [Sockets -> Agents]: which agent a session authenticates as
    From,        \* [Msgs -> sender, or Remote for one relayed by the bridge]
    To,          \* [Msgs -> an agent id, a human id or a nickname]
    None,        \* "no value": no recipient, no owner, no nickname
    Remote,      \* the sender of a message that comes from the platform
    MaxFails,    \* bound: sockets that die
    MaxCrashes,  \* bound: process crashes and stops
    MaxInjects   \* bound: envelopes the bridge injects

Nodes == Agents \cup Humans

ASSUME NodesAssumption ==
    /\ Agents \cap Humans = {}
    /\ None \notin Nodes \cup Sockets \cup Nicks
    /\ Nicks \cap Nodes = {}
    /\ Remote \notin Nodes
ASSUME AgentOfAssumption == AgentOf \in [Sockets -> Agents]
ASSUME MessageAssumption ==
    /\ From \in [Msgs -> Nodes \cup {Remote}]
    /\ To \in [Msgs -> Nodes \cup Nicks]
ASSUME BoundAssumption == MaxFails \in Nat /\ MaxCrashes \in Nat /\ MaxInjects \in Nat

VARIABLES
    conn,       \* conn[s]: "closed", "open" (readyState OPEN) or "closing" (dead, close event pending)
    toClient,   \* toClient[s]: deliver frames on their way to the session
    toHub,      \* toHub[s]: ack frames on their way to the hub
    unacked,    \* unacked[a]: the keys of the agent's unacked Map, in Map order (volatile)
    claims,     \* claims[n]: the socket that owns a nickname's inbound (volatile)
    attached,   \* the humans whose console is attached (volatile)
    buffer,     \* buffer[h]: an attached console's buffer (volatile)
    inbox,      \* inbox[x]: the durable inbox (store.json)
    nick,       \* nick[n]: the agent a nickname is bound to (store.json)
    row,        \* row[m]: to_agent of the message's history row (history.json)
    delivered,  \* the rows whose delivered_at is set (history.json)
    accepted,   \* <<x, m>>: the hub answered for m to recipient x (a receipt, or an injection)
    received,   \* received[x]: what a session of x, or its console, has been handed
    exposed,    \* <<x, m>>: m for x was in volatile memory only when the process ended
    fails, crashes, injects

wires     == <<conn, toClient, toHub>>
consoles  == <<attached, buffer>>
history   == <<row, delivered>>
ghosts    == <<accepted, received, exposed>>
budgets   == <<fails, crashes, injects>>
vars == <<wires, unacked, claims, consoles, inbox, nick, history, ghosts, budgets>>

-----------------------------------------------------------------------------
(* Helpers of the routing code.                                            *)

\* The sockets online.get(a) holds: authenticated and not yet through handleClose.
Online(a) == {s \in Sockets : AgentOf[s] = a /\ conn[s] # "closed"}

\* store.resolveAgentId: an id stands for itself, a nickname for the agent bound to it.
Resolve(ref) == IF ref \in Nicks THEN nick[ref] ELSE ref

\* The sockets deliverTo sends to: the claim owner alone when the message was
\* addressed by nickname and the owner is a live socket of the agent, else all.
TargetsStale(x, ref) ==   \* mutant: does not ask whose session owns the name
    IF ref \in Nicks /\ claims[ref] # None THEN {claims[ref]} ELSE Online(x)
Targets(x, ref) ==
    IF /\ ref \in Nicks
       /\ claims[ref] \in Online(x)
       /\ conn[claims[ref]] = "open"
    THEN {claims[ref]}
    ELSE Online(x)

\* The deliver frames of ids on the wires of the target sockets; sendFrame
\* drops a frame for a socket that is not OPEN.
Sent(wire, targets, ids) ==
    [s \in Sockets |-> IF s \in targets /\ conn[s] = "open" THEN wire[s] \o ids ELSE wire[s]]

\* Map.set on a Map whose keys, in insertion order, are keys.
MapSet(keys, m) == IF m \in Range(keys) THEN keys ELSE Append(keys, m)

\* Map.delete.
MapDelete(keys, m) ==
    IF m \in Range(keys) THEN RemoveAt(keys, CHOOSE i \in DOMAIN keys : keys[i] = m) ELSE keys

\* Where x first occurs in a sequence that holds it.
FirstAt(seq, x) == CHOOSE i \in DOMAIN seq : seq[i] = x /\ \A j \in 1..(i - 1) : seq[j] # x

\* The one key order a Map with the keys old has after Map.set of every id of
\* queue in turn: the old keys stay where they are, a new key goes where it is
\* first set.
KeyOrdersAny(old, queue) ==   \* mutant: the drained inbox is sent unordered
    {new \in UNION {[1..n -> Range(old) \cup Range(queue)] : n \in 0..(Len(old) + Len(queue))} :
        Range(new) = Range(old) \cup Range(queue) /\ IsInjective(new) /\ IsPrefix(old, new)}
KeyOrders(old, queue) ==
    {new \in UNION {[1..n -> Range(old) \cup Range(queue)] : n \in 0..(Len(old) + Len(queue))} :
        /\ Range(new) = Range(old) \cup Range(queue)
        /\ IsInjective(new)
        /\ IsPrefix(old, new)
        /\ \A i, j \in (Len(old) + 1)..Len(new) : i < j => FirstAt(queue, new[i]) < FirstAt(queue, new[j])}

\* handleClose asks whether the closing socket was its agent's last.
LastSocket(s) == Online(AgentOf[s]) = {s}

\* store.inboxPrepend of the unacked envelopes.
PutBackNothing(a) == inbox[a]   \* mutant: unacked is deleted without the prepend
PutBack(a) == unacked[a] \o inbox[a]

\* handleClose drops every claim of the socket.
Unclaimed(s) == [n \in Nicks |-> IF claims[n] = s THEN None ELSE claims[n]]

\* store.inboxTakeAll and the loop that delivers what it returns.
Drain(a) == inbox[a]

\* history.markDelivered, for the row that names the acking agent.
MarkAllPending(m, a) == delivered \cup {m} \cup Range(unacked[a])   \* mutant: a cumulative ack
MarkDelivered(m, a) == IF row[m] = a THEN delivered \cup {m} ELSE delivered

\* store.bindNickname: a name is bound unless another agent holds it, and an
\* agent gives up the name it had (one nickname per agent).
Bindable(x, n) == nick[n] \in {x, None}
Bound(x, n) == [k \in Nicks |-> IF k = n THEN x ELSE IF nick[k] = x THEN None ELSE nick[k]]

-----------------------------------------------------------------------------
Init ==
    /\ conn = [s \in Sockets |-> "closed"]
    /\ toClient = [s \in Sockets |-> <<>>]
    /\ toHub = [s \in Sockets |-> <<>>]
    /\ unacked = [a \in Agents |-> <<>>]
    /\ claims = [n \in Nicks |-> None]
    /\ attached = {}
    /\ buffer = [h \in Humans |-> <<>>]
    /\ inbox = [x \in Nodes |-> <<>>]
    /\ nick = [n \in Nicks |-> None]
    /\ row = [m \in Msgs |-> None]
    /\ delivered = {}
    /\ accepted = {}
    /\ received = [x \in Nodes |-> {}]
    /\ exposed = {}
    /\ fails = 0
    /\ crashes = 0
    /\ injects = 0

-----------------------------------------------------------------------------
(* Routing.                                                                *)

\* deliverTo and the inboxAppend its callers fall back to, for a recipient x
\* addressed as ref: the history row is written once, an attached console
\* buffers, a live session gets the frame and is owed an ack, and only with
\* neither does the message enter the durable inbox.
Deliver(x, ref, m) ==
    /\ row' = [row EXCEPT ![m] = IF @ = None THEN x ELSE @]
    /\ IF x \in attached'
       THEN buffer' = [buffer EXCEPT ![x] = Append(@, m)]
       ELSE UNCHANGED buffer
    /\ IF x \in Agents /\ Online(x) # {}
       THEN /\ unacked' = [unacked EXCEPT ![x] = MapSet(@, m)]
            /\ toClient' = Sent(toClient, Targets(x, ref), <<m>>)
       ELSE UNCHANGED <<unacked, toClient>>
    /\ IF x \in attached' \/ (x \in Agents /\ Online(x) # {})
       THEN UNCHANGED inbox
       ELSE inbox' = [inbox EXCEPT ![x] = Append(@, m)]

\* A message enters routeFromAgent from an authenticated socket of its sender,
\* or from the sender's console, whose request attaches the console first.
Submitted(m) ==
    /\ From[m] \in Agents => Online(From[m]) # {}
    /\ From[m] # Remote
Attach(m) == attached' = attached \cup ({From[m]} \cap Humans)

\* Answers that change nothing: unknown agent, not linked (autoLink links any
\* two different agents), or an id already used for another recipient.
Refused(m) ==
    LET x == Resolve(To[m]) IN
    \/ x = None
    \/ x = From[m]
    \/ row[m] # None /\ row[m] # x

SendRefused(m) ==
    /\ Submitted(m)
    /\ Attach(m)
    /\ Refused(m)
    /\ UNCHANGED <<wires, unacked, claims, buffer, inbox, nick, history, ghosts, budgets>>

\* A first send: routed, then answered "delivered" or "queued".
SendFirst(m) ==
    /\ Submitted(m)
    /\ Attach(m)
    /\ ~Refused(m)
    /\ row[m] = None
    /\ Deliver(Resolve(To[m]), To[m], m)
    /\ accepted' = accepted \cup {<<Resolve(To[m]), m>>}
    /\ UNCHANGED <<conn, toHub, claims, nick, delivered, received, exposed, budgets>>

\* A retry of a recorded id: answered from the history row, routed nowhere.
SendAgain(m) ==
    /\ Submitted(m)
    /\ Attach(m)
    /\ ~Refused(m)
    /\ row[m] # None
    /\ accepted' = accepted \cup {<<Resolve(To[m]), m>>}
    /\ UNCHANGED <<wires, unacked, claims, buffer, inbox, nick, history, received, exposed, budgets>>

Send(m) == SendRefused(m) \/ SendFirst(m) \/ SendAgain(m)

\* injectInbound: the bridge hands over a platform envelope, addressed to the
\* local agent by id.  There is no check for an id seen before.
InjectInbound(m) ==
    /\ From[m] = Remote
    /\ To[m] \in Agents
    /\ injects < MaxInjects
    /\ injects' = injects + 1
    /\ UNCHANGED attached
    /\ Deliver(To[m], To[m], m)
    /\ accepted' = accepted \cup {<<To[m], m>>}
    /\ UNCHANGED <<conn, toHub, claims, nick, delivered, received, exposed, fails, crashes>>

-----------------------------------------------------------------------------
(* Sessions.                                                               *)

\* The handshake of a fresh socket (auth_hello, auth_response): the session
\* joins online, binds the nickname its hello carries if it can, takes over
\* the names of its agent that have no live owner, and is sent the drained
\* inbox, which moves to unacked.  The rows of those messages exist already.
Auth(s, n) ==
    LET a == AgentOf[s] IN
    /\ conn[s] = "closed"
    /\ conn' = [conn EXCEPT ![s] = "open"]
    /\ nick' = IF n # None /\ Bindable(a, n) THEN Bound(a, n) ELSE nick
    /\ claims' = [k \in Nicks |->
                    IF nick'[k] = a /\ (claims[k] = None \/ conn[claims[k]] # "open") THEN s ELSE claims[k]]
    /\ \E order \in KeyOrders(unacked[a], Drain(a)) : unacked' = [unacked EXCEPT ![a] = order]
    /\ toClient' = [Sent(toClient, Online(a), Drain(a)) EXCEPT ![s] = Drain(a)]
    /\ inbox' = [inbox EXCEPT ![a] = <<>>]
    /\ UNCHANGED <<toHub, consoles, history, ghosts, budgets>>

\* The session reads a deliver frame: it acks first, then keeps the envelope.
\* On a dead socket the ack goes nowhere.
ClientRecv(s) ==
    /\ conn[s] # "closed"
    /\ toClient[s] # <<>>
    /\ toClient' = [toClient EXCEPT ![s] = Tail(@)]
    /\ toHub' = IF conn[s] = "open" THEN [toHub EXCEPT ![s] = Append(@, Head(toClient[s]))] ELSE toHub
    /\ received' = [received EXCEPT ![AgentOf[s]] = @ \cup {Head(toClient[s])}]
    /\ UNCHANGED <<conn, unacked, claims, consoles, inbox, nick, history, accepted, exposed, budgets>>

\* The ack frame: the agent no longer owes it, and the row is marked delivered
\* if it names this agent.
HubAck(s) ==
    LET m == Head(toHub[s])
        a == AgentOf[s] IN
    /\ conn[s] # "closed"
    /\ toHub[s] # <<>>
    /\ toHub' = [toHub EXCEPT ![s] = Tail(@)]
    /\ unacked' = [unacked EXCEPT ![a] = MapDelete(@, m)]
    /\ delivered' = MarkDelivered(m, a)
    /\ UNCHANGED <<conn, toClient, claims, consoles, inbox, nick, row, ghosts, budgets>>

\* A socket dies: the peer closes it, the network breaks it, or the heartbeat
\* terminates it.  Frames that already reached either side may still be read.
SocketFails(s) ==
    /\ conn[s] = "open"
    /\ fails < MaxFails
    /\ fails' = fails + 1
    /\ conn' = [conn EXCEPT ![s] = "closing"]
    /\ UNCHANGED <<toClient, toHub, unacked, claims, consoles, inbox, nick, history, ghosts, crashes, injects>>

\* handleClose: the socket's claims go, and when it was the agent's last one
\* the unacknowledged messages return to the front of the durable inbox.
Close(s) ==
    LET a == AgentOf[s] IN
    /\ conn[s] = "closing"
    /\ conn' = [conn EXCEPT ![s] = "closed"]
    /\ toClient' = [toClient EXCEPT ![s] = <<>>]
    /\ toHub' = [toHub EXCEPT ![s] = <<>>]
    /\ claims' = Unclaimed(s)
    /\ inbox' = IF LastSocket(s) THEN [inbox EXCEPT ![a] = PutBack(a)] ELSE inbox
    /\ unacked' = IF LastSocket(s) THEN [unacked EXCEPT ![a] = <<>>] ELSE unacked
    /\ UNCHANGED <<consoles, nick, history, ghosts, budgets>>

\* A claim frame takes a nickname of the session's agent, whoever owned it.
Claim(s, n) ==
    /\ conn[s] # "closed"
    /\ nick[n] = AgentOf[s]
    /\ claims' = [claims EXCEPT ![n] = s]
    /\ UNCHANGED <<wires, unacked, consoles, inbox, nick, history, ghosts, budgets>>

\* A release frame gives up a nickname this very socket owns.
Release(s, n) ==
    /\ conn[s] # "closed"
    /\ claims[n] = s
    /\ claims' = [claims EXCEPT ![n] = None]
    /\ UNCHANGED <<wires, unacked, consoles, inbox, nick, history, ghosts, budgets>>

\* The claims page's release, over HTTP, takes a bound nickname from any owner.
ReleaseByRoute(n) ==
    /\ nick[n] # None
    /\ claims' = [claims EXCEPT ![n] = None]
    /\ UNCHANGED <<wires, unacked, consoles, inbox, nick, history, ghosts, budgets>>

\* A rename over HTTP.  It does not touch claims.
Rename(x, n) ==
    /\ Bindable(x, n)
    /\ nick' = Bound(x, n)
    /\ UNCHANGED <<wires, unacked, claims, consoles, inbox, history, ghosts, budgets>>

\* GET /console/inbox: attaches the console and hands over what it buffered.  (No
\* client passes the since parameter, which would hide drained messages.)
ConsoleInbox(h) ==
    /\ attached' = attached \cup {h}
    /\ received' = [received EXCEPT ![h] = @ \cup Range(buffer[h])]
    /\ buffer' = [buffer EXCEPT ![h] = <<>>]
    /\ UNCHANGED <<wires, unacked, claims, inbox, nick, history, accepted, exposed, budgets>>

-----------------------------------------------------------------------------
(* The process ends and starts again from its files.                       *)

ForgetVolatile ==
    /\ conn' = [s \in Sockets |-> "closed"]
    /\ toClient' = [s \in Sockets |-> <<>>]
    /\ toHub' = [s \in Sockets |-> <<>>]
    /\ unacked' = [a \in Agents |-> <<>>]
    /\ claims' = [n \in Nicks |-> None]
    /\ attached' = {}
    /\ buffer' = [h \in Humans |-> <<>>]
    /\ crashes < MaxCrashes
    /\ crashes' = crashes + 1
    /\ UNCHANGED <<nick, delivered, accepted, received, fails, injects>>

InUnacked == {p \in Agents \X Msgs : p[2] \in Range(unacked[p[1]])}
InBuffer  == {p \in Humans \X Msgs : p[2] \in Range(buffer[p[1]])}

\* A kill between two handlers.
Crash ==
    /\ ForgetVolatile
    /\ exposed' = exposed \cup InUnacked \cup InBuffer
    /\ UNCHANGED <<inbox, row>>

\* A kill inside routeFromAgent, after history.save and before store.save:
\* the row of a message that nothing queues is on disk.
CrashInRoute(m) ==
    /\ Submitted(m)
    /\ ~Refused(m)
    /\ row[m] = None
    /\ ForgetVolatile
    /\ row' = [row EXCEPT ![m] = Resolve(To[m])]
    /\ exposed' = exposed \cup InUnacked \cup InBuffer \cup {<<Resolve(To[m]), m>>}
    /\ UNCHANGED inbox

\* HubHandle.close: every socket is terminated and its close event handled
\* before the server closes, so only the console buffers are forgotten.
Stop ==
    /\ ForgetVolatile
    /\ inbox' = [x \in Nodes |-> IF x \in Agents /\ Online(x) # {} THEN PutBack(x) ELSE inbox[x]]
    /\ exposed' = exposed \cup InBuffer
    /\ UNCHANGED row

-----------------------------------------------------------------------------
Session(s) ==
    \/ \E n \in Nicks \cup {None} : Auth(s, n)
    \/ ClientRecv(s) \/ HubAck(s) \/ SocketFails(s) \/ Close(s)
    \/ \E n \in Nicks : Claim(s, n) \/ Release(s, n)

Process == Crash \/ Stop \/ \E m \in Msgs : CrashInRoute(m)

Next ==
    \/ \E m \in Msgs : Send(m) \/ InjectInbound(m)
    \/ \E s \in Sockets : Session(s)
    \/ \E x \in Nodes, n \in Nicks : Rename(x, n)
    \/ \E n \in Nicks : ReleaseByRoute(n)
    \/ \E h \in Humans : ConsoleInbox(h)
    \/ Process

Spec == Init /\ [][Next]_vars

\* Both event loops keep running, a dead socket is eventually noticed (the
\* heartbeat reaps it), and a session that lost its hub dials again (the
\* backoff timer of connection.ts).
Fairness ==
    \A s \in Sockets :
        /\ WF_vars(ClientRecv(s))
        /\ WF_vars(HubAck(s))
        /\ WF_vars(Close(s))
        /\ WF_vars(\E n \in Nicks \cup {None} : Auth(s, n))

FairSpec == Spec /\ Fairness

-----------------------------------------------------------------------------
(* Properties.                                                             *)

TypeOK ==
    /\ conn \in [Sockets -> {"closed", "open", "closing"}]
    /\ toClient \in [Sockets -> Seq(Msgs)]
    /\ toHub \in [Sockets -> Seq(Msgs)]
    /\ unacked \in [Agents -> Seq(Msgs)]
    /\ claims \in [Nicks -> Sockets \cup {None}]
    /\ attached \subseteq Humans
    /\ buffer \in [Humans -> Seq(Msgs)]
    /\ inbox \in [Nodes -> Seq(Msgs)]
    /\ nick \in [Nicks -> Nodes \cup {None}]
    /\ row \in [Msgs -> Nodes \cup {None}]
    /\ delivered \subseteq Msgs
    /\ accepted \subseteq Nodes \X Msgs
    /\ received \in [Nodes -> SUBSET Msgs]
    /\ exposed \subseteq Nodes \X Msgs
    /\ fails \in Nat /\ crashes \in Nat /\ injects \in Nat

\* A message is pending for a recipient while the hub still keeps it for them.
Pending(x, m) ==
    \/ m \in Range(inbox[x])
    \/ x \in Agents /\ m \in Range(unacked[x])
    \/ x \in Humans /\ m \in Range(buffer[x])

\* The durable inbox and the unacked map of an agent are never both in use: an
\* agent with a live session has an empty inbox (Auth drained it, and routing
\* bypasses it), one without owes no acks (Close gave them back).  That is
\* what makes the prepend of handleClose keep the order of messages.
OnlineDrained ==
    \A a \in Agents : IF Online(a) # {} THEN inbox[a] = <<>> ELSE unacked[a] = <<>>

\* Whatever happens to sockets, names, retries and restarts, a message the hub
\* answered for is still kept for its recipient or was handed to them, unless
\* a process end caught it in memory only.
NoLoss ==
    \A x \in Nodes, m \in Msgs :
        <<x, m>> \in accepted => Pending(x, m) \/ m \in received[x] \/ <<x, m>> \in exposed

\* The sender's "delivered" tick is the truth: the recipient the row names has
\* had the message, also after a rename, a retry or an injected duplicate.
DeliveredTruth == \A m \in delivered : row[m] # None /\ m \in received[row[m]]

\* A message sent by a local agent or human that its recipient acked is kept
\* nowhere: no close, reconnect, restart or retry puts it back in a queue.
AckedIsDone ==
    \A m \in delivered : From[m] # Remote => \A x \in Nodes : ~Pending(x, m)

\* A message is only ever on the wires of, and handed to, the recipient its row
\* names, although nicknames move between agents while claims on them stay.
RightRecipient ==
    /\ \A x \in Nodes : \A m \in received[x] : row[m] = x
    /\ \A s \in Sockets : \A m \in Range(toClient[s]) : row[m] = AgentOf[s]

\* An owner of a nickname's inbound is a connected socket: no claim outlives
\* its session, whatever renames, claims and restarts came between.
ClaimsLive == \A n \in Nicks : claims[n] # None => conn[claims[n]] # "closed"

\* m comes before k in what an agent is still owed.
Before(m, k, queue) ==
    /\ {m, k} \subseteq Range(queue)
    /\ FirstAt(queue, m) < FirstAt(queue, k)

\* Moving between inbox and unacked map, at connects, closes and restarts,
\* never swaps two messages an agent is owed before and after the step.
OrderKept ==
    [][\A a \in Agents, m, k \in Msgs :
        LET owed == unacked[a] \o inbox[a] IN
        Before(m, k, owed) /\ {m, k} \subseteq Range(owed') => Before(m, k, owed')]_vars

\* With one session per agent, every message answered for reaches its
\* recipient and the sender gets the delivered tick, through dying sockets,
\* reconnects and stops; only what a crash caught in memory is excepted.
EventuallyTicked ==
    \A a \in Agents, m \in Msgs :
        <<a, m>> \in accepted /\ From[m] # Remote ~> m \in delivered \/ <<a, m>> \in exposed

-----------------------------------------------------------------------------
(* The inductive invariant behind NoLoss, DeliveredTruth, AckedIsDone and   *)
(* RightRecipient (HubDeliveryProofs).                                      *)

\* A closed socket carries nothing.
WiresClosed == \A s \in Sockets : conn[s] = "closed" => toClient[s] = <<>> /\ toHub[s] = <<>>

\* Map keys are distinct, so one ack takes a message out.
KeysDistinct == \A a \in Agents : IsInjective(unacked[a])

\* Wherever a message is, the row names that recipient.
RowNamesHolder ==
    /\ \A x \in Nodes, m \in Msgs : Pending(x, m) \/ <<x, m>> \in accepted => row[m] = x
    /\ \A m \in Msgs : From[m] = Remote => row[m] \in {None, To[m]}

\* A recorded message is kept, was handed over, or was caught by a process end.
RecordedIsHeld ==
    \A m \in Msgs : row[m] # None =>
        Pending(row[m], m) \/ m \in received[row[m]] \/ <<row[m], m>> \in exposed

\* Only what a session was handed is acked.
AcksTrue == \A s \in Sockets : Range(toHub[s]) \subseteq received[AgentOf[s]]

IInv ==
    /\ TypeOK /\ OnlineDrained /\ WiresClosed /\ KeysDistinct /\ RowNamesHolder
    /\ RightRecipient /\ RecordedIsHeld /\ AcksTrue /\ DeliveredTruth /\ AckedIsDone
=============================================================================
