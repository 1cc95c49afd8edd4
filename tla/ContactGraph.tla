---------------------------- MODULE ContactGraph ----------------------------
(***************************************************************************)
(* Who may reach whom on the platform (packages/platform/src/db.ts and the *)
(* routes of hub-do.ts that call it).  Four relations give reach: agents   *)
(* of one account, accounts that are friends, an account with a grant to   *)
(* an agent that takes links from anybody (open_link), and the pairs of    *)
(* the older per-agent graph.  One computation, areLinked, gates what is   *)
(* sent; another, derivedContactsOf, lists an agent's contacts.            *)
(*                                                                         *)
(* A route checks the API key, and for an agent's own routes its owner,    *)
(* and then awaits the body of the request.  Whatever it does, it does in  *)
(* one step when the body is there; the account and the agent may be gone  *)
(* by then.  The request is parked in "waiting" meanwhile.                 *)
(*                                                                         *)
(* db.ts does not rely on foreign keys ("FK cascade isn't guaranteed on in *)
(* the DO's SQLite"), so whether the database enforces them is chosen by   *)
(* the initial state.  Ids are random and never used again.                *)
(*                                                                         *)
(* Init, Next, Spec and the type invariant carry the model's name, so that *)
(* it can be extended together with another one (ConsoleProofs).           *)
(***************************************************************************)
EXTENDS FiniteSets, Integers

CONSTANTS
    Accounts,     \* account ids
    Agents,       \* agent ids
    Owner,        \* the account that registers an agent id
    Connectors,   \* the agents that createConnector provisions
    Pairs,        \* bound: the pairs of agents that use the older graph
    Configured,   \* bound: the agents whose settings are changed
    MaxWaiting,   \* bound: requests in flight
    NoAgent       \* a value that is none of the above

ASSUME GraphConstants ==
    /\ Owner \in [Agents -> Accounts]
    /\ Connectors \subseteq Agents
    /\ Pairs \subseteq Agents \X Agents
    /\ Configured \subseteq Agents
    /\ NoAgent \notin Agents
    /\ MaxWaiting \in Nat

VARIABLES
    enforced,   \* does the database enforce foreign keys
    accounts,   \* accounts: the rows there are
    agents,     \* agents: the rows there are
    removed,    \* agent ids of rows that are gone
    auto,       \* accounts.auto_accept
    openLink,   \* agents.open_link
    listed,     \* agents.listed
    asking,     \* friendships, state pending: <<initiator, other>>
    friends,    \* friendships, state linked: {one, other}
    sharing,    \* contacts, state pending: <<initiator, other>>
    linked,     \* contacts, state linked: {one, other}
    grants,     \* agent_grants: <<agent, account>>
    tokens,     \* connector_tokens: the connectors that have one
    waiting,    \* requests that are authorised and await their body
    agreed,     \* history: <<x, y>>, x wants y since they last parted
    vouched     \* history: the same of agents, in the older graph

rows == <<accounts, agents, removed, tokens>>
settings == <<auto, openLink, listed>>
friendships == <<asking, friends, agreed>>
contacts == <<sharing, linked, vouched>>

graphVars == <<enforced, rows, settings, friendships, contacts, grants, waiting>>

Request == [account : Accounts, agent : Agents \cup {NoAgent}]

GraphTypeOK ==
    /\ enforced \in BOOLEAN
    /\ accounts \subseteq Accounts
    /\ agents \subseteq Agents
    /\ removed \subseteq Agents \ agents
    /\ auto \subseteq Accounts
    /\ openLink \subseteq agents
    /\ listed \subseteq agents
    /\ asking \subseteq Accounts \X Accounts
    /\ friends \subseteq SUBSET Accounts
    /\ sharing \subseteq Agents \X Agents
    /\ linked \subseteq SUBSET Agents
    /\ grants \subseteq Agents \X Accounts
    /\ tokens \subseteq Connectors
    /\ waiting \subseteq Request
    /\ agreed \subseteq Accounts \X Accounts
    /\ vouched \subseteq Agents \X Agents

GraphInit ==
    /\ enforced \in BOOLEAN
    /\ accounts = Accounts
    /\ agents = {} /\ removed = {} /\ tokens = {}
    /\ auto = {} /\ openLink = {} /\ listed = {}
    /\ asking = {} /\ friends = {} /\ agreed = {}
    /\ sharing = {} /\ linked = {} /\ vouched = {}
    /\ grants = {}
    /\ waiting = {}

-----------------------------------------------------------------------------
(* The gate and the list.                                                  *)

AreAccountsLinked(x, y) == {x, y} \in friends

\* The account of an agent's row; no row, no account.
OwnedBy(a, x) == a \in agents /\ Owner[a] = x
SameAccount(a, b) == {a, b} \subseteq agents /\ Owner[a] = Owner[b]
Befriended(a, b) == {a, b} \subseteq agents /\ AreAccountsLinked(Owner[a], Owner[b])

\* agentGrantExists: the account of agent a holds a grant to agent b.
Granted(b, a) == a \in agents /\ <<b, Owner[a]>> \in grants

AreLinkedOneWay(a, b) ==   \* mutant: the open agent cannot reply
    a = b \/ SameAccount(a, b) \/ Befriended(a, b) \/ Granted(b, a) \/ {a, b} \in linked

\* areLinked.
AreLinked(a, b) ==
    \/ a = b
    \/ SameAccount(a, b)
    \/ Befriended(a, b)
    \/ Granted(b, a)
    \/ Granted(a, b)
    \/ {a, b} \in linked

\* derivedContactsOf, for an agent that has a row.
DerivedContactsOf(a) ==
    {b \in Agents :
        \/ b # a /\ SameAccount(a, b)
        \/ b # a /\ Befriended(a, b) /\ b \in listed
        \/ b # a /\ (Granted(b, a) \/ Granted(a, b))
        \/ {a, b} \in linked}

-----------------------------------------------------------------------------
(* Requests.                                                               *)

\* requireAccount, and the ownership check of an agent's own routes; then the
\* body is awaited.
Authorised(x, a) ==
    /\ x \in accounts
    /\ a = NoAgent \/ OwnedBy(a, x)
    /\ Cardinality(waiting) < MaxWaiting
    /\ waiting' = waiting \cup {[account |-> x, agent |-> a]}
    /\ UNCHANGED <<enforced, rows, settings, friendships, contacts, grants>>

\* The body of w has come, and the request is for an account or an agent.
Resumes(w) == w \in waiting /\ waiting' = waiting \ {w}
ForAccount(w) == Resumes(w) /\ w.agent = NoAgent
ForAgent(w) == Resumes(w) /\ w.agent # NoAgent

\* A body that is not valid, an unknown handle, a handle that is taken.
Rejected(w) ==
    /\ Resumes(w)
    /\ UNCHANGED <<enforced, rows, settings, friendships, contacts, grants>>

AcceptsLost(x) == TRUE   \* mutant: a row for an account that is gone

\* INSERT of a row that references account x: refused when the account is
\* gone and foreign keys are enforced.
Accepts(x) == enforced => x \in accounts

\* grantAgent.
WithGrant(a, x) == IF Accepts(x) THEN grants \cup {<<a, x>>} ELSE grants

-----------------------------------------------------------------------------
(* Agents and their settings.                                              *)

\* register, and createConnector with its token; connectors start unlisted.
Register(w, a) ==
    /\ ForAccount(w)
    /\ a \notin agents \cup removed
    /\ Owner[a] = w.account
    /\ Accepts(w.account)
    /\ agents' = agents \cup {a}
    /\ listed' = listed \cup ({a} \ Connectors)
    /\ tokens' = tokens \cup ({a} \cap Connectors)
    /\ UNCHANGED <<enforced, accounts, removed, auto, openLink,
                   friendships, contacts, grants>>

\* removeAgent deletes the connector's credentials itself.
TokensWithout(gone) == tokens \ gone

\* removeAgent: the rows that go, and grants only where the database cascades.
Removed(gone) ==
    /\ agents' = agents \ gone
    /\ removed' = removed \cup gone
    /\ openLink' = openLink \ gone
    /\ listed' = listed \ gone
    /\ tokens' = TokensWithout(gone)

\* The route that unexposes an agent; it has no body.
RemoveAgent(a) ==
    /\ a \in agents
    /\ Owner[a] \in accounts
    /\ Removed({a})
    /\ grants' = IF enforced THEN {g \in grants : g[1] # a} ELSE grants
    /\ UNCHANGED <<enforced, accounts, auto, friendships, contacts, waiting>>

\* revokeConnector, for a connector of the account.
RevokeConnector(w, a) ==
    /\ ForAccount(w)
    /\ a \in tokens
    /\ Owner[a] = w.account
    /\ Removed({a})
    /\ grants' = IF enforced THEN {g \in grants : g[1] # a} ELSE grants
    /\ UNCHANGED <<enforced, accounts, auto, friendships, contacts>>

\* setAutoAccept.
SetAutoAccept(w, on) ==
    /\ ForAccount(w)
    /\ auto' = IF on THEN auto \cup ({w.account} \cap accounts) ELSE auto \ {w.account}
    /\ UNCHANGED <<enforced, rows, openLink, listed, friendships, contacts, grants>>

Toggle == {"on", "off", "absent"}

\* UPDATE agents SET ...: nothing when the row is gone.
Toggled(S, a, t) == CASE t = "on" -> S \cup ({a} \cap agents)
                      [] t = "off" -> S \ {a}
                      [] OTHER -> S

\* setOpenLink: switching it off revokes every grant to the agent.
GrantsAfter(a, o) ==
    IF o = "off" /\ a \in agents THEN {g \in grants : g[1] # a} ELSE grants

\* The settings route: open_link and listed, each when the body has it.
Settings(w, o, l) ==
    /\ ForAgent(w)
    /\ openLink' = Toggled(openLink, w.agent, o)
    /\ listed' = Toggled(listed, w.agent, l)
    /\ grants' = GrantsAfter(w.agent, o)
    /\ UNCHANGED <<enforced, rows, auto, friendships, contacts>>

-----------------------------------------------------------------------------
(* Friends.                                                                *)

MutualAnyRow(x, y) == {<<x, y>>, <<y, x>>} \cap asking # {} \/ y \in auto   \* mutant: asking twice is enough

\* A request of x to y makes them friends: y has asked x, or takes everybody.
Mutual(x, y) == <<y, x>> \in asking \/ y \in auto

\* What x and y want, after x asked y.
Asked(x, y) == agreed \cup {<<x, y>>} \cup (IF y \in auto THEN {<<y, x>>} ELSE {})

\* friendRequest, to the account of an agent that takes links from anybody.
\* Only that agent becomes reachable.
LinkAgent(w, a) ==
    /\ ForAccount(w)
    /\ a \in openLink
    /\ Owner[a] # w.account
    /\ ~AreAccountsLinked(w.account, Owner[a])
    /\ grants' = WithGrant(a, w.account)
    /\ UNCHANGED <<enforced, rows, settings, friendships, contacts>>

\* friendRequest otherwise: requestFriend, and respondFriend in the name of
\* an account with auto_accept.
FriendRequest(w, a) ==
    LET x == w.account
        y == Owner[a]
    IN /\ ForAccount(w)
       /\ a \in agents
       /\ y # x
       /\ AreAccountsLinked(x, y) \/ a \notin openLink
       /\ agreed' = Asked(x, y)
       /\ IF AreAccountsLinked(x, y) THEN UNCHANGED <<asking, friends>>
          ELSE IF Mutual(x, y)
          THEN /\ asking' = asking \ {<<x, y>>, <<y, x>>}
               /\ friends' = friends \cup {{x, y}}
          ELSE /\ asking' = asking \cup {<<x, y>>}
               /\ UNCHANGED friends
       /\ UNCHANGED <<enforced, rows, settings, contacts, grants>>

\* respondFriend, to a request of y that is pending.
AcceptFriend(w, y) ==
    /\ ForAccount(w)
    /\ <<y, w.account>> \in asking
    /\ asking' = asking \ {<<y, w.account>>}
    /\ friends' = friends \cup {{w.account, y}}
    /\ agreed' = agreed \cup {<<w.account, y>>}
    /\ UNCHANGED <<enforced, rows, settings, contacts, grants>>

\* respondFriend with accept = false: the row goes, whatever its state.
DropFriend(w, y) ==
    LET gone == {<<w.account, y>>, <<y, w.account>>}
    IN /\ ForAccount(w)
       /\ y # w.account
       /\ asking' = asking \ gone
       /\ friends' = friends \ {{w.account, y}}
       /\ agreed' = agreed \ gone
       /\ UNCHANGED <<enforced, rows, settings, contacts, grants>>

\* The contacts route of an agent (mcpAddContact): reach to an open agent,
\* unless there is reach already.
AddContact(w, b) ==
    /\ ForAgent(w)
    /\ b \in agents \ {w.agent}
    /\ grants' = IF ~AreLinked(w.agent, b) /\ b \in openLink
                 THEN WithGrant(b, w.account) ELSE grants
    /\ UNCHANGED <<enforced, rows, settings, friendships, contacts>>

-----------------------------------------------------------------------------
(* The older graph of agent pairs.                                         *)

\* shareContact: the second of the two to share makes the link.
ShareContact(a, b) ==
    /\ {a, b} \subseteq agents
    /\ vouched' = vouched \cup {<<a, b>>}
    /\ IF {a, b} \in linked THEN UNCHANGED <<sharing, linked>>
       ELSE IF <<b, a>> \in sharing
       THEN /\ sharing' = sharing \ {<<b, a>>}
            /\ linked' = linked \cup {{a, b}}
       ELSE /\ sharing' = sharing \cup {<<a, b>>}
            /\ UNCHANGED linked
    /\ UNCHANGED <<enforced, rows, settings, friendships, grants, waiting>>

\* respondContact.
AcceptContact(a, b) ==
    /\ {a, b} \subseteq agents
    /\ <<b, a>> \in sharing
    /\ sharing' = sharing \ {<<b, a>>}
    /\ linked' = linked \cup {{a, b}}
    /\ vouched' = vouched \cup {<<a, b>>}
    /\ UNCHANGED <<enforced, rows, settings, friendships, grants, waiting>>

DropContact(a, b) ==
    /\ {a, b} \subseteq agents
    /\ sharing' = sharing \ {<<a, b>>, <<b, a>>}
    /\ linked' = linked \ {{a, b}}
    /\ vouched' = vouched \ {<<a, b>>, <<b, a>>}
    /\ UNCHANGED <<enforced, rows, settings, friendships, grants, waiting>>

-----------------------------------------------------------------------------
(* Deletion of an account, in one transaction.                             *)

Without(S, gone) == {p \in S : p[1] \notin gone /\ p[2] \notin gone}
CouplesWithout(S, gone) == {c \in S : c \cap gone = {}}

DeleteAccount(x) ==
    LET gone == {a \in agents : Owner[a] = x}
    IN /\ x \in accounts
       /\ accounts' = accounts \ {x}
       /\ Removed(gone)
       /\ auto' = auto \ {x}
       /\ grants' = {g \in grants : g[1] \notin gone /\ g[2] # x}
       /\ asking' = Without(asking, {x})
       /\ friends' = CouplesWithout(friends, {x})
       /\ agreed' = Without(agreed, {x})
       /\ sharing' = Without(sharing, gone)
       /\ linked' = CouplesWithout(linked, gone)
       /\ vouched' = Without(vouched, gone)
       /\ UNCHANGED <<enforced, waiting>>

AccountRoute(w) ==
    \/ Rejected(w)
    \/ \E on \in BOOLEAN : SetAutoAccept(w, on)
    \/ \E y \in Accounts : AcceptFriend(w, y) \/ DropFriend(w, y)
    \/ \E a \in Agents : \/ Register(w, a) \/ RevokeConnector(w, a)
                         \/ LinkAgent(w, a) \/ FriendRequest(w, a)

AgentRoute(w) ==
    \/ \E o, l \in Toggle : w.agent \in Configured /\ Settings(w, o, l)
    \/ \E b \in Agents : AddContact(w, b)

OlderGraph(a, b) == ShareContact(a, b) \/ AcceptContact(a, b) \/ DropContact(a, b)

GraphNext ==
    \/ \E x \in Accounts, a \in Agents \cup {NoAgent} : Authorised(x, a)
    \/ \E w \in waiting : AccountRoute(w) \/ AgentRoute(w)
    \/ \E a \in Agents : RemoveAgent(a)
    \/ \E p \in Pairs : OlderGraph(p[1], p[2])
    \/ \E x \in Accounts : DeleteAccount(x)

GraphSpec == GraphInit /\ [][GraphNext]_graphVars

-----------------------------------------------------------------------------
(* Properties.                                                             *)

\* Each of the two wants the other, since they last parted.
BothAgree(x, y) == {<<x, y>>, <<y, x>>} \subseteq agreed
BothVouch(a, b) == {<<a, b>>, <<b, a>>} \subseteq vouched

\* Agents of two accounts reach each other only if both accounts have agreed
\* (asked, accepted, or auto-accepted when asked) since either last ended the
\* friendship, or one of the agents takes links from anybody right now, or
\* both agents have shared.  Crossing requests, answers that come twice or
\* late, a setting switched off under a request in flight and deletions in
\* between are what could break it (friendRequest, setOpenLink, areLinked).
ReachIsAgreed ==
    \A a, b \in agents : AreLinked(a, b) =>
        \/ Owner[a] = Owner[b]
        \/ BothAgree(Owner[a], Owner[b])
        \/ a \in openLink \/ b \in openLink
        \/ BothVouch(a, b)

\* An agent lists exactly those it can reach, but for the unlisted agents of
\* friends: derivedContactsOf and areLinked are two computations over the
\* same tables, and each must follow when the other changes.
ListedIsReachable ==
    \A a \in agents : \A b \in Agents \ {a} :
        b \in DerivedContactsOf(a) <=>
            /\ AreLinked(a, b)
            /\ \/ b \in listed \/ SameAccount(a, b)
               \/ Granted(a, b) \/ Granted(b, a) \/ {a, b} \in linked

\* Nothing of a removed agent or a deleted account is left that lets anybody
\* act or reach, although requests were authorised before and run after: no
\* credential without its agent, and, where the database checks references,
\* no agent of a deleted account, no grant to or for anybody who is gone, and
\* nobody who waits for a deleted account's answer.
DeletedIsForgotten ==
    /\ tokens \subseteq agents
    /\ enforced =>
        /\ \A a \in agents : Owner[a] \in accounts
        /\ \A g \in grants : g[1] \in agents /\ g[2] \in accounts
        /\ \A p \in asking : p[2] \in accounts
=============================================================================
