---------------------------- MODULE NameRegistry ----------------------------
(***************************************************************************)
(* The one namespace of the platform (packages/platform/src/db.ts,        *)
(* email-actions.ts and the routes of hub-do.ts that call them).  A handle *)
(* is bound to an agent (nicknames), parked for an account (reservations)  *)
(* or held for a mailbox that has no account yet (preregistrations).       *)
(* Three tables, one namespace: nothing but the order of the checks keeps  *)
(* a name from being in two of them, because the database only knows that  *)
(* each table has it once.                                                 *)
(*                                                                         *)
(* A handler of the durable object runs without interruption except where  *)
(* it awaits a digest, a password hash or the mail service.  There the     *)
(* request is parked in a slot and anything else may happen before it      *)
(* resumes.  A slot also stands for the links mailed by its request: the   *)
(* token rows of email_tokens that it stored.                              *)
(***************************************************************************)
EXTENDS Integers, FiniteSets

CONSTANTS
    Accounts,         \* account rows that can exist together
    Agents,           \* agent rows that can exist together
    Names,            \* normalised handles, usernames included
    Emails,           \* lower-cased mailboxes
    Slots,            \* requests in flight and mails with a link still good
    MaxReservations,  \* MAX_RESERVATIONS, reservations of one account
    MaxInvited,       \* bound: mailboxes on the allowlist
    NoOne             \* a value that is none of the above

ASSUME RegistryConstants ==
    /\ NoOne \notin Accounts \cup Agents \cup Names \cup Emails
    /\ MaxReservations \in Nat
    /\ MaxInvited \in Nat

VARIABLES
    accounts,   \* accounts: username and email of each row, NoAccount, GoneAccount
    agents,     \* agents: owner and kind of each row, or NoAgent
    nick,       \* nicknames: the agent a name is bound to
    resv,       \* reservations: the account a name is parked for
    hold,       \* preregistrations: the row of each mailbox
    invited,    \* invites: the mailboxes on the allowlist
    slot        \* requests in flight and the links they mailed

vars == <<accounts, agents, nick, resv, hold, invited, slot>>

Kinds    == {"human", "agent", "connector"}
Purposes == {"verify", "pending-cancel", "cancel", "claim"}
Statuses == {"pending", "verified", "invited"}
Phases   == {"idle", "signup", "asking", "mailing", "inviting"}

NoAccount == [live |-> FALSE, user |-> NoOne, email |-> NoOne]
GoneAccount == [live |-> FALSE, user |-> NoOne]   \* deleted
NoAgent   == [live |-> FALSE, owner |-> NoOne, kind |-> "agent"]
NoHold    == [status |-> "none", name |-> NoOne, live |-> FALSE]
FreeSlot  == [phase |-> "idle", email |-> NoOne, name |-> NoOne, toks |-> {}]

TypeOK ==
    /\ accounts \in [Accounts ->
           {NoAccount, GoneAccount} \cup [live : {TRUE}, user : Names, email : Emails]]
    /\ agents \in [Agents ->
           {NoAgent} \cup [live : {TRUE}, owner : Accounts, kind : Kinds]]
    /\ nick \in [Names -> Agents \cup {NoOne}]
    /\ resv \in [Names -> Accounts \cup {NoOne}]
    /\ hold \in [Emails ->
           {NoHold} \cup [status : Statuses, name : Names, live : BOOLEAN]]
    /\ invited \subseteq Emails
    /\ slot \in [Slots -> {FreeSlot} \cup
           [phase : Phases, email : Emails, name : Names,
            toks : SUBSET Purposes]]
    /\ \A s \in Slots : slot[s].phase = "idle" /\ slot[s].toks = {} => slot[s] = FreeSlot

-----------------------------------------------------------------------------
(* The lookups the handlers share.                                         *)

\* preregistrationHeld: an unexpired hold, whichever mailbox has it.
PreregistrationHeld(n) ==
    \E e \in Emails : hold[e].name = n /\ hold[e].live

AvailableUnparked(n) == nick[n] = NoOne /\ ~PreregistrationHeld(n)   \* mutant: reservations forgotten

\* nicknameAvailability.
Available(n) == nick[n] = NoOne /\ resv[n] = NoOne /\ ~PreregistrationHeld(n)

CanBindHeld(g, owner, n) == nick[n] \in {NoOne, g} /\ resv[n] \in {NoOne, owner}   \* mutant: holds forgotten

\* What bindNickname checks before it writes.
CanBind(g, owner, n) ==
    /\ ~PreregistrationHeld(n)
    /\ nick[n] \in {NoOne, g}
    /\ resv[n] \in {NoOne, owner}

\* bindNickname gives the agent its new name, frees its old one and consumes
\* the reservation.
BoundTo(g, n) ==
    [m \in Names |-> IF m = n THEN g ELSE IF nick[m] = g THEN NoOne ELSE nick[m]]

\* removeAgent: nicknames of the agents that go.
WithoutAgents(gone) ==
    [m \in Names |-> IF nick[m] \in gone THEN NoOne ELSE nick[m]]

AgentsOf(a) == {g \in Agents : agents[g].live /\ agents[g].owner = a}
Humans(a)   == {g \in AgentsOf(a) : agents[g].kind = "human"}
ReservedBy(a) == {n \in Names : resv[n] = a}

\* accountByUsername, accountByEmail: compared in lower case.
HasUsername(a, u) == accounts[a].live /\ accounts[a].user = u
HasEmail(a, e)    == accounts[a].live /\ accounts[a].email = e


\* A slot whose request is over and whose links are all used or void is free.
Settled(s) == IF s.phase = "idle" /\ s.toks = {} THEN FreeSlot ELSE s

\* The slot of a request that is over, with the links it leaves.
Ended(s, links) == Settled([s EXCEPT !.phase = "idle", !.toks = links])

WithoutLinksNot(sl, es) == sl   \* mutant: the links outlive the hold

\* DELETE FROM email_tokens WHERE email IN es (every purpose but reset).
WithoutLinks(sl, es) ==
    [s \in Slots |-> IF sl[s].email \in es
                     THEN Settled([sl[s] EXCEPT !.toks = {}]) ELSE sl[s]]

\* EmailActions.purge: the holds that have expired go, and their links.
Expired == {e \in Emails : hold[e].status # "none" /\ ~hold[e].live}
PurgedHold == [e \in Emails |-> IF e \in Expired THEN NoHold ELSE hold[e]]
PurgedSlot == WithoutLinks(slot, Expired)

-----------------------------------------------------------------------------
(* Accounts.                                                               *)

\* signup up to the password hash: invite gate, username, hold and email are
\* checked, and createAccount starts to hash.
SignupChecked(s, u, e) ==
    /\ slot[s] = FreeSlot
    /\ invited = {} \/ e \in invited
    /\ ~\E a \in Accounts : HasUsername(a, u) \/ HasEmail(a, e)
    /\ ~PreregistrationHeld(u)
    /\ slot' = [slot EXCEPT ![s] =
           [phase |-> "signup", email |-> e, name |-> u, toks |-> {}]]
    /\ UNCHANGED <<accounts, agents, nick, resv, hold, invited>>

HeldMeanwhileNot(s) == FALSE   \* mutant: checked before the hash only

\* A hold taken while the password was being hashed.
HeldMeanwhile(s) == PreregistrationHeld(slot[s].name)

\* createAccount after the hash.  Ids are fresh: a deleted account that still has
\* a name parked is not this one.  The hold is looked at again.  The UNIQUE
\* columns compare the spelling, so a sign-up that differs from a concurrent
\* one in its capitals alone is inserted next to it.
SignupInserted(s, a) ==
    /\ slot[s].phase = "signup"
    /\ ~accounts[a].live /\ ReservedBy(a) = {}
    /\ ~HeldMeanwhile(s)
    /\ accounts' = [accounts EXCEPT ![a] =
           [live |-> TRUE, user |-> slot[s].name, email |-> slot[s].email]]
    /\ slot' = [slot EXCEPT ![s] = FreeSlot]
    /\ UNCHANGED <<agents, nick, resv, hold, invited>>

SignupRefused(s) ==
    /\ slot[s].phase = "signup"
    /\ \/ HeldMeanwhile(s)
       \/ \E a \in Accounts : HasUsername(a, slot[s].name)
                              \/ HasEmail(a, slot[s].email)
    /\ slot' = [slot EXCEPT ![s] = FreeSlot]
    /\ UNCHANGED <<accounts, agents, nick, resv, hold, invited>>

\* deleteAccount: the mailbox's hold and links, the agents with their names,
\* the reservations and the row, in one transaction.
DeleteAccount(a) ==
    /\ accounts[a].live
    /\ hold' = [hold EXCEPT ![accounts[a].email] = NoHold]
    /\ slot' = WithoutLinks(slot, {accounts[a].email})
    /\ nick' = WithoutAgents(AgentsOf(a))
    /\ resv' = [n \in Names |-> IF resv[n] = a THEN NoOne ELSE resv[n]]
    /\ agents' = [g \in Agents |-> IF g \in AgentsOf(a) THEN NoAgent ELSE agents[g]]
    /\ accounts' = [accounts EXCEPT ![a] = GoneAccount]
    /\ UNCHANGED invited

-----------------------------------------------------------------------------
(* Agents and their names.                                                 *)

\* bindNickname on a live agent: the nickname routes, the console identity and
\* the name a session asks for in its hello.
BindNickname(g, n) ==
    /\ agents[g].live
    /\ CanBind(g, agents[g].owner, n)
    /\ nick' = BoundTo(g, n)
    /\ resv' = [resv EXCEPT ![n] = NoOne]
    /\ UNCHANGED <<accounts, agents, hold, invited, slot>>

\* attachReservation: the same bind for a name the account has parked.
AttachReservation(a, g, n) ==
    /\ accounts[a].live /\ resv[n] = a
    /\ agents[g].owner = a
    /\ BindNickname(g, n)

\* A new agent row of account a, and the bind, if a name is asked for, that is
\* allowed to fail.
Enrol(a, g, kind, n) ==
    /\ accounts[a].live /\ ~agents[g].live
    /\ agents' = [agents EXCEPT ![g] =
           [live |-> TRUE, owner |-> a, kind |-> kind]]
    /\ IF n # NoOne /\ CanBind(g, a, n)
       THEN /\ nick' = BoundTo(g, n)
            /\ resv' = [resv EXCEPT ![n] = NoOne]
       ELSE UNCHANGED <<nick, resv>>
    /\ UNCHANGED <<accounts, hold, invited, slot>>

\* POST /register.
Register(a, g, kind, n) == kind \in {"human", "agent"} /\ Enrol(a, g, kind, n)

\* POST /register again by the owner with the enrolled key: the row may become
\* the human's, and the name is bound when it can be.
RegisterAgain(a, g, n) ==
    /\ accounts[a].live /\ g \in AgentsOf(a)
    /\ agents' = [agents EXCEPT ![g].kind = "human"]
    /\ IF n # NoOne /\ CanBind(g, a, n)
       THEN /\ nick' = BoundTo(g, n)
            /\ resv' = [resv EXCEPT ![n] = NoOne]
       ELSE UNCHANGED <<nick, resv>>
    /\ UNCHANGED <<accounts, hold, invited, slot>>

\* humanFor / ensureHumanAgent: the first request that needs the console
\* identity creates it, with the username as its first name.
EnsureHuman(a, g) ==
    /\ Humans(a) = {}
    /\ Enrol(a, g, "human", accounts[a].user)

\* POST /accounts/profile: the handle moves first, and the username only if
\* the handle could.  (humanFor has made sure there is a human.)
Rename(a, g, u) ==
    /\ accounts[a].live /\ g \in Humans(a)
    /\ \/ ~\E b \in Accounts : HasUsername(b, u)
       \/ HasUsername(a, u)
    /\ CanBind(g, a, u)
    /\ nick' = BoundTo(g, u)
    /\ resv' = [resv EXCEPT ![u] = NoOne]
    /\ accounts' = [accounts EXCEPT ![a].user = u]
    /\ UNCHANGED <<agents, hold, invited, slot>>

\* removeAgent, by the owner's route or as revokeConnector.
RemoveAgent(g) ==
    /\ agents[g].live
    /\ agents' = [agents EXCEPT ![g] = NoAgent]
    /\ nick' = WithoutAgents({g})
    /\ UNCHANGED <<accounts, resv, hold, invited, slot>>

\* createConnector: the row is created, bound, and taken back if the bind
\* fails.
CreateConnector(a, g, n) ==
    /\ CanBind(g, a, n)
    /\ Enrol(a, g, "connector", n)

\* createConnector with reclaim, from the OAuth consent page: a connector of
\* the same account that has the name is retired first.
ReclaimConnector(a, g, old, n) ==
    /\ accounts[a].live /\ ~agents[g].live
    /\ old \in AgentsOf(a) /\ agents[old].kind = "connector"
    /\ nick[n] = old
    /\ ~PreregistrationHeld(n)
    /\ resv[n] \in {NoOne, a}
    /\ agents' = [agents EXCEPT
           ![old] = NoAgent,
           ![g] = [live |-> TRUE, owner |-> a, kind |-> "connector"]]
    /\ nick' = [WithoutAgents({old}) EXCEPT ![n] = g]
    /\ resv' = [resv EXCEPT ![n] = NoOne]
    /\ UNCHANGED <<accounts, hold, invited, slot>>

-----------------------------------------------------------------------------
(* Reservations.                                                           *)

\* reserveNickname for a name that is free, under the account's limit.  The
\* account was looked up before the request's body was awaited: it may be gone.
ReserveNickname(a, n) ==
    /\ accounts[a] # NoAccount
    /\ Available(n)
    /\ Cardinality(ReservedBy(a)) < MaxReservations
    /\ resv' = [resv EXCEPT ![n] = a]
    /\ UNCHANGED <<accounts, agents, nick, hold, invited, slot>>

\* releaseReservation, as late.
ReleaseReservation(a, n) ==
    /\ resv[n] = a
    /\ resv' = [resv EXCEPT ![n] = NoOne]
    /\ UNCHANGED <<accounts, agents, nick, hold, invited, slot>>

-----------------------------------------------------------------------------
(* Holds: a mailbox asks for a handle, confirms it by mail, is invited and  *)
(* claims the handle for its account.                                      *)

\* requestReservation up to the digests of its two tokens: it purges.
AskReservation(s, e, n) ==
    /\ slot[s] = FreeSlot
    /\ hold' = PurgedHold
    /\ slot' = [PurgedSlot EXCEPT ![s] =
           [phase |-> "asking", email |-> e, name |-> n, toks |-> {}]]
    /\ UNCHANGED <<accounts, agents, nick, resv, invited>>

\* Its transaction.  A handle held for another mailbox, and another handle
\* held for this one, are refused without saying so.
OtherHold(e, n) ==
    \/ \E f \in Emails \ {e} : hold[f].name = n
    \/ hold[e].status # "none" /\ hold[e].name # n

ReservationGranted(s) ==
    LET e == slot[s].email
        n == slot[s].name
        own == hold[e].status # "none"
    IN  /\ slot[s].phase = "asking"
        /\ ~OtherHold(e, n)
        /\ own \/ Available(n)
        /\ hold' = IF own THEN hold ELSE
               [hold EXCEPT ![e] = [status |-> "pending", name |-> n, live |-> TRUE]]
        /\ slot' = [slot EXCEPT ![s].phase = "mailing",
               ![s].toks = IF own THEN {"verify"} ELSE {"verify", "pending-cancel"}]
        /\ UNCHANGED <<accounts, agents, nick, resv, invited>>

ReservationDenied(s) ==
    LET e == slot[s].email
        n == slot[s].name
    IN  /\ slot[s].phase = "asking"
        /\ OtherHold(e, n) \/ (hold[e].status = "none" /\ ~Available(n))
        /\ slot' = [slot EXCEPT ![s] = FreeSlot]
        /\ UNCHANGED <<accounts, agents, nick, resv, hold, invited>>

MailSent(s) ==
    /\ slot[s].phase = "mailing"
    /\ slot' = [slot EXCEPT ![s] = Ended(slot[s], slot[s].toks)]
    /\ UNCHANGED <<accounts, agents, nick, resv, hold, invited>>

\* The mail service refuses or times out: the link is withdrawn, and the hold
\* too when this request created it and no other mail can still confirm it.
MailFailed(s) ==
    LET e == slot[s].email
        mine == /\ "pending-cancel" \in slot[s].toks
                /\ ~\E r \in Slots \ {s} : slot[r].email = e /\ "verify" \in slot[r].toks
        drop == IF mine THEN {"verify", "pending-cancel"} ELSE {"verify"}
    IN  /\ slot[s].phase = "mailing"
        /\ hold' = IF mine /\ hold[e].status = "pending"
                   THEN [hold EXCEPT ![e] = NoHold] ELSE hold
        /\ slot' = [slot EXCEPT ![s] = Ended(slot[s], slot[s].toks \ drop)]
        /\ UNCHANGED <<accounts, agents, nick, resv, invited>>

\* verify: the link of slot r is used.  Its transaction purges, so a hold that
\* has run out is not revived; the cancel link goes to slot s, and a mailbox
\* that is already invited is sent its invitation at once.
Verify(r, s) ==
    LET e == slot[r].email
    IN  /\ "verify" \in slot[r].toks
        /\ slot[s] = FreeSlot
        /\ PurgedHold[e].status # "none" /\ PurgedHold[e].name = slot[r].name
        /\ hold' = IF hold[e].status = "pending"
                   THEN [PurgedHold EXCEPT ![e].status = "verified"] ELSE PurgedHold
        /\ slot' = [PurgedSlot EXCEPT
               ![r] = Settled([slot[r] EXCEPT !.toks = @ \ {"verify"}]),
               ![s] = [phase |-> IF e \in invited THEN "inviting" ELSE "idle",
                       email |-> e, name |-> slot[r].name, toks |-> {"cancel"}]]
        /\ UNCHANGED <<accounts, agents, nick, resv, invited>>

\* POST /admin/invites and invite() up to the digest of the claim token.
AdminInvite(s, e) ==
    /\ slot[s] = FreeSlot
    /\ Cardinality(invited \cup {e}) <= MaxInvited
    /\ invited' = invited \cup {e}
    /\ hold' = PurgedHold
    /\ slot' = IF PurgedHold[e].status \in {"verified", "invited"}
               THEN [PurgedSlot EXCEPT ![s] = [phase |-> "inviting",
                        email |-> e, name |-> hold[e].name, toks |-> {}]]
               ELSE PurgedSlot
    /\ UNCHANGED <<accounts, agents, nick, resv>>

\* invite()'s transaction looks again at the hold it read before the digest.
Invite(s) ==
    LET e == slot[s].email
        current == /\ hold[e].status \in {"verified", "invited"}
                   /\ hold[e].live
                   /\ hold[e].name = slot[s].name
    IN  /\ slot[s].phase = "inviting"
        /\ hold' = IF current THEN [hold EXCEPT ![e].status = "invited"] ELSE hold
        /\ slot' = [slot EXCEPT ![s] = Ended(slot[s],
               slot[s].toks \cup (IF current THEN {"claim"} ELSE {}))]
        /\ UNCHANGED <<accounts, agents, nick, resv, invited>>

\* cancel: by the link of a verified mailbox, or by the browser that asked,
\* while the hold is pending.  It purges first, in the same transaction.
Cancel(s) ==
    LET e == slot[s].email
    IN  /\ e \notin Expired
        /\ \/ "cancel" \in slot[s].toks
           \/ /\ "pending-cancel" \in slot[s].toks /\ slot[s].phase = "idle"
              /\ hold[e].status = "pending" /\ hold[e].name = slot[s].name
        /\ hold' = [PurgedHold EXCEPT ![e] = NoHold]
        /\ slot' = WithoutLinks(slot, Expired \cup {e})
        /\ UNCHANGED <<accounts, agents, nick, resv, invited>>

\* claim: the hold becomes a reservation of the account of its mailbox, or
\* the whole transaction is undone.
Claim(s, a) ==
    LET e == slot[s].email
        n == slot[s].name
    IN  /\ "claim" \in slot[s].toks
        /\ HasEmail(a, e) /\ e \in invited
        /\ hold[e].status = "invited" /\ hold[e].live /\ hold[e].name = n
        /\ \/ resv[n] = a
           \/ nick[n] = NoOne /\ resv[n] = NoOne
              /\ Cardinality(ReservedBy(a)) < MaxReservations
        /\ hold' = [hold EXCEPT ![e] = NoHold]
        /\ resv' = [resv EXCEPT ![n] = a]
        /\ slot' = WithoutLinks(slot, {e})
        /\ UNCHANGED <<accounts, agents, nick, invited>>

\* alarm() purges whatever has expired.
Purge ==
    /\ Expired # {}
    /\ hold' = PurgedHold
    /\ slot' = PurgedSlot
    /\ UNCHANGED <<accounts, agents, nick, resv, invited>>

\* Time: a hold passes its deadline, and the claim link that shares it; or the
\* links with a day's life pass theirs.  (They live for hours, the awaits of
\* the request that stores them for seconds.)
HoldExpires(e) ==
    /\ hold[e].live
    /\ hold' = [hold EXCEPT ![e].live = FALSE]
    /\ UNCHANGED <<accounts, agents, nick, resv, invited, slot>>

DayLinksExpire(s) ==
    /\ slot[s].phase = "idle" /\ slot[s].toks \ {"claim"} # {}
    /\ slot' = [slot EXCEPT ![s] = Ended(slot[s], slot[s].toks \cap {"claim"})]
    /\ UNCHANGED <<accounts, agents, nick, resv, hold, invited>>

-----------------------------------------------------------------------------
Init ==
    /\ accounts = [a \in Accounts |-> NoAccount]
    /\ agents = [g \in Agents |-> NoAgent]
    /\ nick = [n \in Names |-> NoOne]
    /\ resv = [n \in Names |-> NoOne]
    /\ hold = [e \in Emails |-> NoHold]
    /\ invited = {}
    /\ slot = [s \in Slots |-> FreeSlot]

AccountNext ==
    \/ \E s \in Slots, u \in Names, e \in Emails : SignupChecked(s, u, e)
    \/ \E s \in Slots, a \in Accounts : SignupInserted(s, a)
    \/ \E s \in Slots : SignupRefused(s)
    \/ \E a \in Accounts : DeleteAccount(a)

AgentNext ==
    \/ \E g \in Agents, n \in Names : BindNickname(g, n)
    \/ \E a \in Accounts, g \in Agents, n \in Names : AttachReservation(a, g, n)
    \/ \E a \in Accounts, g \in Agents, k \in Kinds, n \in Names \cup {NoOne} :
           Register(a, g, k, n)
    \/ \E a \in Accounts, g \in Agents, n \in Names \cup {NoOne} :
           RegisterAgain(a, g, n)
    \/ \E a \in Accounts, g \in Agents : EnsureHuman(a, g)
    \/ \E a \in Accounts, g \in Agents, u \in Names : Rename(a, g, u)
    \/ \E g \in Agents : RemoveAgent(g)
    \/ \E a \in Accounts, g \in Agents, n \in Names : CreateConnector(a, g, n)
    \/ \E a \in Accounts, g, old \in Agents, n \in Names :
           ReclaimConnector(a, g, old, n)
    \/ \E a \in Accounts, n \in Names : ReserveNickname(a, n)
    \/ \E a \in Accounts, n \in Names : ReleaseReservation(a, n)

HoldNext ==
    \/ \E s \in Slots, e \in Emails, n \in Names : AskReservation(s, e, n)
    \/ \E s \in Slots : ReservationGranted(s)
    \/ \E s \in Slots : ReservationDenied(s)
    \/ \E s \in Slots : MailSent(s)
    \/ \E s \in Slots : MailFailed(s)
    \/ \E r, s \in Slots : Verify(r, s)
    \/ \E s \in Slots, e \in Emails : AdminInvite(s, e)
    \/ \E s \in Slots : Invite(s)
    \/ \E s \in Slots : Cancel(s)
    \/ \E s \in Slots, a \in Accounts : Claim(s, a)
    \/ Purge
    \/ \E e \in Emails : HoldExpires(e)
    \/ \E s \in Slots : DayLinksExpire(s)

Next == AccountNext \/ AgentNext \/ HoldNext

Spec == Init /\ [][Next]_vars

-----------------------------------------------------------------------------
(* What the namespace promises.                                            *)

\* A name has at most one holder over the three tables: an agent it is bound
\* to, an account it is parked for, or a mailbox with an unexpired hold
\* (db.ts: "Reservations share the namespace").  The database enforces it in
\* no way; the checks are spread over five functions and two awaits.
NameSingleHolder ==
    \A n \in Names :
        /\ nick[n] = NoOne \/ resv[n] = NoOne
        /\ PreregistrationHeld(n) => nick[n] = NoOne /\ resv[n] = NoOne
        /\ \A e, f \in Emails : hold[e].name = n /\ hold[f].name = n => e = f

\* A mailed link that still works is about the hold its mailbox has now.
\* cancel deletes by mailbox without comparing names, so a link that outlived
\* its hold would cancel a later one.
LinksMatchHold ==
    \A s \in Slots : slot[s].toks # {} =>
        hold[slot[s].email].status # "none" /\ hold[slot[s].email].name = slot[s].name

\* A confirmed hold ends as a reservation of an account with its mailbox or
\* leaves the name free: no step hands the name to anybody else.
HeldForItsMailbox ==
    [][\A e \in Emails :
           hold[e].status \in {"verified", "invited"} /\ hold[e].live
               /\ hold'[e].status = "none"
           => LET n == hold[e].name
              IN  nick'[n] = NoOne
                  /\ (resv'[n] = NoOne \/ HasEmail(resv'[n], e))]_vars

\* An account never starts with a username under a hold, although the hold
\* may be created while its password is being hashed.
UsernameRespectsHold ==
    [][\A a \in Accounts :
           ~accounts[a].live /\ accounts'[a].live
           => ~\E e \in Emails : hold'[e].live /\ hold'[e].name = accounts'[a].user]_vars

\* The strengthening that makes LinksMatchHold inductive: a request has no
\* links before its transaction, a pending hold has neither cancel nor claim
\* links, and at most one browser can withdraw it.
LinkShape ==
    /\ \A s \in Slots :
        /\ slot[s].phase \in {"signup", "asking"} => slot[s].toks = {}
        /\ slot[s].phase = "mailing" => slot[s].toks \subseteq {"verify", "pending-cancel"}
        /\ slot[s].toks \cap {"cancel", "claim"} # {} => hold[slot[s].email].status # "pending"
    /\ \A r, s \in Slots :
        "pending-cancel" \in slot[r].toks \cap slot[s].toks /\ slot[r].email = slot[s].email => r = s

IInv == TypeOK /\ NameSingleHolder /\ LinksMatchHold /\ LinkShape

=============================================================================
