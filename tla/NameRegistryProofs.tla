------------------------- MODULE NameRegistryProofs -------------------------
(***************************************************************************)
(* Theorems about NameRegistry, for any accounts, agents, names, mailboxes *)
(* and requests.  The steps fall in two groups: those on agents and their  *)
(* names, which leave the holds and their links alone, and those on holds, *)
(* which leave the agents alone.                                           *)
(***************************************************************************)
EXTENDS NameRegistry, TLAPS

USE RegistryConstants

AccountRows == {NoAccount, GoneAccount} \cup [live : {TRUE}, user : Names, email : Emails]
AgentRows   == {NoAgent} \cup [live : {TRUE}, owner : Accounts, kind : Kinds]
HoldRows    == {NoHold} \cup [status : Statuses, name : Names, live : BOOLEAN]
Requests    == [phase : Phases, email : Emails, name : Names, toks : SUBSET Purposes]
SlotRows    == {FreeSlot} \cup {r \in Requests : ~(r.phase = "idle" /\ r.toks = {})}

\* The type invariant, a conjunct per table.
LEMMA Tables ==
  TypeOK <=> /\ accounts \in [Accounts -> AccountRows]
             /\ agents \in [Agents -> AgentRows]
             /\ nick \in [Names -> Agents \cup {NoOne}]
             /\ resv \in [Names -> Accounts \cup {NoOne}]
             /\ hold \in [Emails -> HoldRows]
             /\ invited \subseteq Emails
             /\ slot \in [Slots -> SlotRows]
  <1>1. /\ slot \in [Slots -> {FreeSlot} \cup Requests]
        /\ \A s \in Slots : slot[s].phase = "idle" /\ slot[s].toks = {} => slot[s] = FreeSlot
        <=> slot \in [Slots -> SlotRows]
    BY DEF SlotRows, Requests, FreeSlot
  <1> QED BY <1>1 DEF TypeOK, AccountRows, AgentRows, HoldRows, Requests

\* What the slot helpers return.
LEMMA SettledRow ==
  ASSUME NEW r \in Requests
  PROVE  Settled(r) \in SlotRows /\ Settled(r).toks = r.toks /\ (r.toks # {} => Settled(r) = r)
  BY DEF Settled, SlotRows, Requests, FreeSlot

LEMMA SlotRowTyped ==
  ASSUME NEW r \in SlotRows
  PROVE  /\ r.toks \subseteq Purposes /\ r.phase \in Phases
         /\ r # FreeSlot => r \in Requests
         /\ r.toks # {} \/ r.phase # "idle" => r \in Requests
         /\ r.email \in Emails => r \in Requests
  BY DEF SlotRows, Requests, FreeSlot, Phases

LEMMA WithoutLinksRow ==
  ASSUME NEW sl \in [Slots -> SlotRows], NEW es \in SUBSET Emails
  PROVE  /\ WithoutLinks(sl, es) \in [Slots -> SlotRows]
         /\ \A s \in Slots :
              /\ sl[s].email \in es => WithoutLinks(sl, es)[s].toks = {}
              /\ sl[s].email \notin es => WithoutLinks(sl, es)[s] = sl[s]
              /\ WithoutLinks(sl, es)[s] = FreeSlot
                 \/ /\ WithoutLinks(sl, es)[s].email = sl[s].email
                    /\ WithoutLinks(sl, es)[s].name = sl[s].name
                    /\ WithoutLinks(sl, es)[s].phase = sl[s].phase
              /\ WithoutLinks(sl, es)[s].toks \subseteq sl[s].toks
  <1>1. ASSUME NEW s \in Slots, sl[s].email \in es
        PROVE  /\ [sl[s] EXCEPT !.toks = {}] \in Requests
               /\ Settled([sl[s] EXCEPT !.toks = {}]) \in SlotRows
               /\ Settled([sl[s] EXCEPT !.toks = {}]).toks = {}
               /\ \/ Settled([sl[s] EXCEPT !.toks = {}]) = FreeSlot
                  \/ Settled([sl[s] EXCEPT !.toks = {}]) = [sl[s] EXCEPT !.toks = {}]
    <2>1. sl[s] \in Requests
      BY <1>1, SlotRowTyped
    <2>2. [sl[s] EXCEPT !.toks = {}] \in Requests /\ [sl[s] EXCEPT !.toks = {}].toks = {}
      BY <2>1 DEF Requests
    <2> QED BY <2>2, SettledRow DEF Settled
  <1>2. ASSUME NEW s \in Slots, sl[s].email \in es
        PROVE  sl[s] \in Requests
    BY <1>2, SlotRowTyped
  <1>3. ASSUME NEW s \in Slots
        PROVE  sl[s] \in SlotRows /\ sl[s].toks \subseteq sl[s].toks
    OBVIOUS
  <1> DEFINE w == WithoutLinks(sl, es)
  <1>4. w = [s \in Slots |-> IF sl[s].email \in es
                     THEN Settled([sl[s] EXCEPT !.toks = {}]) ELSE sl[s]]
    BY DEF WithoutLinks
  <1>5. \A s \in Slots : w[s] = IF sl[s].email \in es
                     THEN Settled([sl[s] EXCEPT !.toks = {}]) ELSE sl[s]
    BY <1>4
  <1>6. w \in [Slots -> SlotRows]
    BY <1>1, <1>4, <1>3
  <1>7. ASSUME NEW s \in Slots
        PROVE /\ sl[s].email \in es => w[s].toks = {}
              /\ sl[s].email \notin es => w[s] = sl[s]
              /\ w[s] = FreeSlot
                 \/ /\ w[s].email = sl[s].email
                    /\ w[s].name = sl[s].name
                    /\ w[s].phase = sl[s].phase
              /\ w[s].toks \subseteq sl[s].toks
    <2>1. CASE sl[s].email \in es
      <3>1. w[s] = FreeSlot \/ w[s] = [sl[s] EXCEPT !.toks = {}]
        BY <1>1, <1>5, <2>1
      <3>2. w[s].toks = {}
        BY <1>1, <1>5, <2>1
      <3>3. [sl[s] EXCEPT !.toks = {}].email = sl[s].email
            /\ [sl[s] EXCEPT !.toks = {}].name = sl[s].name
            /\ [sl[s] EXCEPT !.toks = {}].phase = sl[s].phase
        BY <1>2, <2>1 DEF Requests
      <3> QED BY <3>1, <3>2, <3>3, <2>1
    <2>2. CASE sl[s].email \notin es
      BY <1>5, <2>2
    <2> QED BY <2>1, <2>2
  <1> HIDE DEF w
  <1>8. QED BY <1>6, <1>7 DEF w

LEMMA PurgedRows ==
  ASSUME hold \in [Emails -> HoldRows], slot \in [Slots -> SlotRows]
  PROVE  /\ PurgedHold \in [Emails -> HoldRows]
         /\ PurgedSlot \in [Slots -> SlotRows]
         /\ Expired \subseteq Emails
         /\ \A e \in Emails : PurgedHold[e] = IF e \in Expired THEN NoHold ELSE hold[e]
         /\ \A e \in Emails : PurgedHold[e].status # "none" => hold[e].live /\ PurgedHold[e] = hold[e]
         /\ \A e \in Emails : hold[e].live => PurgedHold[e] = hold[e]
  <1>1. Expired \subseteq Emails
    BY DEF Expired
  <1>2. PurgedSlot \in [Slots -> SlotRows]
    BY <1>1, WithoutLinksRow DEF PurgedSlot
  <1>3. PurgedHold = [e \in Emails |-> IF e \in Expired THEN NoHold ELSE hold[e]]
    BY DEF PurgedHold
  <1>4. PurgedHold \in [Emails -> HoldRows]
    BY <1>3 DEF HoldRows
  <1>5. \A e \in Emails : PurgedHold[e] = IF e \in Expired THEN NoHold ELSE hold[e]
    BY <1>3
  <1>6. \A e \in Emails : e \in Expired <=> hold[e].status # "none" /\ ~hold[e].live
    BY DEF Expired
  <1>7. NoHold.status = "none"
    BY DEF NoHold
  <1> QED BY <1>1, <1>2, <1>4, <1>5, <1>6, <1>7

\* A row that is live is a full row.
LEMMA LiveAgent ==
  ASSUME NEW r \in AgentRows, r.live
  PROVE  r \in [live : {TRUE}, owner : Accounts, kind : Kinds]
  <1>1. r # NoAgent
    <2>1. ~NoAgent.live
      BY DEF NoAgent
    <2> QED BY <2>1
  <1> QED BY <1>1 DEF AgentRows

LEMMA LiveAccount ==
  ASSUME NEW r \in AccountRows, r.live
  PROVE  r \in [live : {TRUE}, user : Names, email : Emails]
  <1>1. r \notin {NoAccount, GoneAccount}
    <2>1. ~NoAccount.live /\ ~GoneAccount.live
      BY DEF NoAccount, GoneAccount
    <2> QED BY <2>1
  <1> QED BY <1>1 DEF AccountRows

-----------------------------------------------------------------------------
\* Agents and their names: what a bind does, when it is allowed.
LEMMA BindKeepsHolders ==
  ASSUME TypeOK, NameSingleHolder, NEW g \in Agents, NEW owner \in Accounts, NEW n \in Names,
         CanBind(g, owner, n)
  PROVE  /\ BoundTo(g, n) \in [Names -> Agents \cup {NoOne}]
         /\ [resv EXCEPT ![n] = NoOne] \in [Names -> Accounts \cup {NoOne}]
         /\ BoundTo(g, n)[n] = g /\ [resv EXCEPT ![n] = NoOne][n] = NoOne
         /\ \A m \in Names \ {n} : /\ BoundTo(g, n)[m] \in {nick[m], NoOne}
                                   /\ BoundTo(g, n)[m] # g
                                   /\ [resv EXCEPT ![n] = NoOne][m] = resv[m]
         /\ \A e \in Emails : hold[e].name = n => ~hold[e].live
  <1> USE Tables
  <1>1. BoundTo(g, n) \in [Names -> Agents \cup {NoOne}]
        /\ BoundTo(g, n)[n] = g
        /\ \A m \in Names \ {n} : BoundTo(g, n)[m] \in {nick[m], NoOne} /\ BoundTo(g, n)[m] # g
    BY DEF BoundTo
  <1>2. [resv EXCEPT ![n] = NoOne] \in [Names -> Accounts \cup {NoOne}]
        /\ [resv EXCEPT ![n] = NoOne][n] = NoOne
        /\ \A m \in Names \ {n} : [resv EXCEPT ![n] = NoOne][m] = resv[m]
    OBVIOUS
  <1>3. \A e \in Emails : hold[e].name = n => ~hold[e].live
    BY DEF CanBind, PreregistrationHeld
  <1> QED BY <1>1, <1>2, <1>3

\* A bind, or none, on top of unchanged holds keeps one holder for each name.
LEMMA BindStep ==
  ASSUME TypeOK, NameSingleHolder, NEW g \in Agents, NEW owner \in Accounts, NEW n \in Names,
         CanBind(g, owner, n), nick' = BoundTo(g, n), resv' = [resv EXCEPT ![n] = NoOne], hold' = hold
  PROVE  /\ nick' \in [Names -> Agents \cup {NoOne}]
         /\ resv' \in [Names -> Accounts \cup {NoOne}]
         /\ NameSingleHolder'
  BY BindKeepsHolders DEF NameSingleHolder, PreregistrationHeld

\* What a step on agents and names owes.
NamesKept ==
    /\ accounts' \in [Accounts -> AccountRows]
    /\ agents' \in [Agents -> AgentRows]
    /\ nick' \in [Names -> Agents \cup {NoOne}]
    /\ resv' \in [Names -> Accounts \cup {NoOne}]
    /\ NameSingleHolder'
    /\ hold' = hold /\ slot' = slot /\ invited' = invited

\* Every step on agents and names leaves holds and links alone.
LEMMA AgentStep ==
  ASSUME TypeOK, NameSingleHolder, AgentNext
  PROVE  /\ TypeOK' /\ NameSingleHolder'
         /\ hold' = hold /\ slot' = slot
  <1> SUFFICES NamesKept
    BY DEF TypeOK, NamesKept, AccountRows, AgentRows
  <1> USE Tables DEF NamesKept
  <1>1. ASSUME NEW g \in Agents, NEW n \in Names, BindNickname(g, n)
        PROVE  NamesKept
    <2>1. agents[g] \in AgentRows /\ agents[g].live
      BY <1>1 DEF BindNickname
    <2>2. agents[g].owner \in Accounts
      BY <2>1, LiveAgent
    <2> QED BY <1>1, <2>2, BindStep DEF BindNickname
  <1>2. ASSUME NEW a \in Accounts, NEW g \in Agents, NEW k \in Kinds, NEW n \in Names \cup {NoOne},
               Enrol(a, g, k, n)
        PROVE  NamesKept
    <2>1. agents' \in [Agents -> AgentRows]
      BY <1>2 DEF Enrol, AgentRows
    <2>2. CASE n # NoOne /\ CanBind(g, a, n)
      BY <1>2, <2>1, <2>2, BindStep DEF Enrol
    <2>3. CASE ~(n # NoOne /\ CanBind(g, a, n))
      BY <1>2, <2>1, <2>3 DEF Enrol, NameSingleHolder, PreregistrationHeld
    <2> QED BY <2>2, <2>3
  <1>3. ASSUME NEW a \in Accounts, NEW g \in Agents, NEW n \in Names \cup {NoOne},
               RegisterAgain(a, g, n)
        PROVE  NamesKept
    <2>1. agents' \in [Agents -> AgentRows]
      <3>0. agents[g] \in AgentRows /\ agents[g].live
        BY <1>3 DEF RegisterAgain, AgentsOf
      <3>1. agents[g] \in [live : {TRUE}, owner : Accounts, kind : Kinds]
        BY <3>0, LiveAgent
      <3>2. [agents[g] EXCEPT !.kind = "human"] \in AgentRows
        BY <3>1 DEF AgentRows, Kinds
      <3> QED BY <1>3, <3>2 DEF RegisterAgain
    <2>2. CASE n # NoOne /\ CanBind(g, a, n)
      BY <1>3, <2>1, <2>2, BindStep DEF RegisterAgain
    <2>3. CASE ~(n # NoOne /\ CanBind(g, a, n))
      BY <1>3, <2>1, <2>3 DEF RegisterAgain, NameSingleHolder, PreregistrationHeld
    <2> QED BY <2>2, <2>3
  <1>4. ASSUME NEW a \in Accounts, NEW g \in Agents, NEW u \in Names, Rename(a, g, u)
        PROVE  NamesKept
    <2>1. accounts' \in [Accounts -> AccountRows]
      <3>0. accounts[a] \in AccountRows /\ accounts[a].live
        BY <1>4 DEF Rename
      <3>1. accounts[a] \in [live : {TRUE}, user : Names, email : Emails]
        BY <3>0, LiveAccount
      <3>2. [accounts[a] EXCEPT !.user = u] \in AccountRows
        BY <3>1 DEF AccountRows
      <3> QED BY <1>4, <3>2 DEF Rename
    <2> QED BY <1>4, <2>1, BindStep DEF Rename
  <1>5. ASSUME NEW g \in Agents, RemoveAgent(g)
        PROVE  NamesKept
    BY <1>5 DEF RemoveAgent, WithoutAgents, AgentRows, NameSingleHolder, PreregistrationHeld
  <1>6. ASSUME NEW a \in Accounts, NEW g \in Agents, NEW old \in Agents, NEW n \in Names,
               ReclaimConnector(a, g, old, n)
        PROVE  NamesKept
    <2>1. accounts' \in [Accounts -> AccountRows] /\ agents' \in [Agents -> AgentRows]
      BY <1>6 DEF ReclaimConnector, AgentRows, Kinds
    <2>2. /\ nick' \in [Names -> Agents \cup {NoOne}] /\ resv' \in [Names -> Accounts \cup {NoOne}]
          /\ nick'[n] = g /\ resv'[n] = NoOne
          /\ \A m \in Names \ {n} : nick'[m] \in {nick[m], NoOne} /\ resv'[m] = resv[m]
      BY <1>6 DEF ReclaimConnector, WithoutAgents
    <2>3. hold' = hold /\ slot' = slot /\ invited' = invited
          /\ \A e \in Emails : hold[e].name = n => ~hold[e].live
      BY <1>6 DEF ReclaimConnector, PreregistrationHeld
    <2>4. NameSingleHolder'
      BY <2>2, <2>3 DEF NameSingleHolder, PreregistrationHeld
    <2> QED BY <2>1, <2>2, <2>3, <2>4
  <1>7. ASSUME NEW a \in Accounts, NEW n \in Names, ReserveNickname(a, n)
        PROVE  NamesKept
    BY <1>7 DEF ReserveNickname, Available, NameSingleHolder, PreregistrationHeld
  <1>8. ASSUME NEW a \in Accounts, NEW n \in Names, ReleaseReservation(a, n)
        PROVE  NamesKept
    BY <1>8 DEF ReleaseReservation, NameSingleHolder, PreregistrationHeld
  <1>9. ASSUME NEW a \in Accounts, NEW g \in Agents, EnsureHuman(a, g)
        PROVE  Enrol(a, g, "human", accounts[a].user)
               /\ accounts[a].user \in Names \cup {NoOne}
    <2>1. accounts[a] \in AccountRows
      OBVIOUS
    <2>2. accounts[a].user \in Names \cup {NoOne}
      <3>1. CASE accounts[a] = NoAccount
        BY <3>1 DEF NoAccount
      <3>2. CASE accounts[a] = GoneAccount
        BY <3>2 DEF GoneAccount
      <3>3. CASE accounts[a] \notin {NoAccount, GoneAccount}
        BY <2>1, <3>3 DEF AccountRows
      <3> QED BY <3>1, <3>2, <3>3
    <2> QED BY <1>9, <2>2 DEF EnsureHuman
  <1>10. {"human", "agent", "connector"} = Kinds
    BY DEF Kinds
  <1> QED
    BY <1>1, <1>2, <1>3, <1>4, <1>5, <1>6, <1>7, <1>8, <1>9, <1>10
       DEF AgentNext, AttachReservation, Register, CreateConnector

-----------------------------------------------------------------------------
\* A row of the holds.
LEMMA HoldRow ==
  ASSUME NEW r \in HoldRows
  PROVE  /\ r.status # "none" => r.name \in Names /\ r.live \in BOOLEAN /\ r.status \in Statuses
         /\ r.live => r.status # "none"
         /\ r.name \in Names => r.status # "none"
         /\ r.status = "none" => r = NoHold
         /\ r.name \in Names \cup {NoOne}
  <1>1. CASE r = NoHold
    <2>1. NoHold.status = "none" /\ ~NoHold.live /\ NoHold.name = NoOne
      BY DEF NoHold
    <2> QED BY <1>1, <2>1
  <1>2. CASE r # NoHold
    BY <1>2 DEF HoldRows, Statuses
  <1> QED BY <1>1, <1>2

\* LinksMatchHold and LinkShape as a relation between any holds and slots, so
\* that a step can be taken in two: what it purges, and the slots it writes.
RowFits(h, r) ==
    /\ r.toks # {} => h[r.email].status # "none" /\ h[r.email].name = r.name
    /\ r.phase \in {"signup", "asking"} => r.toks = {}
    /\ r.phase = "mailing" => r.toks \subseteq {"verify", "pending-cancel"}
    /\ r.toks \cap {"cancel", "claim"} # {} => h[r.email].status # "pending"

Withdrawable(r, e) == "pending-cancel" \in r.toks /\ r.email = e

LinksFit(h, sl) ==
    /\ \A s \in Slots : RowFits(h, sl[s])
    /\ \A r, s \in Slots, e \in Emails : Withdrawable(sl[r], e) /\ Withdrawable(sl[s], e) => r = s

LEMMA FitIsInv ==
  ASSUME slot \in [Slots -> SlotRows]
  PROVE  LinksFit(hold, slot) <=> LinksMatchHold /\ LinkShape
  <1>1. ASSUME NEW s \in Slots, slot[s].toks # {}
        PROVE  slot[s].email \in Emails
    BY <1>1, SlotRowTyped DEF Requests
  <1>2. (\A s \in Slots : RowFits(hold, slot[s])) <=>
          /\ LinksMatchHold
          /\ \A s \in Slots :
               /\ slot[s].phase \in {"signup", "asking"} => slot[s].toks = {}
               /\ slot[s].phase = "mailing" => slot[s].toks \subseteq {"verify", "pending-cancel"}
               /\ slot[s].toks \cap {"cancel", "claim"} # {} => hold[slot[s].email].status # "pending"
    BY DEF RowFits, LinksMatchHold
  <1>3. (\A r, s \in Slots, e \in Emails : Withdrawable(slot[r], e) /\ Withdrawable(slot[s], e) => r = s)
        <=> \A r, s \in Slots :
              "pending-cancel" \in slot[r].toks \cap slot[s].toks /\ slot[r].email = slot[s].email => r = s
    BY <1>1 DEF Withdrawable
  <1> QED BY <1>2, <1>3 DEF LinksFit, LinkShape

\* A hold that is as before, as far as its links can tell.
SameHold(x, y) ==
    y.status # "none" /\ y.name = x.name /\ (y.status = "pending" => x.status = "pending")

\* Links that are void together with the holds that change.
LEMMA VoidedFit ==
  ASSUME NEW h \in [Emails -> HoldRows], NEW h2 \in [Emails -> HoldRows],
         NEW sl \in [Slots -> SlotRows], LinksFit(h, sl),
         NEW es \in SUBSET Emails, \A e \in Emails \ es : h2[e] = h[e]
  PROVE  LinksFit(h2, WithoutLinks(sl, es))
  <1> DEFINE w == WithoutLinks(sl, es)
  <1>1. \A s \in Slots : /\ sl[s].email \in es => w[s].toks = {}
                         /\ sl[s].email \notin es => w[s] = sl[s]
    BY WithoutLinksRow
  <1>2. \A s \in Slots : w[s].toks # {} => w[s] = sl[s] /\ sl[s].email \in Emails \ es
    <2> SUFFICES ASSUME NEW s \in Slots, w[s].toks # {}
                 PROVE  w[s] = sl[s] /\ sl[s].email \in Emails \ es
      OBVIOUS
    <2>1. sl[s].email \notin es /\ w[s] = sl[s]
      BY <1>1
    <2>2. sl[s] \in Requests
      BY <2>1, SlotRowTyped
    <2> QED BY <2>1, <2>2 DEF Requests
  <1> HIDE DEF w
  <1>3. ASSUME NEW s \in Slots
        PROVE  RowFits(h2, w[s])
    <2>1. CASE w[s].toks = {}
      BY <2>1 DEF RowFits
    <2>2. CASE w[s].toks # {}
      BY <1>2, <2>2 DEF LinksFit, RowFits
    <2> QED BY <2>1, <2>2
  <1>4. ASSUME NEW r \in Slots, NEW s \in Slots, NEW e \in Emails,
               Withdrawable(w[r], e), Withdrawable(w[s], e)
        PROVE  r = s
    BY <1>2, <1>4 DEF LinksFit, Withdrawable
  <1>5. LinksFit(h2, w)
    BY <1>3, <1>4 DEF LinksFit
  <1> QED BY <1>5 DEF w

\* One slot is written: its new row must fit, and the holds of the other links
\* stay as they are.
LEMMA WrittenFit ==
  ASSUME NEW h \in [Emails -> HoldRows], NEW h2 \in [Emails -> HoldRows],
         NEW sl \in [Slots -> SlotRows], LinksFit(h, sl),
         NEW s \in Slots, NEW x \in SlotRows, RowFits(h2, x),
         \A t \in Slots \ {s} : sl[t].toks = {} \/ SameHold(h[sl[t].email], h2[sl[t].email]),
         \A t \in Slots \ {s}, e \in Emails : ~(Withdrawable(x, e) /\ Withdrawable(sl[t], e))
  PROVE  /\ LinksFit(h2, [sl EXCEPT ![s] = x])
         /\ [sl EXCEPT ![s] = x] \in [Slots -> SlotRows]
  <1> DEFINE w == [sl EXCEPT ![s] = x]
  <1>1. w \in [Slots -> SlotRows] /\ w[s] = x /\ \A t \in Slots \ {s} : w[t] = sl[t]
    OBVIOUS
  <1> HIDE DEF w
  <1>2. ASSUME NEW t \in Slots
        PROVE  RowFits(h2, w[t])
    <2>1. CASE t = s
      BY <1>1, <2>1
    <2>2. CASE t # s /\ sl[t].toks = {}
      BY <1>1, <2>2 DEF RowFits
    <2>3. CASE t # s /\ sl[t].toks # {}
      <3>1. SameHold(h[sl[t].email], h2[sl[t].email]) /\ RowFits(h, sl[t]) /\ w[t] = sl[t]
        BY <1>1, <2>3 DEF LinksFit
      <3> QED BY <3>1, <2>3 DEF RowFits, SameHold
    <2> QED BY <2>1, <2>2, <2>3
  <1>3. ASSUME NEW r \in Slots, NEW t \in Slots, NEW e \in Emails,
               Withdrawable(w[r], e), Withdrawable(w[t], e)
        PROVE  r = t
    <2>1. CASE r = s /\ t # s
      BY <1>1, <1>3, <2>1
    <2>2. CASE r # s /\ t = s
      BY <1>1, <1>3, <2>2
    <2>3. CASE r # s /\ t # s
      BY <1>1, <1>3, <2>3 DEF LinksFit
    <2> QED BY <2>1, <2>2, <2>3
  <1>4. LinksFit(h2, w)
    BY <1>2, <1>3 DEF LinksFit
  <1> QED BY <1>1, <1>4 DEF w

\* Holds that only end, or keep their name: names keep their one holder.
LEMMA HoldersShrink ==
  ASSUME TypeOK, NameSingleHolder,
         \A n \in Names : nick'[n] \in {nick[n], NoOne} /\ resv'[n] \in {resv[n], NoOne},
         \A e \in Emails : \/ hold'[e] = NoHold
                           \/ hold'[e].name = hold[e].name /\ (hold'[e].live => hold[e].live)
  PROVE  NameSingleHolder'
  <1>1. NoHold.name = NoOne
    BY DEF NoHold
  <1> QED BY <1>1 DEF NameSingleHolder, PreregistrationHeld

-----------------------------------------------------------------------------
\* What a step on accounts, requests and holds owes.
RequestsKept ==
    /\ accounts' \in [Accounts -> AccountRows]
    /\ agents' \in [Agents -> AgentRows]
    /\ nick' \in [Names -> Agents \cup {NoOne}]
    /\ resv' \in [Names -> Accounts \cup {NoOne}]
    /\ hold' \in [Emails -> HoldRows]
    /\ invited' \subseteq Emails
    /\ slot' \in [Slots -> SlotRows]
    /\ NameSingleHolder'
    /\ LinksFit(hold', slot')

\* A slot with no links fits any holds.
LEMMA LinklessFits ==
  ASSUME NEW h, NEW x, x.toks = {}
  PROVE  RowFits(h, x) /\ \A e \in Emails : ~Withdrawable(x, e)
  BY DEF RowFits, Withdrawable

LEMMA FreeRow ==
  FreeSlot \in SlotRows /\ FreeSlot.toks = {} /\ FreeSlot.phase = "idle"
  BY DEF FreeSlot, SlotRows

LEMMA SameHoldRefl ==
  ASSUME NEW h, NEW sl, LinksFit(h, sl), NEW t \in Slots
  PROVE  sl[t].toks = {} \/ SameHold(h[sl[t].email], h[sl[t].email])
  BY DEF LinksFit, RowFits, SameHold

LEMMA AccountStep ==
  ASSUME TypeOK, NameSingleHolder, LinksFit(hold, slot), AccountNext
  PROVE  RequestsKept
  <1> USE Tables
  <1>1. ASSUME NEW s \in Slots, NEW u \in Names, NEW e \in Emails, SignupChecked(s, u, e)
        PROVE  RequestsKept
    <2> DEFINE x == [phase |-> "signup", email |-> e, name |-> u, toks |-> {}]
    <2>1. x \in SlotRows /\ x.toks = {}
      BY DEF SlotRows, Requests, Phases
    <2>2. slot' = [slot EXCEPT ![s] = x] /\ hold' = hold
      BY <1>1 DEF SignupChecked
    <2>3. LinksFit(hold', slot') /\ slot' \in [Slots -> SlotRows]
      BY <2>1, <2>2, LinklessFits, SameHoldRefl, WrittenFit
    <2>4. NameSingleHolder'
      BY <1>1 DEF SignupChecked, NameSingleHolder, PreregistrationHeld
    <2> QED BY <1>1, <2>3, <2>4 DEF SignupChecked, RequestsKept
  <1>2. ASSUME NEW s \in Slots, slot' = [slot EXCEPT ![s] = FreeSlot], hold' = hold,
               nick' = nick, resv' = resv, agents' = agents, invited' = invited,
               accounts' \in [Accounts -> AccountRows]
        PROVE  RequestsKept
    <2>1. LinksFit(hold', slot') /\ slot' \in [Slots -> SlotRows]
      BY <1>2, FreeRow, LinklessFits, SameHoldRefl, WrittenFit
    <2>2. NameSingleHolder'
      BY <1>2 DEF NameSingleHolder, PreregistrationHeld
    <2> QED BY <1>2, <2>1, <2>2 DEF RequestsKept
  <1>3. ASSUME NEW s \in Slots, NEW a \in Accounts, SignupInserted(s, a)
        PROVE  RequestsKept
    <2>1. slot[s] \in Requests
      BY <1>3, SlotRowTyped DEF SignupInserted
    <2>2. [live |-> TRUE, user |-> slot[s].name, email |-> slot[s].email] \in AccountRows
      BY <2>1 DEF Requests, AccountRows
    <2>3. accounts' \in [Accounts -> AccountRows]
      BY <1>3, <2>2 DEF SignupInserted
    <2> QED BY <1>2, <1>3, <2>3 DEF SignupInserted
  <1>4. ASSUME NEW s \in Slots, SignupRefused(s)
        PROVE  RequestsKept
    BY <1>2, <1>4 DEF SignupRefused
  <1>5. ASSUME NEW a \in Accounts, DeleteAccount(a)
        PROVE  RequestsKept
    <2> DEFINE m == accounts[a].email
    <2>1. m \in Emails
      <3>1. accounts[a] \in AccountRows /\ accounts[a].live
        BY <1>5 DEF DeleteAccount
      <3>2. accounts[a] \in [live : {TRUE}, user : Names, email : Emails]
        BY <3>1, LiveAccount
      <3> QED BY <3>2
    <2>2. /\ hold' = [hold EXCEPT ![m] = NoHold]
          /\ slot' = WithoutLinks(slot, {m})
      BY <1>5 DEF DeleteAccount
    <2> HIDE DEF m
    <2>3. hold' \in [Emails -> HoldRows] /\ \A e \in Emails \ {m} : hold'[e] = hold[e]
      BY <2>1, <2>2 DEF HoldRows
    <2>4. slot' \in [Slots -> SlotRows] /\ LinksFit(hold', slot')
      <3>1. {m} \in SUBSET Emails
        BY <2>1
      <3>2. slot' \in [Slots -> SlotRows]
        BY <3>1, <2>2, WithoutLinksRow
      <3>3. LinksFit(hold', WithoutLinks(slot, {m}))
        BY <3>1, <2>3, VoidedFit
      <3> QED BY <3>2, <3>3, <2>2
    <2>5. /\ accounts' \in [Accounts -> AccountRows]
          /\ agents' \in [Agents -> AgentRows]
          /\ invited' \subseteq Emails
      BY <1>5 DEF DeleteAccount, AccountRows, AgentRows
    <2>6. /\ nick' \in [Names -> Agents \cup {NoOne}]
          /\ resv' \in [Names -> Accounts \cup {NoOne}]
          /\ \A n \in Names : nick'[n] \in {nick[n], NoOne} /\ resv'[n] \in {resv[n], NoOne}
      BY <1>5 DEF DeleteAccount, WithoutAgents
    <2>7. \A e \in Emails : hold'[e] = NoHold \/ hold'[e] = hold[e]
      BY <2>1, <2>2
    <2>8. NameSingleHolder'
      BY <2>6, <2>7, HoldersShrink
    <2> QED BY <2>3, <2>4, <2>5, <2>6, <2>8 DEF RequestsKept
  <1> QED BY <1>1, <1>3, <1>4, <1>5 DEF AccountNext

-----------------------------------------------------------------------------
\* The purge alone keeps links and holds together.
LEMMA PurgeFits ==
  ASSUME TypeOK, LinksFit(hold, slot)
  PROVE  LinksFit(PurgedHold, PurgedSlot)
  <1>1. /\ hold \in [Emails -> HoldRows] /\ slot \in [Slots -> SlotRows]
        /\ PurgedHold \in [Emails -> HoldRows] /\ Expired \in SUBSET Emails
        /\ \A e \in Emails \ Expired : PurgedHold[e] = hold[e]
    BY Tables, PurgedRows
  <1> QED BY <1>1, VoidedFit DEF PurgedSlot

\* A slot rewritten with some of its own links under unchanged holds.
LEMMA OwnLinks ==
  ASSUME TypeOK, LinksFit(hold, slot), NEW s \in Slots, NEW x \in SlotRows,
         x.toks \subseteq slot[s].toks,
         x.toks # {} => x.email = slot[s].email /\ x.name = slot[s].name /\ x.phase = "idle",
         x.phase \notin {"signup", "asking", "mailing"}
  PROVE  LinksFit(hold, [slot EXCEPT ![s] = x]) /\ [slot EXCEPT ![s] = x] \in [Slots -> SlotRows]
  <1> USE Tables
  <1>1. RowFits(hold, x)
    BY DEF LinksFit, RowFits
  <1>2. \A t \in Slots \ {s}, e \in Emails : ~(Withdrawable(x, e) /\ Withdrawable(slot[t], e))
    BY DEF LinksFit, Withdrawable
  <1>3. \A t \in Slots \ {s} : slot[t].toks = {} \/ SameHold(hold[slot[t].email], hold[slot[t].email])
    BY SameHoldRefl
  <1> QED BY <1>1, <1>2, <1>3, WrittenFit

LEMMA AskStep ==
  ASSUME TypeOK, NameSingleHolder, LinksFit(hold, slot),
         NEW s \in Slots, NEW e \in Emails, NEW n \in Names, AskReservation(s, e, n)
  PROVE  RequestsKept
  <1> USE Tables
  <1> DEFINE x == [phase |-> "asking", email |-> e, name |-> n, toks |-> {}]
  <1>1. x \in SlotRows /\ x.toks = {}
    BY DEF SlotRows, Requests, Phases
  <1>2. slot' = [PurgedSlot EXCEPT ![s] = x] /\ hold' = PurgedHold
    BY DEF AskReservation
  <1> HIDE DEF x
  <1>3. PurgedHold \in [Emails -> HoldRows] /\ PurgedSlot \in [Slots -> SlotRows]
        /\ LinksFit(PurgedHold, PurgedSlot)
    BY PurgedRows, PurgeFits
  <1>4. \A t \in Slots \ {s} : PurgedSlot[t].toks = {}
                               \/ SameHold(PurgedHold[PurgedSlot[t].email], PurgedHold[PurgedSlot[t].email])
    BY <1>3, SameHoldRefl
  <1>5. LinksFit(hold', slot') /\ slot' \in [Slots -> SlotRows]
    BY <1>1, <1>2, <1>3, <1>4, LinklessFits, WrittenFit
  <1>6. NameSingleHolder'
    BY <1>2, PurgedRows, HoldersShrink DEF AskReservation
  <1> QED BY <1>2, <1>3, <1>5, <1>6 DEF AskReservation, RequestsKept

LEMMA GrantStep ==
  ASSUME TypeOK, NameSingleHolder, LinksFit(hold, slot), NEW s \in Slots, ReservationGranted(s)
  PROVE  RequestsKept
  <1> USE Tables
  <1> DEFINE e == slot[s].email
             n == slot[s].name
             own == hold[e].status # "none"
             x == [slot[s] EXCEPT !.phase = "mailing",
                     !.toks = IF own THEN {"verify"} ELSE {"verify", "pending-cancel"}]
  <1>1. slot[s] \in Requests /\ slot[s].phase = "asking"
    BY SlotRowTyped DEF ReservationGranted
  <1>2. e \in Emails /\ n \in Names
    BY <1>1 DEF Requests
  <1>3. /\ x \in SlotRows /\ x.email = e /\ x.name = n /\ x.phase = "mailing"
        /\ x.toks = IF own THEN {"verify"} ELSE {"verify", "pending-cancel"}
    BY <1>1 DEF SlotRows, Requests, Phases, Purposes
  <1>4. /\ ~OtherHold(e, n)
        /\ own \/ Available(n)
        /\ hold' = IF own THEN hold ELSE
               [hold EXCEPT ![e] = [status |-> "pending", name |-> n, live |-> TRUE]]
        /\ slot' = [slot EXCEPT ![s] = x]
        /\ accounts' = accounts /\ agents' = agents /\ nick' = nick /\ resv' = resv /\ invited' = invited
    BY <1>1 DEF ReservationGranted
  <1> HIDE DEF e, n, own, x
  <1>5. hold' \in [Emails -> HoldRows] /\ \A f \in Emails \ {e} : hold'[f] = hold[f]
    BY <1>2, <1>4 DEF HoldRows, Statuses
  <1>6. hold'[e].status # "none" /\ hold'[e].name = n
    <2>1. CASE own
      BY <1>2, <1>4, <2>1 DEF own, OtherHold
    <2>2. CASE ~own
      BY <1>2, <1>4, <2>2
    <2> QED BY <2>1, <2>2
  <1>7. RowFits(hold', x)
    <2>1. x.toks \subseteq {"verify", "pending-cancel"} /\ x.toks \cap {"cancel", "claim"} = {}
      BY <1>3
    <2> QED BY <1>3, <1>6, <2>1 DEF RowFits
  <1>8. ~own => \A t \in Slots : slot[t].toks # {} => slot[t].email # e
    BY DEF LinksFit, RowFits, own
  <1>9. \A t \in Slots \ {s} : slot[t].toks = {} \/ SameHold(hold[slot[t].email], hold'[slot[t].email])
    <2> SUFFICES ASSUME NEW t \in Slots \ {s}, slot[t].toks # {}
                 PROVE  SameHold(hold[slot[t].email], hold'[slot[t].email])
      OBVIOUS
    <2>1. slot[t].email \in Emails
      BY SlotRowTyped DEF Requests
    <2>2. SameHold(hold[slot[t].email], hold[slot[t].email])
      BY SameHoldRefl
    <2>3. hold'[slot[t].email] = hold[slot[t].email]
      BY <1>4, <1>5, <1>8, <2>1
    <2> QED BY <2>2, <2>3
  <1>10. \A t \in Slots \ {s}, f \in Emails : ~(Withdrawable(x, f) /\ Withdrawable(slot[t], f))
    <2> SUFFICES ASSUME NEW t \in Slots \ {s}, NEW f \in Emails,
                        Withdrawable(x, f), Withdrawable(slot[t], f)
                 PROVE  FALSE
      OBVIOUS
    <2>1. ~own /\ f = e
      BY <1>3 DEF Withdrawable
    <2> QED BY <1>8, <2>1 DEF Withdrawable
  <1>11. LinksFit(hold', slot') /\ slot' \in [Slots -> SlotRows]
    BY <1>3, <1>4, <1>5, <1>7, <1>9, <1>10, WrittenFit
  <1>12. NameSingleHolder'
    <2>1. CASE own
      BY <1>4, <2>1 DEF NameSingleHolder, PreregistrationHeld
    <2>2. CASE ~own
      <3>1. /\ nick[n] = NoOne /\ resv[n] = NoOne
            /\ \A f \in Emails \ {e} : hold[f].name # n
            /\ hold'[e].name = n
        BY <1>4, <1>6, <2>2 DEF Available, OtherHold
      <3> QED BY <1>4, <1>5, <3>1 DEF NameSingleHolder, PreregistrationHeld
    <2> QED BY <2>1, <2>2
  <1> QED BY <1>4, <1>5, <1>11, <1>12 DEF RequestsKept

-----------------------------------------------------------------------------
\* The row of a request that is over.
LEMMA EndedRow ==
  ASSUME NEW r \in Requests, NEW ts \in SUBSET Purposes
  PROVE  /\ Ended(r, ts) \in SlotRows /\ Ended(r, ts).toks = ts /\ Ended(r, ts).phase = "idle"
         /\ ts # {} => Ended(r, ts).email = r.email /\ Ended(r, ts).name = r.name
  <1> DEFINE y == [r EXCEPT !.phase = "idle", !.toks = ts]
  <1>1. y \in Requests /\ y.toks = ts /\ y.phase = "idle" /\ y.email = r.email /\ y.name = r.name
    BY DEF Requests, Phases
  <1>2. Ended(r, ts) = Settled(y)
    BY DEF Ended
  <1> HIDE DEF y
  <1>3. Settled(y) \in SlotRows /\ Settled(y).toks = ts /\ (ts # {} => Settled(y) = y)
    BY <1>1, SettledRow
  <1>4. Settled(y) = y \/ Settled(y) = FreeSlot
    BY DEF Settled
  <1>5. Settled(y).phase = "idle"
    BY <1>1, <1>4, FreeRow
  <1>6. ts # {} => Settled(y).email = r.email /\ Settled(y).name = r.name
    BY <1>1, <1>3
  <1> QED BY <1>2, <1>3, <1>5, <1>6

LEMMA RowStep ==
  ASSUME TypeOK, NameSingleHolder, LinksFit(hold, slot), NEW s \in Slots,
         ReservationDenied(s) \/ MailSent(s) \/ DayLinksExpire(s)
  PROVE  RequestsKept
  <1> USE Tables
  <1>1. /\ hold' = hold /\ accounts' = accounts /\ agents' = agents
        /\ nick' = nick /\ resv' = resv /\ invited' = invited
    BY DEF ReservationDenied, MailSent, DayLinksExpire
  <1>2. NameSingleHolder'
    BY <1>1 DEF NameSingleHolder, PreregistrationHeld
  <1>3. ASSUME NEW x \in SlotRows, slot' = [slot EXCEPT ![s] = x],
               x.toks \subseteq slot[s].toks, x.phase = "idle",
               x.toks # {} => x.email = slot[s].email /\ x.name = slot[s].name
        PROVE  RequestsKept
    <2>1. LinksFit(hold, [slot EXCEPT ![s] = x]) /\ [slot EXCEPT ![s] = x] \in [Slots -> SlotRows]
      BY <1>3, OwnLinks
    <2> QED BY <1>1, <1>2, <1>3, <2>1 DEF RequestsKept
  <1>4. CASE ReservationDenied(s)
    BY <1>3, <1>4, FreeRow DEF ReservationDenied
  <1>5. CASE MailSent(s)
    <2>1. slot[s] \in Requests
      BY <1>5, SlotRowTyped DEF MailSent
    <2>2. slot[s].toks \in SUBSET Purposes
      BY <2>1 DEF Requests
    <2> QED BY <1>3, <1>5, <2>1, <2>2, EndedRow DEF MailSent
  <1>6. CASE DayLinksExpire(s)
    <2>1. slot[s] \in Requests
      BY <1>6, SlotRowTyped DEF DayLinksExpire
    <2>2. slot[s].toks \cap {"claim"} \in SUBSET Purposes /\ slot[s].toks \cap {"claim"} \subseteq slot[s].toks
      BY <2>1 DEF Requests
    <2> QED BY <1>3, <1>6, <2>1, <2>2, EndedRow DEF DayLinksExpire
  <1> QED BY <1>4, <1>5, <1>6

LEMMA MailFailedStep ==
  ASSUME TypeOK, NameSingleHolder, LinksFit(hold, slot), NEW s \in Slots, MailFailed(s)
  PROVE  RequestsKept
  <1> USE Tables
  <1> DEFINE e == slot[s].email
             mine == /\ "pending-cancel" \in slot[s].toks
                     /\ ~\E r \in Slots \ {s} : slot[r].email = e /\ "verify" \in slot[r].toks
             drop == IF mine THEN {"verify", "pending-cancel"} ELSE {"verify"}
             gone == mine /\ hold[e].status = "pending"
             x == Ended(slot[s], slot[s].toks \ drop)
  <1>1. slot[s] \in Requests /\ slot[s].phase = "mailing"
    BY SlotRowTyped DEF MailFailed
  <1>2. e \in Emails /\ slot[s].toks \in SUBSET Purposes
    BY <1>1 DEF Requests
  <1>3. /\ hold' = IF gone THEN [hold EXCEPT ![e] = NoHold] ELSE hold
        /\ slot' = [slot EXCEPT ![s] = x]
        /\ accounts' = accounts /\ agents' = agents /\ nick' = nick /\ resv' = resv /\ invited' = invited
    BY DEF MailFailed
  <1>4. /\ x \in SlotRows /\ x.toks = slot[s].toks \ drop /\ x.phase = "idle"
        /\ x.toks # {} => x.email = e /\ x.name = slot[s].name
    <2>1. slot[s].toks \ drop \in SUBSET Purposes
      BY <1>2
    <2> QED BY <1>1, <2>1, EndedRow
  <1>5. slot[s].toks \subseteq {"verify", "pending-cancel"}
    BY <1>1 DEF LinksFit, RowFits
  <1>6. mine => "pending-cancel" \in slot[s].toks /\ drop = {"verify", "pending-cancel"}
                /\ \A r \in Slots \ {s} : slot[r].email = e => "verify" \notin slot[r].toks
    OBVIOUS
  <1> HIDE DEF mine, drop, x
  <1>7. \A n \in Names : nick'[n] \in {nick[n], NoOne} /\ resv'[n] \in {resv[n], NoOne}
    BY <1>3
  <1>8. \A f \in Emails : hold'[f] = NoHold \/ hold'[f] = hold[f]
    BY <1>2, <1>3
  <1>9. NameSingleHolder'
    BY <1>7, <1>8, HoldersShrink
  <1>10. LinksFit(hold', slot') /\ slot' \in [Slots -> SlotRows] /\ hold' \in [Emails -> HoldRows]
    <2>1. CASE ~gone
      BY <1>3, <1>4, <2>1, OwnLinks
    <2>2. CASE gone
      <3>1. x.toks = {}
        BY <1>4, <1>5, <1>6, <2>2
      <3>2. hold' = [hold EXCEPT ![e] = NoHold]
        BY <1>3, <2>2
      <3>3. hold' \in [Emails -> HoldRows] /\ \A f \in Emails \ {e} : hold'[f] = hold[f]
        BY <1>2, <3>2 DEF HoldRows
      <3>4. ASSUME NEW t \in Slots \ {s}, slot[t].toks # {}
            PROVE  SameHold(hold[slot[t].email], hold'[slot[t].email])
        <4>1. slot[t] \in Requests /\ RowFits(hold, slot[t])
          BY <3>4, SlotRowTyped DEF LinksFit
        <4>2. slot[t].email \in Emails /\ slot[t].toks \subseteq Purposes
          BY <4>1 DEF Requests
        <4>3. slot[t].email # e
          <5> SUFFICES ASSUME slot[t].email = e
                       PROVE  FALSE
            OBVIOUS
          <5>1. "verify" \notin slot[t].toks
            BY <1>6, <2>2
          <5>2. "pending-cancel" \notin slot[t].toks
            BY <1>2, <1>6, <2>2 DEF LinksFit, Withdrawable
          <5>3. slot[t].toks \cap {"cancel", "claim"} = {}
            BY <4>1, <2>2 DEF RowFits
          <5> QED BY <3>4, <4>2, <5>1, <5>2, <5>3 DEF Purposes
        <4>4. hold'[slot[t].email] = hold[slot[t].email]
          BY <3>3, <4>2, <4>3
        <4> QED BY <4>4, <3>4, SameHoldRefl
      <3>5. RowFits(hold', x) /\ \A f \in Emails : ~Withdrawable(x, f)
        BY <3>1, LinklessFits
      <3> QED BY <1>3, <1>4, <3>3, <3>4, <3>5, WrittenFit
    <2> QED BY <2>1, <2>2
  <1> QED BY <1>3, <1>9, <1>10 DEF RequestsKept

-----------------------------------------------------------------------------
\* A step that only voids holds, with their links.
LEMMA VoidStep ==
  ASSUME TypeOK, NameSingleHolder, LinksFit(hold, slot), NEW es \in SUBSET Emails,
         hold' \in [Emails -> HoldRows],
         \A e \in Emails : hold'[e] = IF e \in es THEN NoHold ELSE hold[e],
         slot' = WithoutLinks(slot, es),
         accounts' = accounts, agents' = agents, nick' = nick, resv' = resv, invited' = invited
  PROVE  RequestsKept
  <1> USE Tables
  <1>1. LinksFit(hold', slot') /\ slot' \in [Slots -> SlotRows]
    BY VoidedFit, WithoutLinksRow
  <1>2. NameSingleHolder'
    BY HoldersShrink
  <1> QED BY <1>1, <1>2 DEF RequestsKept

LEMMA PurgeStep ==
  ASSUME TypeOK, NameSingleHolder, LinksFit(hold, slot), Purge
  PROVE  RequestsKept
  BY Tables, PurgedRows, VoidStep DEF Purge, PurgedSlot

LEMMA CancelStep ==
  ASSUME TypeOK, NameSingleHolder, LinksFit(hold, slot), NEW s \in Slots, Cancel(s)
  PROVE  RequestsKept
  <1> USE Tables
  <1> DEFINE e == slot[s].email
             es == Expired \cup {e}
  <1>1. slot[s].toks # {}
    BY DEF Cancel
  <1>2. e \in Emails
    BY <1>1, SlotRowTyped DEF Requests
  <1>3. es \in SUBSET Emails
    BY <1>2, PurgedRows
  <1>4. hold' = [PurgedHold EXCEPT ![e] = NoHold] /\ slot' = WithoutLinks(slot, es)
        /\ accounts' = accounts /\ agents' = agents /\ nick' = nick /\ resv' = resv /\ invited' = invited
    BY DEF Cancel
  <1>5. hold' \in [Emails -> HoldRows]
        /\ \A f \in Emails : hold'[f] = IF f \in es THEN NoHold ELSE hold[f]
    BY <1>2, <1>4, PurgedRows DEF HoldRows
  <1> HIDE DEF es
  <1> QED BY <1>3, <1>4, <1>5, VoidStep

LEMMA ClaimStep ==
  ASSUME TypeOK, NameSingleHolder, LinksFit(hold, slot), NEW s \in Slots, NEW a \in Accounts, Claim(s, a)
  PROVE  RequestsKept
  <1> USE Tables
  <1> DEFINE e == slot[s].email
             n == slot[s].name
  <1>1. slot[s].toks # {}
    BY DEF Claim
  <1>2. slot[s] \in Requests
    BY <1>1, SlotRowTyped
  <1>3. e \in Emails /\ n \in Names
    BY <1>2 DEF Requests
  <1>4. /\ hold[e].live /\ hold[e].name = n
        /\ hold' = [hold EXCEPT ![e] = NoHold]
        /\ resv' = [resv EXCEPT ![n] = a]
        /\ slot' = WithoutLinks(slot, {e})
        /\ accounts' = accounts /\ agents' = agents /\ nick' = nick /\ invited' = invited
    BY DEF Claim
  <1> HIDE DEF e, n
  <1>5. hold' \in [Emails -> HoldRows] /\ \A f \in Emails \ {e} : hold'[f] = hold[f]
    BY <1>3, <1>4 DEF HoldRows
  <1>6. LinksFit(hold', slot') /\ slot' \in [Slots -> SlotRows]
    <2>1. {e} \in SUBSET Emails
      BY <1>3
    <2> QED BY <1>4, <1>5, <2>1, VoidedFit, WithoutLinksRow
  <1>7. NameSingleHolder'
    <2>1. /\ nick[n] = NoOne
          /\ \A f \in Emails \ {e} : hold[f].name # n
      BY <1>3, <1>4 DEF NameSingleHolder, PreregistrationHeld
    <2>2. hold'[e].name = NoOne
      BY <1>3, <1>4 DEF NoHold
    <2>3. \A m \in Names \ {n} : resv'[m] = resv[m]
      BY <1>4
    <2> QED BY <1>4, <1>5, <2>1, <2>2, <2>3 DEF NameSingleHolder, PreregistrationHeld
  <1>8. resv' \in [Names -> Accounts \cup {NoOne}]
    BY <1>4
  <1> QED BY <1>4, <1>5, <1>6, <1>7, <1>8 DEF RequestsKept

LEMMA ExpiryStep ==
  ASSUME TypeOK, NameSingleHolder, LinksFit(hold, slot), NEW e \in Emails, HoldExpires(e)
  PROVE  RequestsKept
  <1> USE Tables
  <1>1. /\ hold' = [hold EXCEPT ![e].live = FALSE] /\ slot' = slot
        /\ accounts' = accounts /\ agents' = agents /\ nick' = nick /\ resv' = resv /\ invited' = invited
    BY DEF HoldExpires
  <1>2. hold[e] \in [status : Statuses, name : Names, live : BOOLEAN]
    <2>1. hold[e] \in HoldRows /\ hold[e].live
      BY DEF HoldExpires
    <2>2. ~NoHold.live
      BY DEF NoHold
    <2>3. hold[e] # NoHold
      BY <2>1, <2>2
    <2> QED BY <2>1, <2>3 DEF HoldRows
  <1>3. /\ hold' \in [Emails -> HoldRows]
        /\ hold'[e].name = hold[e].name /\ hold'[e].status = hold[e].status /\ ~hold'[e].live
        /\ \A f \in Emails \ {e} : hold'[f] = hold[f]
    BY <1>1, <1>2 DEF HoldRows
  <1>4. NameSingleHolder'
    BY <1>1, <1>3, HoldersShrink
  <1>5. ASSUME NEW t \in Slots
        PROVE  RowFits(hold', slot[t])
    <2>1. CASE slot[t].toks = {}
      BY <2>1, LinklessFits
    <2>2. CASE slot[t].toks # {}
      <3>1. slot[t].email \in Emails
        BY <2>2, SlotRowTyped DEF Requests
      <3> QED BY <1>3, <3>1 DEF LinksFit, RowFits
    <2> QED BY <2>1, <2>2
  <1>6. LinksFit(hold', slot')
    BY <1>1, <1>5 DEF LinksFit
  <1> QED BY <1>1, <1>3, <1>4, <1>6 DEF RequestsKept

-----------------------------------------------------------------------------
LEMMA VerifyStep ==
  ASSUME TypeOK, NameSingleHolder, LinksFit(hold, slot), NEW r \in Slots, NEW s \in Slots, Verify(r, s)
  PROVE  RequestsKept
  <1> USE Tables
  <1> DEFINE e == slot[r].email
             x == Settled([slot[r] EXCEPT !.toks = @ \ {"verify"}])
             y == [phase |-> IF e \in invited THEN "inviting" ELSE "idle",
                       email |-> e, name |-> slot[r].name, toks |-> {"cancel"}]
             w == [PurgedSlot EXCEPT ![r] = x]
  <1>1. slot[r] \in Requests /\ slot[s] = FreeSlot /\ r # s
    <2>1. "verify" \in slot[r].toks /\ slot[s] = FreeSlot
      BY DEF Verify
    <2> QED BY <2>1, SlotRowTyped, FreeRow
  <1>2. e \in Emails /\ slot[r].name \in Names /\ slot[r].toks \subseteq Purposes
    BY <1>1 DEF Requests
  <1>3. PurgedHold[e].status # "none" /\ PurgedHold[e].name = slot[r].name
        /\ hold' = (IF hold[e].status = "pending"
                    THEN [PurgedHold EXCEPT ![e].status = "verified"] ELSE PurgedHold)
        /\ accounts' = accounts /\ agents' = agents /\ nick' = nick /\ resv' = resv /\ invited' = invited
    BY DEF Verify
  <1>4. slot' = [w EXCEPT ![s] = y]
    BY DEF Verify
  <1>5. /\ PurgedHold \in [Emails -> HoldRows] /\ PurgedSlot \in [Slots -> SlotRows]
        /\ LinksFit(PurgedHold, PurgedSlot)
        /\ e \notin Expired /\ PurgedHold[e] = hold[e] /\ hold[e].live
    BY <1>2, <1>3, PurgedRows, PurgeFits DEF NoHold
  <1>6. PurgedSlot[r] = slot[r]
    BY <1>5, PurgedRows, WithoutLinksRow DEF PurgedSlot
  <1>7. /\ x \in SlotRows /\ x.toks = slot[r].toks \ {"verify"}
        /\ x.toks # {} => x.email = e /\ x.name = slot[r].name /\ x.phase = slot[r].phase
        /\ x.phase \in {"signup", "asking"} => x.phase = slot[r].phase
        /\ x.phase = "mailing" => x.phase = slot[r].phase
    <2>1. [slot[r] EXCEPT !.toks = @ \ {"verify"}] \in Requests
          /\ [slot[r] EXCEPT !.toks = @ \ {"verify"}].toks = slot[r].toks \ {"verify"}
          /\ [slot[r] EXCEPT !.toks = @ \ {"verify"}].email = e
          /\ [slot[r] EXCEPT !.toks = @ \ {"verify"}].name = slot[r].name
          /\ [slot[r] EXCEPT !.toks = @ \ {"verify"}].phase = slot[r].phase
      BY <1>1 DEF Requests
    <2> DEFINE z == [slot[r] EXCEPT !.toks = @ \ {"verify"}]
    <2> HIDE DEF z
    <2>2. Settled(z) \in SlotRows /\ Settled(z).toks = z.toks /\ (z.toks # {} => Settled(z) = z)
      BY <2>1, SettledRow DEF z
    <2>3. Settled(z) = z \/ Settled(z) = FreeSlot
      BY DEF Settled
    <2>4. x = Settled(z)
      BY DEF z
    <2>5. FreeSlot.phase = "idle"
      BY FreeRow
    <2>6. z.toks = slot[r].toks \ {"verify"} /\ z.email = e /\ z.name = slot[r].name /\ z.phase = slot[r].phase
      BY <2>1 DEF z
    <2> HIDE DEF x
    <2> QED BY <2>2, <2>3, <2>4, <2>5, <2>6
  <1>8. /\ y \in SlotRows /\ y.toks = {"cancel"} /\ y.email = e /\ y.name = slot[r].name
        /\ y.phase \in {"inviting", "idle"}
    BY <1>2 DEF SlotRows, Requests, Phases, Purposes
  <1> HIDE DEF x, y
  <1>9. RowFits(PurgedHold, x)
    BY <1>5, <1>6, <1>7 DEF LinksFit, RowFits
  <1>10. LinksFit(PurgedHold, w) /\ w \in [Slots -> SlotRows]
    <2>1. \A t \in Slots \ {r}, f \in Emails : ~(Withdrawable(x, f) /\ Withdrawable(PurgedSlot[t], f))
      BY <1>5, <1>6, <1>7 DEF LinksFit, Withdrawable
    <2>2. \A t \in Slots \ {r} : PurgedSlot[t].toks = {}
             \/ SameHold(PurgedHold[PurgedSlot[t].email], PurgedHold[PurgedSlot[t].email])
      BY <1>5, SameHoldRefl
    <2> QED BY <1>5, <1>7, <1>9, <2>1, <2>2, WrittenFit
  <1> HIDE DEF w
  <1>11. /\ hold' \in [Emails -> HoldRows]
         /\ hold'[e].status # "none" /\ hold'[e].status # "pending"
         /\ hold'[e].name = slot[r].name /\ hold'[e].live = hold[e].live
         /\ \A f \in Emails \ {e} : hold'[f] = PurgedHold[f]
    <2>1. PurgedHold[e] \in [status : Statuses, name : Names, live : BOOLEAN]
      BY <1>2, <1>3, <1>5, HoldRow DEF HoldRows, NoHold
    <2>2. CASE hold[e].status = "pending"
      <3>1. hold' = [PurgedHold EXCEPT ![e] = [PurgedHold[e] EXCEPT !.status = "verified"]]
        BY <1>3, <2>2
      <3>2. /\ [PurgedHold[e] EXCEPT !.status = "verified"] \in [status : Statuses, name : Names, live : BOOLEAN]
            /\ [PurgedHold[e] EXCEPT !.status = "verified"].status = "verified"
            /\ [PurgedHold[e] EXCEPT !.status = "verified"].name = PurgedHold[e].name
            /\ [PurgedHold[e] EXCEPT !.status = "verified"].live = PurgedHold[e].live
        BY <2>1 DEF Statuses
      <3>3. hold'[e] = [PurgedHold[e] EXCEPT !.status = "verified"]
            /\ \A f \in Emails \ {e} : hold'[f] = PurgedHold[f]
        BY <1>2, <1>5, <3>1
      <3>4. hold' \in [Emails -> HoldRows]
        BY <1>2, <1>5, <3>1, <3>2 DEF HoldRows
      <3> QED BY <1>3, <1>5, <3>2, <3>3, <3>4
    <2>3. CASE hold[e].status # "pending"
      BY <1>3, <1>5, <2>3
    <2> QED BY <2>2, <2>3
  <1>12. RowFits(hold', y)
    BY <1>8, <1>11 DEF RowFits
  <1>13. \A t \in Slots \ {s} : w[t].toks = {} \/ SameHold(PurgedHold[w[t].email], hold'[w[t].email])
    <2> SUFFICES ASSUME NEW t \in Slots, w[t].toks # {}
                 PROVE  SameHold(PurgedHold[w[t].email], hold'[w[t].email])
      OBVIOUS
    <2>1. w[t].email \in Emails /\ SameHold(PurgedHold[w[t].email], PurgedHold[w[t].email])
      BY <1>10, SlotRowTyped, SameHoldRefl DEF Requests
    <2>2. CASE w[t].email = e
      BY <1>3, <1>11, <2>2 DEF SameHold
    <2>3. CASE w[t].email # e
      BY <1>11, <2>1, <2>3
    <2> QED BY <2>2, <2>3
  <1>14. \A f \in Emails : ~Withdrawable(y, f)
    BY <1>8 DEF Withdrawable
  <1>15. LinksFit(hold', slot') /\ slot' \in [Slots -> SlotRows]
    BY <1>4, <1>5, <1>8, <1>10, <1>11, <1>12, <1>13, <1>14, WrittenFit
  <1>16. NameSingleHolder'
    <2>1. ASSUME NEW f \in Emails
          PROVE  \/ hold'[f] = NoHold
                 \/ hold'[f].name = hold[f].name /\ (hold'[f].live => hold[f].live)
      <3>1. CASE f = e
        BY <1>3, <1>5, <1>11, <3>1
      <3>2. CASE f # e
        BY <1>11, <3>2, PurgedRows
      <3> QED BY <3>1, <3>2
    <2>2. \A n \in Names : nick'[n] \in {nick[n], NoOne} /\ resv'[n] \in {resv[n], NoOne}
      BY <1>3
    <2> QED BY <2>1, <2>2, HoldersShrink
  <1> QED BY <1>3, <1>11, <1>15, <1>16 DEF RequestsKept

LEMMA AdminStep ==
  ASSUME TypeOK, NameSingleHolder, LinksFit(hold, slot), NEW s \in Slots, NEW e \in Emails, AdminInvite(s, e)
  PROVE  RequestsKept
  <1> USE Tables
  <1> DEFINE x == [phase |-> "inviting", email |-> e, name |-> hold[e].name, toks |-> {}]
  <1>1. /\ hold' = PurgedHold
        /\ slot' = IF PurgedHold[e].status \in {"verified", "invited"}
                   THEN [PurgedSlot EXCEPT ![s] = x] ELSE PurgedSlot
        /\ accounts' = accounts /\ agents' = agents /\ nick' = nick /\ resv' = resv
        /\ invited' = invited \cup {e}
    BY DEF AdminInvite
  <1>2. /\ PurgedHold \in [Emails -> HoldRows] /\ PurgedSlot \in [Slots -> SlotRows]
        /\ LinksFit(PurgedHold, PurgedSlot)
    BY PurgedRows, PurgeFits
  <1>3. PurgedHold[e].status # "none" => x \in SlotRows /\ x.toks = {}
    <2>1. PurgedHold[e].status # "none" => hold[e].name \in Names
      BY PurgedRows, HoldRow
    <2> QED BY <2>1 DEF SlotRows, Requests, Phases
  <1>4. x.toks = {}
    OBVIOUS
  <1> HIDE DEF x
  <1>5. LinksFit(hold', slot') /\ slot' \in [Slots -> SlotRows]
    <2>1. CASE PurgedHold[e].status \in {"verified", "invited"}
      <3>1. x \in SlotRows
        BY <1>3, <2>1
      <3>2. \A t \in Slots \ {s} : PurgedSlot[t].toks = {}
               \/ SameHold(PurgedHold[PurgedSlot[t].email], PurgedHold[PurgedSlot[t].email])
        BY <1>2, SameHoldRefl
      <3> QED BY <1>1, <1>2, <1>4, <2>1, <3>1, <3>2, LinklessFits, WrittenFit
    <2>2. CASE PurgedHold[e].status \notin {"verified", "invited"}
      BY <1>1, <1>2, <2>2
    <2> QED BY <2>1, <2>2
  <1>6. NameSingleHolder'
    BY <1>1, PurgedRows, HoldersShrink
  <1> QED BY <1>1, <1>2, <1>5, <1>6 DEF RequestsKept

LEMMA InviteStep ==
  ASSUME TypeOK, NameSingleHolder, LinksFit(hold, slot), NEW s \in Slots, Invite(s)
  PROVE  RequestsKept
  <1> USE Tables
  <1> DEFINE e == slot[s].email
             current == /\ hold[e].status \in {"verified", "invited"}
                        /\ hold[e].live
                        /\ hold[e].name = slot[s].name
             ts == slot[s].toks \cup (IF current THEN {"claim"} ELSE {})
             x == Ended(slot[s], ts)
  <1>1. slot[s] \in Requests /\ slot[s].phase = "inviting"
    BY SlotRowTyped DEF Invite
  <1>2. e \in Emails /\ slot[s].name \in Names /\ ts \in SUBSET Purposes
    BY <1>1 DEF Requests, Purposes
  <1>3. /\ hold' = (IF current THEN [hold EXCEPT ![e].status = "invited"] ELSE hold)
        /\ slot' = [slot EXCEPT ![s] = x]
        /\ accounts' = accounts /\ agents' = agents /\ nick' = nick /\ resv' = resv /\ invited' = invited
    BY DEF Invite
  <1>4. /\ x \in SlotRows /\ x.toks = ts /\ x.phase = "idle"
        /\ x.toks # {} => x.email = e /\ x.name = slot[s].name
    BY <1>1, <1>2, EndedRow
  <1>5. ("claim" \in ts => current \/ "claim" \in slot[s].toks)
        /\ ts \ {"claim"} \subseteq slot[s].toks
        /\ (~current => ts = slot[s].toks)
    OBVIOUS
  <1> HIDE DEF x, ts
  <1>6. NameSingleHolder'
    <2>1. CASE ~current
      BY <1>3, <2>1, HoldersShrink
    <2>2. CASE current
      <3>1. hold[e] \in HoldRows /\ hold[e].live /\ hold[e].name \in Names
        BY <1>2, <2>2
      <3>2. \A f \in Emails : hold'[f].name = hold[f].name /\ hold'[f].live = hold[f].live
        BY <1>3, <2>2, <3>1 DEF HoldRows
      <3> QED BY <1>3, <3>2, HoldersShrink
    <2> QED BY <2>1, <2>2
  <1>7. LinksFit(hold', slot') /\ slot' \in [Slots -> SlotRows] /\ hold' \in [Emails -> HoldRows]
    <2>1. CASE ~current
      BY <1>3, <1>4, <1>5, <2>1, OwnLinks
    <2>2. CASE current
      <3>1. hold[e] \in [status : Statuses, name : Names, live : BOOLEAN]
        BY <1>2, <2>2 DEF HoldRows, NoHold
      <3>2. /\ [hold[e] EXCEPT !.status = "invited"] \in [status : Statuses, name : Names, live : BOOLEAN]
            /\ [hold[e] EXCEPT !.status = "invited"].status = "invited"
            /\ [hold[e] EXCEPT !.status = "invited"].name = hold[e].name
        BY <3>1 DEF Statuses
      <3>3. hold' = [hold EXCEPT ![e] = [hold[e] EXCEPT !.status = "invited"]]
        BY <1>3, <2>2
      <3>4. /\ hold' \in [Emails -> HoldRows]
            /\ hold'[e].status = "invited" /\ hold'[e].name = slot[s].name /\ hold[e].name = slot[s].name
            /\ \A f \in Emails \ {e} : hold'[f] = hold[f]
        BY <1>2, <2>2, <3>2, <3>3 DEF HoldRows
      <3>5. RowFits(hold', x)
        BY <1>4, <3>4 DEF RowFits
      <3>6. \A t \in Slots \ {s} : slot[t].toks = {} \/ SameHold(hold[slot[t].email], hold'[slot[t].email])
        <4> SUFFICES ASSUME NEW t \in Slots, slot[t].toks # {}
                     PROVE  SameHold(hold[slot[t].email], hold'[slot[t].email])
          OBVIOUS
        <4>1. slot[t].email \in Emails /\ SameHold(hold[slot[t].email], hold[slot[t].email])
          BY SlotRowTyped, SameHoldRefl DEF Requests
        <4>2. CASE slot[t].email = e
          BY <3>4, <4>2 DEF SameHold
        <4>3. CASE slot[t].email # e
          BY <3>4, <4>1, <4>3
        <4> QED BY <4>2, <4>3
      <3>7. \A t \in Slots \ {s}, f \in Emails : ~(Withdrawable(x, f) /\ Withdrawable(slot[t], f))
        BY <1>4, <1>5 DEF LinksFit, Withdrawable
      <3> QED BY <1>3, <1>4, <3>4, <3>5, <3>6, <3>7, WrittenFit
    <2> QED BY <2>1, <2>2
  <1> QED BY <1>3, <1>6, <1>7 DEF RequestsKept

-----------------------------------------------------------------------------
LEMMA InvInit == Init => IInv
  <1> SUFFICES ASSUME Init PROVE IInv
    OBVIOUS
  <1>1. TypeOK
    BY Tables, FreeRow DEF Init, AccountRows, AgentRows, HoldRows
  <1>2. NameSingleHolder
    BY DEF Init, NameSingleHolder, PreregistrationHeld, NoHold
  <1>3. \A s \in Slots : slot[s].toks = {} /\ slot[s].phase = "idle"
    BY FreeRow DEF Init
  <1>4. LinksMatchHold /\ LinkShape
    BY <1>3 DEF LinksMatchHold, LinkShape
  <1> QED BY <1>1, <1>2, <1>4 DEF IInv

LEMMA InvNext == IInv /\ [Next]_vars => IInv'
  <1> SUFFICES ASSUME IInv, [Next]_vars PROVE IInv'
    OBVIOUS
  <1>0. TypeOK /\ NameSingleHolder /\ LinksFit(hold, slot)
    BY Tables, FitIsInv DEF IInv
  <1>1. ASSUME RequestsKept
        PROVE  IInv'
    <2>1. TypeOK'
      <3>1. slot' \in [Slots -> {FreeSlot} \cup Requests]
            /\ \A s \in Slots : slot'[s].phase = "idle" /\ slot'[s].toks = {} => slot'[s] = FreeSlot
        BY <1>1 DEF RequestsKept, SlotRows
      <3> QED BY <1>1, <3>1 DEF RequestsKept, TypeOK, AccountRows, AgentRows, HoldRows, Requests
    <2>2. LinksMatchHold' /\ LinkShape'
      <3>1. \A s \in Slots : RowFits(hold', slot'[s])
        BY <1>1 DEF RequestsKept, LinksFit
      <3>2. LinksMatchHold'
        BY <3>1 DEF RowFits, LinksMatchHold
      <3>3. ASSUME NEW r \in Slots, NEW s \in Slots,
                   "pending-cancel" \in slot'[r].toks \cap slot'[s].toks, slot'[r].email = slot'[s].email
            PROVE  r = s
        <4>1. slot'[r].email \in Emails
          BY <1>1, <3>3, SlotRowTyped DEF RequestsKept, Requests
        <4> QED BY <1>1, <3>3, <4>1 DEF RequestsKept, LinksFit, Withdrawable
      <3>4. LinkShape'
        BY <3>1, <3>3 DEF RowFits, LinkShape
      <3> QED BY <3>2, <3>4
    <2> QED BY <1>1, <2>1, <2>2 DEF RequestsKept, IInv
  <1>2. CASE AccountNext
    BY <1>0, <1>1, <1>2, AccountStep
  <1>3. CASE AgentNext
    <2>1. TypeOK' /\ NameSingleHolder' /\ hold' = hold /\ slot' = slot
      BY <1>0, <1>3, AgentStep
    <2> QED BY <2>1 DEF IInv, LinksMatchHold, LinkShape
  <1>4. CASE HoldNext
    <2>1. RequestsKept
      BY <1>0, <1>4, AskStep, GrantStep, RowStep, MailFailedStep, VerifyStep, AdminStep,
         InviteStep, CancelStep, ClaimStep, PurgeStep, ExpiryStep DEF HoldNext
    <2> QED BY <1>1, <2>1
  <1>5. CASE UNCHANGED vars
    <2>1. /\ accounts' = accounts /\ agents' = agents /\ nick' = nick /\ resv' = resv
          /\ hold' = hold /\ invited' = invited /\ slot' = slot
      BY <1>5 DEF vars
    <2>2. TypeOK'
      BY <1>0, <2>1 DEF TypeOK
    <2>3. NameSingleHolder' /\ LinksMatchHold' /\ LinkShape'
      BY <2>1 DEF IInv, NameSingleHolder, PreregistrationHeld, LinksMatchHold, LinkShape
    <2> QED BY <2>2, <2>3 DEF IInv
  <1> QED BY <1>2, <1>3, <1>4, <1>5 DEF Next

\* The inductive invariant holds in every state, for any accounts, agents,
\* names, mailboxes and requests in flight.
THEOREM Invariance == Spec => []IInv
  BY InvInit, InvNext, PTL DEF Spec

\* The type invariant of the namespace.
THEOREM TypeCorrect == Spec => []TypeOK
  <1>1. IInv => TypeOK
    BY DEF IInv
  <1> QED BY <1>1, Invariance, PTL

\* A name has one holder, over agents, accounts and mailboxes.
THEOREM OneHolder == Spec => []NameSingleHolder
  <1>1. IInv => NameSingleHolder
    BY DEF IInv
  <1> QED BY <1>1, Invariance, PTL

\* A mailed link that still works is about the hold its mailbox has now.
THEOREM LinksAreCurrent == Spec => []LinksMatchHold
  <1>1. IInv => LinksMatchHold
    BY DEF IInv
  <1> QED BY <1>1, Invariance, PTL

-----------------------------------------------------------------------------
\* The steps that end a hold: what each leaves of the name.
HoldEndsWell(e) ==
    hold[e].status \in {"verified", "invited"} /\ hold[e].live /\ hold'[e].status = "none"
    => /\ nick'[hold[e].name] = NoOne
       /\ resv'[hold[e].name] = NoOne \/ HasEmail(resv'[hold[e].name], e)

\* Where names are only freed, a live hold leaves its name to nobody.
LEMMA FreedNames ==
  ASSUME IInv, NEW e \in Emails,
         \A n \in Names : nick'[n] \in {nick[n], NoOne} /\ resv'[n] \in {resv[n], NoOne}
  PROVE  HoldEndsWell(e)
  <1> SUFFICES ASSUME hold[e].status \in {"verified", "invited"}, hold[e].live
               PROVE  nick'[hold[e].name] = NoOne /\ resv'[hold[e].name] = NoOne
    BY DEF HoldEndsWell
  <1>1. hold[e] \in HoldRows
    BY Tables DEF IInv
  <1>2. hold[e].name \in Names
    BY <1>1, HoldRow
  <1>3. nick[hold[e].name] = NoOne /\ resv[hold[e].name] = NoOne
    BY <1>2 DEF IInv, NameSingleHolder, PreregistrationHeld
  <1> QED BY <1>2, <1>3

LEMMA HoldStep ==
  ASSUME IInv, [Next]_vars, NEW e \in Emails
  PROVE  HoldEndsWell(e)
  <1>0. TypeOK /\ NameSingleHolder /\ LinksFit(hold, slot) /\ IInv
    BY Tables, FitIsInv DEF IInv
  <1>1. CASE hold'[e] = hold[e]
    BY <1>1 DEF HoldEndsWell
  <1>2. CASE hold' = hold
    BY <1>2 DEF HoldEndsWell
  <1>3. CASE nick' = nick /\ resv' = resv
    BY <1>3, <1>0, FreedNames
  <1>4. ASSUME NEW a \in Accounts, DeleteAccount(a)
        PROVE  HoldEndsWell(e)
    <2>1. \A n \in Names : nick'[n] \in {nick[n], NoOne} /\ resv'[n] \in {resv[n], NoOne}
      BY <1>0, <1>4, Tables DEF DeleteAccount, WithoutAgents
    <2> QED BY <1>0, <2>1, FreedNames
  <1>5. ASSUME NEW s \in Slots, NEW a \in Accounts, Claim(s, a)
        PROVE  HoldEndsWell(e)
    <2>1. hold' = [hold EXCEPT ![slot[s].email] = NoHold] /\ nick' = nick
          /\ resv' = [resv EXCEPT ![slot[s].name] = a]
          /\ HasEmail(a, slot[s].email) /\ hold[slot[s].email].name = slot[s].name
      BY <1>5 DEF Claim
    <2>2. CASE slot[s].email = e
      <3>1. hold[e].status # "none" => hold[e].name \in Names
        BY <1>0, Tables, HoldRow
      <3>2. hold[e].status # "none" /\ hold[e].live => nick[hold[e].name] = NoOne
        BY <1>0, <3>1 DEF NameSingleHolder, PreregistrationHeld
      <3>3. hold[e].name \in Names => resv'[hold[e].name] = a
        BY <1>0, <2>1, <2>2, Tables
      <3> QED BY <2>1, <2>2, <3>1, <3>2, <3>3 DEF HoldEndsWell
    <2>3. CASE slot[s].email # e
      <3>1. hold'[e] = hold[e]
        BY <1>0, <2>1, <2>3, Tables
      <3> QED BY <1>1, <3>1
    <2> QED BY <2>2, <2>3
  <1>6. CASE AgentNext
    BY <1>0, <1>2, <1>6, AgentStep
  <1>7. CASE AccountNext
    BY <1>2, <1>4, <1>7 DEF AccountNext, SignupChecked, SignupInserted, SignupRefused
  <1>8. CASE HoldNext
    BY <1>3, <1>5, <1>8 DEF HoldNext, AskReservation, ReservationGranted, ReservationDenied, MailSent,
       MailFailed, Verify, AdminInvite, Invite, Cancel, Purge, HoldExpires, DayLinksExpire
  <1>9. CASE UNCHANGED vars
    BY <1>2, <1>9 DEF vars
  <1> QED BY <1>6, <1>7, <1>8, <1>9 DEF Next

\* A confirmed hold ends as a reservation of its mailbox's account, or frees
\* the name.
THEOREM HoldGoesToItsMailbox == Spec => HeldForItsMailbox
  <1>1. IInv /\ [Next]_vars =>
          [\A e \in Emails :
             hold[e].status \in {"verified", "invited"} /\ hold[e].live
                 /\ hold'[e].status = "none"
             => LET n == hold[e].name
                IN  nick'[n] = NoOne
                    /\ (resv'[n] = NoOne \/ HasEmail(resv'[n], e))]_vars
    BY HoldStep DEF HoldEndsWell
  <1> QED BY <1>1, Invariance, PTL DEF Spec, HeldForItsMailbox

\* No account starts with a username under a hold.
THEOREM UsernamesRespectHolds == Spec => UsernameRespectsHold
  <1>1. ASSUME IInv, [Next]_vars, NEW a \in Accounts, ~accounts[a].live, accounts'[a].live
        PROVE  ~\E e \in Emails : hold'[e].live /\ hold'[e].name = accounts'[a].user
    <2>0. TypeOK
      BY <1>1 DEF IInv
    <2>1. accounts' # accounts
      BY <1>1
    <2>2. ASSUME NEW s \in Slots, NEW b \in Accounts, SignupInserted(s, b)
          PROVE  ~\E e \in Emails : hold'[e].live /\ hold'[e].name = accounts'[a].user
      <3>1. a = b
        BY <1>1, <2>0, <2>2, Tables DEF SignupInserted
      <3>2. accounts'[a].user = slot[s].name /\ hold' = hold
        BY <2>0, <2>2, <3>1, Tables DEF SignupInserted
      <3> QED BY <2>2, <3>2 DEF SignupInserted, HeldMeanwhile, PreregistrationHeld
    <2>3. ASSUME NEW b \in Accounts, DeleteAccount(b)
          PROVE  FALSE
      <3>1. accounts' = [accounts EXCEPT ![b] = GoneAccount] /\ ~GoneAccount.live
        BY <2>3 DEF DeleteAccount, GoneAccount
      <3> QED BY <1>1, <2>0, <3>1, Tables
    <2>4. ASSUME NEW b \in Accounts, NEW g \in Agents, NEW u \in Names, Rename(b, g, u)
          PROVE  FALSE
      <3>1. accounts' = [accounts EXCEPT ![b].user = u] /\ accounts[b].live
        BY <2>4 DEF Rename
      <3> QED BY <1>1, <2>0, <3>1, Tables
    <2>5. CASE AccountNext
      BY <2>1, <2>2, <2>3, <2>5 DEF AccountNext, SignupChecked, SignupRefused
    <2>6. CASE AgentNext
      BY <2>1, <2>4, <2>6 DEF AgentNext, AttachReservation, BindNickname, Register, RegisterAgain, Enrol,
         EnsureHuman, RemoveAgent, CreateConnector, ReclaimConnector, ReserveNickname, ReleaseReservation
    <2>7. CASE HoldNext
      BY <2>1, <2>7 DEF HoldNext, AskReservation, ReservationGranted, ReservationDenied, MailSent,
         MailFailed, Verify, AdminInvite, Invite, Cancel, Claim, Purge, HoldExpires, DayLinksExpire
    <2> QED BY <1>1, <2>1, <2>5, <2>6, <2>7 DEF Next, vars
  <1>2. IInv /\ [Next]_vars =>
          [\A a \in Accounts :
             ~accounts[a].live /\ accounts'[a].live
             => ~\E e \in Emails : hold'[e].live /\ hold'[e].name = accounts'[a].user]_vars
    BY <1>1
  <1> QED BY <1>2, Invariance, PTL DEF Spec, UsernameRespectsHold
=============================================================================
