-------------------------- MODULE ConversationView --------------------------
(* The console's open conversation (app-shared/src/screens/Messages.tsx) and *)
(* the server routes it reads: the pages of one timeline of messages and     *)
(* calls, the inbox that hands every new message out once, and the human's   *)
(* own submissions with their retries.                                       *)
(*                                                                           *)
(* The screen never waits: opening a conversation, loading older rows, the   *)
(* 4-second refresh and the 3-second inbox poll each send a request whose    *)
(* answer may come late, after the human has moved on, or not at all.  An    *)
(* effect of the screen that has been cleaned up drops its answers (`live`); *)
(* a page of older rows is dropped only when the conversation differs.       *)
EXTENDS Integers, FiniteSets

CONSTANTS
    Threads,    \* conversations: a viewer and a peer
    Own,        \* those whose viewer is the human; the others browse an agent's inbox
    Keys,       \* the ways to open one: from the list by id, or by handle
    ThreadOf,   \* the conversation a key opens
    HandleOf,   \* the handle the screen shows for it (`selected`)
    Rows,       \* history rows, messages and calls
    Calls,      \* the rows that are calls
    RowsOf,     \* the rows of a conversation
    Inbound,    \* messages sent to the human, live
    Imported,   \* rows that arrive by history sync: at any time, in no inbox
    Submitted,  \* messages the human sends from this screen
    Stamp,      \* created_ms of a message, started_ms of a call
    Rank,       \* the order of timelineKey: 'm:' + id or 'c:' + id
    Limit,      \* rows on a page
    None,
    MaxOpens,   \* bound: conversations opened
    MaxLosses,  \* bound: requests or answers lost
    MaxFlight   \* bound: requests and answers in flight when another than a refresh is sent

ASSUME KeyAssumption ==
    /\ Own \subseteq Threads
    /\ ThreadOf \in [Keys -> Threads]
    /\ RowsOf \in [Threads -> SUBSET Rows]
    /\ None \notin Rows \cup Keys

ASSUME RowAssumption ==
    /\ Stamp \in [Rows -> Nat] /\ Rank \in [Rows -> Nat]
    /\ \A q, r \in Rows : q # r => Rank[q] # Rank[r]
    /\ Inbound \cap (Calls \cup Imported \cup Submitted) = {}
    /\ Limit \in Nat \ {0}

VARIABLES
    stored,     \* the rows in the server's history
    inbox,      \* inbound messages no poll has drained
    open,       \* the key of the open conversation, or None
    ready,      \* the opening's answer has come: peerIdRef is known
    shown,      \* how many times the screen shows a row (`items`)
    seen,       \* ids the inbox poll will not show again
    cursor,     \* nextCursor: the oldest row of the last page, None at the end
    loading,    \* loadingOlder
    requests,   \* requests the server has not handled
    answers,    \* answers the screen has not handled
    op,         \* each submission's status
    opKey,      \* the key it was sent under (MessageSubmission.thread)
    post,       \* its POST: "idle", "asked" or "stored"
    opens, losses,
    base,       \* history: the rows the conversation had when it was opened
    chain       \* history: each older page merged since was asked for since, and
                \* went on at the cursor it found

client == <<open, ready, shown, seen, cursor, loading>>
ops == <<op, opKey, post>>
bounds == <<opens, losses>>
ghosts == <<base, chain>>
vars == <<stored, inbox, client, requests, answers, ops, bounds, ghosts>>

Kinds == {"open", "older", "refresh", "inbox"}
Requests == [kind : Kinds, key : Keys \cup {None}, from : Rows \cup {None}, live : BOOLEAN]

\* An answer is its request with the page it brings, and for an opening (history)
\* all the rows the conversation had.
Answers == [q : Requests, rows : SUBSET Rows, next : Rows \cup {None}, all : SUBSET Rows]

\* One type for every variable.
TypeOK ==
    /\ stored \subseteq Rows /\ inbox \subseteq stored
    /\ open \in Keys \cup {None} /\ cursor \in Rows \cup {None}
    /\ ready \in BOOLEAN /\ loading \in BOOLEAN /\ chain \in BOOLEAN
    /\ shown \in [Rows -> 0 .. 2] /\ seen \subseteq Rows /\ base \subseteq Rows
    /\ requests \subseteq Requests
    /\ answers \subseteq Answers
    /\ op \in [Submitted -> {"none", "pending", "sent", "failed"}]
    /\ opKey \in [Submitted -> Keys \cup {None}]
    /\ post \in [Submitted -> {"idle", "asked", "stored"}]

Init ==
    /\ stored = {} /\ inbox = {}
    /\ open = None /\ ready = FALSE /\ shown = [r \in Rows |-> 0] /\ seen = {}
    /\ cursor = None /\ loading = FALSE
    /\ requests = {} /\ answers = {}
    /\ op = [o \in Submitted |-> "none"] /\ opKey = [o \in Submitted |-> None]
    /\ post = [o \in Submitted |-> "idle"]
    /\ opens = 0 /\ losses = 0 /\ base = {} /\ chain = TRUE

----------------------------------------------------------------------------
(* The server: pages of a timeline.                                        *)

\* Row r lies before the cursor row c in (time, key) order.
Before(r, c) ==
    \/ Stamp[r] < Stamp[c]
    \/ Stamp[r] = Stamp[c] /\ Rank[r] < Rank[c]

\* The n newest rows of S.
Newest(S, n) == {r \in S : Cardinality({q \in S : Before(r, q)}) < n}

\* The messages of a page: those before the cursor, a row more than the page holds.
MessagesWithPeer(t, from, n) ==
    Newest({r \in (stored \cap RowsOf[t]) \ Calls : from = None \/ Before(r, from)}, n)

\* Mutant: older means started before the cursor's time.
CallsOlder(t, from, n) ==
    Newest({r \in stored \cap RowsOf[t] \cap Calls : from = None \/ Stamp[r] < Stamp[from]}, n)

CallsWithPeer(t, from, n) ==
    Newest({r \in stored \cap RowsOf[t] \cap Calls : from = None \/ Before(r, from)}, n)

\* The page, and the cursor of the next one: the page's oldest row if more remain.
TimelinePage(S) ==
    LET items == Newest(S, Limit)
    IN  [rows |-> items,
         next |-> IF Cardinality(S) > Limit
                  THEN CHOOSE r \in items : \A q \in items : ~Before(q, r)
                  ELSE None]

ThreadPage(t, from) ==
    TimelinePage(MessagesWithPeer(t, from, Limit + 1) \cup CallsWithPeer(t, from, Limit + 1))

\* GET /console/thread; the read marks it also sets are HistorySync's PlatformRead.
ServeThread(q) ==
    LET page == ThreadPage(ThreadOf[q.key], q.from)
    IN  /\ q \in requests /\ q.kind # "inbox"
        /\ requests' = requests \ {q}
        /\ answers' = answers \cup
             {[q |-> q, rows |-> page.rows, next |-> page.next,
               all |-> IF q.kind = "open" THEN stored \cap RowsOf[ThreadOf[q.key]] ELSE {}]}
        /\ UNCHANGED <<stored, inbox, client, ops, bounds, ghosts>>

\* GET /console/inbox: what it returns is delivered, whether or not it arrives or
\* the effect that asked is still there to take it.
ServeInbox(q) ==
    /\ q \in requests /\ q.kind = "inbox"
    /\ requests' = requests \ {q}
    /\ answers' = IF q.live
                  THEN answers \cup {[q |-> q, rows |-> inbox, next |-> None, all |-> {}]}
                  ELSE answers
    /\ inbox' = {}
    /\ UNCHANGED <<stored, client, ops, bounds, ghosts>>

\* A row enters the history: now, or with an older time by history sync.
Arrive(r) ==
    /\ r \notin stored \cup Submitted
    /\ r \notin Imported => \A s \in stored \ Imported : Stamp[s] <= Stamp[r]
    /\ stored' = stored \cup {r}
    /\ inbox' = IF r \in Inbound THEN inbox \cup {r} ELSE inbox
    /\ UNCHANGED <<client, requests, answers, ops, bounds, ghosts>>

----------------------------------------------------------------------------
(* The screen.                                                             *)

HumanView == open # None => ThreadOf[open] \in Own

\* Mutant: a merge renews what is shown and adds nothing.
MergedShown(rows) == [r \in Rows |-> IF shown[r] > 0 THEN 1 ELSE 0]

\* Mutant: a merge appends.
MergedAgain(rows) == [r \in Rows |-> shown[r] + IF r \in rows THEN 1 ELSE 0]

\* mergeTimeline: rows are keyed by id, so a merge shows each of them once.
Merged(rows) == [r \in Rows |-> IF r \in rows \/ shown[r] > 0 THEN 1 ELSE 0]

\* Mutant: a failed submission is forgotten.
SubmissionsPending(k) == {o \in Submitted : op[o] \in {"pending", "sent"} /\ opKey[o] = k}

\* The submissions listed when a conversation is opened (submissionsFor).
SubmissionsOf(k) == {o \in Submitted : op[o] # "none" /\ opKey[o] = k}

Only(rows) == [r \in Rows |-> IF r \in rows THEN 1 ELSE 0]

SurvivesAlways(q, k) == TRUE   \* mutant: the effects have no clean-up

\* Does the effect that asked q survive the move from `open` to k?  Opening has an
\* effect of its own each time; the other two depend on what they name.
Survives(q, k) ==
    CASE q.kind = "open"    -> FALSE
      [] q.kind = "refresh" -> k = open
      [] q.kind = "inbox"   -> /\ q.live /\ open # None /\ k # None
                               /\ HandleOf[k] = HandleOf[open]
                               /\ (ThreadOf[k] \in Own) = (ThreadOf[open] \in Own)
      [] OTHER              -> FALSE

\* A request in flight still drains the inbox; a page of older rows is never
\* cancelled, its mark (asked for after the opening's answer) serves `chain` only.
Outlives(q, k) == Survives(q, k) \/ q.kind \in {"inbox", "older"}

Marked(q, k) == [q EXCEPT !.live = Survives(q, k)]

RequestsAfter(k) == {Marked(q, k) : q \in {q \in requests : Outlives(q, k)}}

AnswersAfter(k) ==
    {[a EXCEPT !.q = Marked(a.q, k)] :
        a \in {a \in answers : Survives(a.q, k) \/ a.q.kind = "older"}}

Room == Cardinality(requests) + Cardinality(answers) < MaxFlight

Ask(kind, key, from) == [kind |-> kind, key |-> key, from |-> from, live |-> TRUE]

Flying(kind) == \E q \in requests \cup {a.q : a \in answers} : q.kind = kind /\ q.live

\* openThread and its effect; opening the open conversation again starts over.
OpenThread(k) ==
    /\ opens < MaxOpens /\ Room
    /\ opens' = opens + 1
    /\ open' = k /\ ready' = FALSE /\ cursor' = None /\ loading' = FALSE
    /\ shown' = Only(SubmissionsOf(k))
    /\ requests' = RequestsAfter(k) \cup {Ask("open", k, None)}
    /\ answers' = AnswersAfter(k)
    /\ UNCHANGED <<stored, inbox, seen, ops, losses, ghosts>>

\* changeInbox: no conversation is open.
ChangeInbox ==
    /\ open # None
    /\ open' = None /\ ready' = FALSE /\ cursor' = None /\ loading' = FALSE
    /\ shown' = Only({})
    /\ requests' = RequestsAfter(None) /\ answers' = AnswersAfter(None)
    /\ UNCHANGED <<stored, inbox, seen, ops, bounds, ghosts>>

LoadOlder ==
    /\ open # None /\ cursor # None /\ ~loading /\ Room
    /\ loading' = TRUE
    /\ requests' = requests \cup {[Ask("older", open, cursor) EXCEPT !.live = ready]}
    /\ UNCHANGED <<stored, inbox, open, ready, shown, seen, cursor, answers, ops, bounds, ghosts>>

\* The 4-second refresh; one in flight at a time is a bound of the model.
RefreshTick ==
    /\ open # None /\ ~Flying("refresh")
    /\ requests' = requests \cup {Ask("refresh", open, None)}
    /\ UNCHANGED <<stored, inbox, client, answers, ops, bounds, ghosts>>

\* The 3-second inbox poll, in the human's own view only.
InboxTick ==
    /\ HumanView /\ ~Flying("inbox") /\ Room
    /\ requests' = requests \cup {Ask("inbox", open, None)}
    /\ UNCHANGED <<stored, inbox, client, answers, ops, bounds, ghosts>>

Take(a) == a \in answers /\ answers' = answers \ {a}

\* The opening's answer: the newest page, the submissions under it, the peer's id.
OpenAnswer(a) ==
    /\ Take(a) /\ a.q.kind = "open"
    /\ ready' = TRUE /\ seen' = seen \cup a.rows /\ cursor' = a.next
    /\ shown' = Only(SubmissionsOf(open) \cup a.rows)
    /\ base' = a.all /\ chain' = TRUE
    /\ UNCHANGED <<stored, inbox, open, loading, requests, ops, bounds>>

\* A page of older rows is merged if the same conversation is open, again or still.
OlderAnswer(a) ==
    /\ Take(a) /\ a.q.kind = "older"
    /\ IF open = a.q.key
       THEN /\ shown' = Merged(a.rows) /\ cursor' = a.next /\ loading' = FALSE
            /\ chain' = (chain /\ a.q.live /\ a.q.from = cursor)
       ELSE UNCHANGED <<shown, cursor, loading, chain>>
    /\ UNCHANGED <<stored, inbox, open, ready, seen, requests, ops, bounds, base>>

RefreshAnswer(a) ==
    /\ Take(a) /\ a.q.kind = "refresh"
    /\ shown' = Merged(a.rows)
    /\ UNCHANGED <<stored, inbox, open, ready, seen, cursor, loading, requests, ops,
                   bounds, ghosts>>

\* The live tail: new ids are seen, those of the open conversation appended.
InboxAnswer(a) ==
    LET fresh == a.rows \ seen
    IN  /\ Take(a) /\ a.q.kind = "inbox"
        /\ seen' = seen \cup fresh
        /\ shown' = [r \in Rows |->
               IF open # None /\ ready /\ r \in fresh \cap RowsOf[ThreadOf[open]]
               THEN shown[r] + 1 ELSE shown[r]]
        /\ UNCHANGED <<stored, inbox, open, ready, cursor, loading, requests, ops,
                       bounds, ghosts>>

\* A request or its answer is lost; an older page's failure frees the button.
Lose(q) ==
    /\ losses < MaxLosses /\ losses' = losses + 1
    /\ \/ q \in requests /\ requests' = requests \ {q} /\ UNCHANGED answers
       \/ \E a \in answers : a.q = q /\ answers' = answers \ {a} /\ UNCHANGED requests
    /\ loading' = (loading /\ ~(q.kind = "older" /\ q.key = open))
    /\ UNCHANGED <<stored, inbox, open, ready, shown, seen, cursor, ops, opens, ghosts>>

----------------------------------------------------------------------------
(* Submissions (message-send.ts).                                          *)

\* `changed`: the submission's item is merged if its conversation is open.
Changed(o, k) == shown' = IF open = k THEN Merged({o}) ELSE shown

\* send: a new submission, under the key the conversation was opened with.
Send(o) ==
    /\ op[o] = "none" /\ open # None
    /\ ThreadOf[open] \in Own /\ o \in RowsOf[ThreadOf[open]]
    /\ op' = [op EXCEPT ![o] = "pending"] /\ opKey' = [opKey EXCEPT ![o] = open]
    /\ post' = [post EXCEPT ![o] = "asked"]
    /\ Changed(o, open)
    /\ UNCHANGED <<stored, inbox, open, ready, seen, cursor, loading, requests, answers,
                   bounds, ghosts>>

\* The button under a failed item; one attempt runs at a time, with the same id.
Retry(o) ==
    /\ op[o] = "failed" /\ post[o] = "idle" /\ shown[o] > 0
    /\ op' = [op EXCEPT ![o] = "pending"] /\ post' = [post EXCEPT ![o] = "asked"]
    /\ Changed(o, opKey[o])
    /\ UNCHANGED <<stored, inbox, open, ready, seen, cursor, loading, requests, answers,
                   opKey, bounds, ghosts>>

\* POST /console/sms: stored under its id, once.
ServeSms(o) ==
    /\ post[o] = "asked" /\ post' = [post EXCEPT ![o] = "stored"]
    /\ o \notin stored => \A s \in stored \ Imported : Stamp[s] <= Stamp[o]
    /\ stored' = stored \cup {o}
    /\ UNCHANGED <<inbox, client, requests, answers, op, opKey, bounds, ghosts>>

Settle(o, status) ==
    /\ op' = [op EXCEPT ![o] = status] /\ post' = [post EXCEPT ![o] = "idle"]
    /\ Changed(o, opKey[o])
    /\ UNCHANGED <<stored, inbox, open, ready, seen, cursor, loading, requests, answers,
                   opKey, opens, ghosts>>

SmsAnswer(o) == post[o] = "stored" /\ Settle(o, "sent") /\ UNCHANGED losses

\* Unknown recipient, or not linked (any more: an id stored before is not looked for).
SmsRefused(o) ==
    /\ post[o] = "asked"
    /\ Settle(o, "failed") /\ UNCHANGED losses

\* An upload fails, or the POST or its answer is lost: failed, stored or not.
SmsLost(o) ==
    /\ post[o] # "idle" /\ losses < MaxLosses /\ losses' = losses + 1
    /\ Settle(o, "failed")

----------------------------------------------------------------------------
Serve == \E q \in requests : ServeThread(q) \/ ServeInbox(q)

Answer ==
    \E a \in answers : OpenAnswer(a) \/ OlderAnswer(a) \/ RefreshAnswer(a) \/ InboxAnswer(a)

\* A refresh, or its answer, is handled or lost.
AskedLands == \E q \in requests : q.kind = "refresh" /\ requests' = requests \ {q}
AnswerLands == \E a \in answers : a.q.kind = "refresh" /\ answers' = answers \ {a}

Next ==
    \/ \E r \in Rows : Arrive(r)
    \/ \E k \in Keys : OpenThread(k)
    \/ ChangeInbox \/ LoadOlder \/ RefreshTick \/ InboxTick
    \/ Serve \/ Answer
    \/ \E q \in requests \cup {a.q : a \in answers} : Lose(q)
    \/ \E o \in Submitted : Send(o) \/ Retry(o) \/ ServeSms(o) \/ SmsAnswer(o) \/ SmsRefused(o)
                         \/ SmsLost(o)

Spec == Init /\ [][Next]_vars

\* The 4-second timer of a visible tab fires, and what it asks does not stay under way
\* for ever (that it is not lost each time is the bound on losses).
FairSpec == Spec /\ WF_vars(RefreshTick) /\ WF_requests(AskedLands) /\ WF_answers(AnswerLands)

----------------------------------------------------------------------------
(* Properties.                                                             *)

\* Whatever answers come late, the screen shows only rows of the conversation
\* that is open: the `live` flags of the effects and loadOlder's check of the key.
LateAnswersIgnored ==
    \A r \in Rows : shown[r] > 0 => open # None /\ r \in RowsOf[ThreadOf[open]]

\* Paging skips nothing: of the rows the conversation had when it was opened, all
\* down to the cursor are shown, whatever times they share and whatever arrives
\* meanwhile, as long as no page asked for before a reopening or at another cursor
\* is merged (loadOlder checks the conversation only: a known limit of the README).
NoSkip ==
    ready /\ chain =>
        \A r \in base : cursor = None \/ ~Before(r, cursor) => shown[r] > 0

\* A submission is shown whenever the conversation is open under the key it was
\* sent with, pending, failed or sent, until the human can see its fate.
SubmissionsKept ==
    \A o \in Submitted : op[o] # "none" /\ opKey[o] = open => shown[o] > 0

\* The open conversation keeps coming up to date, though the inbox hands a message
\* out once and that answer, or any other, may be lost.
UpToDate ==
    open # None => \A r \in ThreadPage(ThreadOf[open], None).rows : shown[r] > 0

KeepsUpToDate == []<>UpToDate

----------------------------------------------------------------------------
(* The strengthening that makes the invariants inductive.                  *)

InFlight == requests \cup {a.q : a \in answers}

\* What is in flight for an effect of the screen is of the open conversation.
FlightFits ==
    \A q \in InFlight :
        /\ q.kind # "inbox" => q.key \in Keys
        /\ q.kind \in {"open", "refresh"} => q.key = open
        /\ q.kind = "open" => ~ready /\ q.from = None
        /\ q.kind = "older" => q.from \in Rows
        /\ q.kind = "older" /\ q.live => ready /\ q.key = open

\* One opening is in flight at most: asked, or answered.
OpeningOnce ==
    /\ \A q \in requests : q.kind = "open" =>
           /\ q = Ask("open", open, None)
           /\ \A a \in answers : a.q.kind # "open"
    /\ \A a, b \in answers : a.q.kind = "open" /\ b.q.kind = "open" => a = b

\* Only an open conversation has its opening answered, or a cursor.
OpenFits == open = None => ~ready /\ cursor = None

\* An answer brings rows of the conversation it was asked for.
AnswersFit ==
    \A a \in answers :
        /\ a.q.kind # "inbox" => a.rows \subseteq RowsOf[ThreadOf[a.q.key]]
        /\ a.q.kind = "open" => a.all \subseteq stored \cap RowsOf[ThreadOf[a.q.key]]

\* A row is shown twice only after the inbox poll appended it, once for ever.
TwiceIsSeen == \A r \in Rows : shown[r] = 2 => r \in seen

\* A submission is a row of the conversation whose key it carries.
SubmissionsFit ==
    \A o \in Submitted :
        /\ op[o] # "none" => opKey[o] \in Keys /\ o \in RowsOf[ThreadOf[opKey[o]]]
        /\ post[o] # "idle" => op[o] # "none"

\* The pages cover what lies between their cursors: the first page all rows the
\* conversation has then, a later one those of `base`.
PagesCover ==
    /\ ready => base \subseteq stored \cap RowsOf[ThreadOf[open]]
    /\ \A a \in answers :
        LET reached(r) == a.next = None \/ ~Before(r, a.next)
        IN  /\ a.q.kind = "open" => \A r \in a.all : reached(r) => r \in a.rows
            /\ a.q.kind = "older" /\ a.q.live =>
                   \A r \in base : Before(r, a.q.from) /\ reached(r) => r \in a.rows

IInv ==
    /\ TypeOK /\ IsFiniteSet(stored) /\ FlightFits /\ OpeningOnce /\ OpenFits /\ AnswersFit
    /\ TwiceIsSeen /\ SubmissionsFit /\ PagesCover
    /\ LateAnswersIgnored /\ NoSkip /\ SubmissionsKept
=============================================================================
