---------------------------- MODULE HistorySync ----------------------------
(***************************************************************************)
(* The cross-hub history mirror: the daemon's SyncEngine copies records of *)
(* the local history to an account-private table of the platform (push),   *)
(* copies what the account may see back (pull), and forwards the marks of  *)
(* its agents' reads.  The platform keeps the mirrored rows apart from the *)
(* live ones, and a change log gives every inserted or updated row a new   *)
(* revision, which is what the pull's cursor counts.                       *)
(*                                                                         *)
(* One account, its human and one agent of the machine, which may be       *)
(* exposed and withdrawn: every exposure mints a new platform identity.    *)
(* A record is a message or a call.  Its row is cut down to what the merge *)
(* and the refusals look at: the identity it names for the agent (0 is the *)
(* local id), the earliest time the human read it, the earliest time the agent   *)
(* read it, and the state of a call.                                       *)
(***************************************************************************)
EXTENDS Integers, FiniteSets, FiniteSetsExt, Functions

CONSTANTS
  Msgs, Calls,        \* the records, by kind
  WithHuman,          \* the records the account's human is a party of
  WithAgent,          \* the records the machine's agent is a party of
  ToAgent,            \* of those, the messages addressed to the agent
  PushSize, PullSize, \* records in a pushed batch and in a pulled page
  MaxRecords,         \* bound: records that come to exist
  MaxIdents,          \* bound: exposures of the agent
  MaxTime,            \* bound: clock
  MaxFaults           \* bound: lost answers, failed saves, crashes

Records == Msgs \cup Calls

ASSUME RecordsAssumption ==
  /\ IsFiniteSet(Records)
  /\ Msgs \cap Calls = {}
  /\ WithHuman \subseteq Records
  /\ WithAgent \subseteq Records
  /\ WithHuman \cup WithAgent = Records
  /\ ToAgent \subseteq WithAgent \cap Msgs

ASSUME BoundsAssumption ==
  /\ PushSize \in Nat \ {0}
  /\ PullSize \in Nat \ {0}
  /\ MaxRecords \in Nat \ {0}
  /\ MaxIdents \in Nat
  /\ MaxTime \in Nat \ {0}
  /\ MaxFaults \in Nat

VARIABLES
  local,      \* history.json: Records -> row, or Absent
  store,      \* the platform's rows, by source: "live" tables and "mirror"
  changes,    \* sync_changes: the latest revision of each platform row, or 0
  revision,   \* the last revision given out
  ident,      \* the agent's platform identity, 0 while it is not exposed
  minted,     \* identities minted so far
  cursors,    \* the engine's progress, in memory
  saved,      \* the progress in sync.json
  pc,         \* what the pass under way is waiting for
  ctx,        \* the identity the pass's context maps the agent to
  pending,    \* the rows still to push, as they were when the push began
  page,       \* the batch or page of the request under way
  now,        \* the clock, of both machines
  faults

platform == <<store, changes, revision>>
pass == <<pc, ctx, pending, page>>
vars == <<local, platform, ident, minted, cursors, saved, pass, now, faults>>

---------------------------------------------------------------------------
(* Rows and how they merge.                                                *)

Sources == {"live", "mirror"}
Idents == 0 .. MaxIdents
Times == 0 .. MaxTime
Phases == {"none", "ringing", "active", "ended", "missed"}
Row == [agent : Idents, read : Times, seen : Times, state : Phases]
Absent == [agent |-> 0, read |-> 0, seen |-> 0, state |-> "absent"]

Terminal(state) == state \notin {"ringing", "active"}

\* The earlier of two times, where 0 is no time.
First(a, b) == IF a = 0 \/ (b # 0 /\ b < a) THEN b ELSE a

\* Receipts keep the earliest mark; a call's state only advances to an
\* answered one or out of an open one.
MergeLatest(old, new) == [old EXCEPT !.read = new.read]   \* mutant: the incoming mark wins
Merge(old, new) ==
  LET advanced == ~Terminal(old.state) /\ (Terminal(new.state) \/ new.state = "active")
  IN  [old EXCEPT !.read = First(old.read, new.read),
                  !.seen = First(old.seen, new.seen),
                  !.state = IF advanced THEN new.state ELSE old.state]

Fresh(r, agent) ==
  [agent |-> agent, read |-> 0, seen |-> 0,
   state |-> IF r \in Calls THEN "ringing" ELSE "none"]

\* What an answer or a close does to a call, on either side.
NextState(state) ==
  CASE state = "ringing" -> {"active", "missed"}
    [] state = "active" -> {"ended"}
    [] OTHER -> {}

---------------------------------------------------------------------------
(* The platform's side.                                                    *)

\* The identities of the account's agents, apart from its human.
OwnedIdents == {ident} \ {0}
Owned(r, row) == r \in WithHuman \/ (r \in WithAgent /\ row.agent \in OwnedIdents)

\* Live records win on ID collisions.
Shown(r) == IF store["live"][r] # Absent THEN store["live"][r] ELSE store["mirror"][r]

\* The change log's triggers: every row written gets a new revision.
Write(rows) ==
  /\ store' = [s \in Sources |-> [r \in Records |->
                 IF <<s, r>> \in DOMAIN rows THEN rows[<<s, r>>] ELSE store[s][r]]]
  /\ \E order \in [DOMAIN rows -> revision + 1 .. revision + Cardinality(DOMAIN rows)] :
       /\ IsInjective(order)
       /\ changes' = [s \in Sources |-> [r \in Records |->
                        IF <<s, r>> \in DOMAIN rows THEN order[<<s, r>>] ELSE changes[s][r]]]
  /\ revision' = revision + Cardinality(DOMAIN rows)

\* A batch is refused whole: a row no party of which the account owns, or one
\* whose participants are not those of the row already mirrored.
Refused(batch) ==
  \E r \in DOMAIN batch :
    \/ ~Owned(r, batch[r])
    \/ store["mirror"][r] # Absent /\ store["mirror"][r].agent # batch[r].agent

Ingested(batch) ==
  LET data(r) == IF store["mirror"][r] = Absent THEN batch[r]
                 ELSE Merge(store["mirror"][r], batch[r])
      written == {r \in DOMAIN batch : data(r) # store["mirror"][r]}
  IN  [w \in {"mirror"} \X written |-> data(w[2])]

\* The changes the account sees after a revision.
ChangesAfter(cursor) ==
  {w \in Sources \X Records :
     /\ changes[w[1]][w[2]] > cursor
     /\ w[1] = "live" => Owned(w[2], store["live"][w[2]])}

NextCursor(cursor, revs) == Max({cursor} \cup revs)

SyncPage(cursor) ==
  LET after == ChangesAfter(cursor)
      rev(w) == changes[w[1]][w[2]]
      taken == {w \in after : Cardinality({v \in after : rev(v) <= rev(w)}) <= PullSize}
      shown == {r \in Records : (\E w \in taken : w[2] = r) /\ Owned(r, Shown(r))}
  IN  [rows |-> [r \in shown |-> Shown(r)],
       next |-> NextCursor(cursor, {rev(w) : w \in taken}),
       more |-> Cardinality(after) > PullSize]

\* Which of the rows an agent-read mark names it stamps, and when it is refused.
Marked(ids) == {w \in Sources \X ids : store[w[1]][w[2]] # Absent}
ReadsRefused(ids) ==
  \E w \in Marked(ids) : store[w[1]][w[2]].agent \notin OwnedIdents
ReadMarks(ids) ==
  LET unread == {w \in Marked(ids) : store[w[1]][w[2]].seen = 0}
  IN  [w \in unread |-> [store[w[1]][w[2]] EXCEPT !.seen = now]]

---------------------------------------------------------------------------
(* The engine's view of the local history.                                 *)

NotPushed == Absent
NoPage == [rows |-> <<>>, next |-> 0, more |-> FALSE]
Start(context) ==
  [context |-> context, pull |-> 0, reads |-> 0, pushed |-> [r \in Records |-> NotPushed]]

ToLocal(r, row) ==
  IF r \in WithAgent /\ row.agent = ctx THEN [row EXCEPT !.agent = 0] ELSE row

\* One party must be a platform identity of the account (the OR rule).
InScope(r, context) ==
  /\ local[r] # Absent
  /\ r \in WithHuman \/ (context # 0 /\ local[r].agent = 0)

\* The row as it would be pushed under a context.
Mapped(r, context) ==
  IF r \in WithAgent /\ local[r].agent = 0 THEN [local[r] EXCEPT !.agent = context] ELSE local[r]

DueOnce(row, hash) == hash = NotPushed   \* mutant: a record is pushed once
Due(row, hash) == row # hash

Unpushed(context, progress) ==
  LET due == {r \in Records : InScope(r, context) /\ Due(Mapped(r, context), progress.pushed[r])}
  IN  [r \in due |-> Mapped(r, context)]

\* What is recorded as pushed once a batch is answered.
RowsNow(batch) == [r \in DOMAIN batch |-> Mapped(r, ctx)]   \* mutant: hashes the rows after the request
RowsPushed(batch) == batch

\* The progress a pass starts from.
ResumedAlways(context) == [cursors EXCEPT !.context = context]   \* mutant: no reset under a new context
Resumed(context) == IF cursors.context = context THEN cursors ELSE Start(context)

\* The cursor of reads forwarded, given the time they were captured.
ReadCursorNow(captured) == now   \* mutant: the clock when the answer arrives
ReadCursor(captured) == captured - 1

\* A page of the platform merged into the local rows; a message's agent is
\* repaired to its local id where the context maps it, a call's is not.
Imported(rows) ==
  [r \in Records |->
     IF r \notin DOMAIN rows THEN local[r]
     ELSE LET row == ToLocal(r, rows[r])
              merged == Merge(local[r], row)
          IN  CASE local[r] = Absent -> row
                [] local[r] # Absent /\ r \in Msgs /\ row.agent # rows[r].agent ->
                     [merged EXCEPT !.agent = row.agent]
                [] OTHER -> merged]

UnforwardedReads ==
  {r \in ToAgent : /\ local[r] # Absent
                   /\ local[r].seen > cursors.reads
                   /\ ctx # 0 /\ local[r].agent \in {0, ctx}}

---------------------------------------------------------------------------
TypeOK ==
  /\ local \in [Records -> Row \cup {Absent}]
  /\ store \in [Sources -> [Records -> Row \cup {Absent}]]
  /\ changes \in [Sources -> [Records -> 0 .. revision]]
  /\ revision \in Nat
  /\ ident \in 0 .. minted
  /\ minted \in Idents
  /\ {cursors, saved} \subseteq
       [context : -1 .. MaxIdents, pull : 0 .. revision, reads : 0 .. now,
        pushed : [Records -> Row \cup {NotPushed}]]
  /\ pc \in {"idle", "push", "posted", "pull", "pulled", "reads", "marked"}
  /\ ctx \in Idents
  /\ DOMAIN pending \subseteq Records
  /\ now \in Times
  /\ faults \in 0 .. MaxFaults

Init ==
  /\ local = [r \in Records |-> Absent]
  /\ store = [s \in Sources |-> [r \in Records |-> Absent]]
  /\ changes = [s \in Sources |-> [r \in Records |-> 0]]
  /\ revision = 0
  /\ ident = 0
  /\ minted = 0
  /\ cursors = Start(-1)
  /\ saved = Start(-1)
  /\ pc = "idle"
  /\ ctx = 0
  /\ pending = <<>>
  /\ page = NoPage
  /\ now = 1
  /\ faults = 0

---------------------------------------------------------------------------
(* One pass: push, pull, agent reads.                                      *)

Idle == pc' = "idle" /\ pending' = <<>> /\ page' = NoPage /\ ctx' = 0

\* The progress file is replaced, or the save fails, the progress is read back
\* from the file and the pass ends.
SaveAndGo(progress, next, rest) ==
  \/ /\ cursors' = progress
     /\ saved' = progress
     /\ pc' = next
     /\ pending' = rest
     /\ page' = NoPage
     /\ UNCHANGED <<ctx, faults>>
  \/ /\ faults < MaxFaults
     /\ faults' = faults + 1
     /\ cursors' = saved
     /\ UNCHANGED saved
     /\ Idle

\* A tick of the timer: the context is built from the accounts' agents as they
\* are now, progress made under another one is dropped, and the rows to push
\* are captured.
SyncOnce ==
  /\ pc = "idle"
  /\ cursors' = Resumed(ident)
  /\ pending' = Unpushed(ident, Resumed(ident))
  /\ ctx' = ident
  /\ pc' = "push"
  /\ UNCHANGED <<local, platform, ident, minted, saved, page, now, faults>>

\* The platform takes a batch, or refuses it: then the pass ends.
Post ==
  /\ pc = "push"
  /\ \E S \in SUBSET DOMAIN pending :
       /\ S # {}
       /\ Cardinality(S) = Min({PushSize, Cardinality(DOMAIN pending)})
       /\ LET batch == [r \in S |-> pending[r]]
          IN  IF Refused(batch)
              THEN Idle /\ UNCHANGED platform
              ELSE /\ Write(Ingested(batch))
                   /\ pc' = "posted"
                   /\ page' = [NoPage EXCEPT !.rows = batch]
                   /\ UNCHANGED <<ctx, pending>>
  /\ UNCHANGED <<local, ident, minted, cursors, saved, now, faults>>

\* The answer arrives: what was posted is recorded as pushed.
PostAnswered ==
  /\ pc = "posted"
  /\ LET batch == page.rows
         sent == RowsPushed(batch)
         progress == [cursors EXCEPT !.pushed =
                        [r \in Records |-> IF r \in DOMAIN sent THEN sent[r] ELSE @[r]]]
         rest == [r \in DOMAIN pending \ DOMAIN batch |-> pending[r]]
     IN  SaveAndGo(progress, "push", rest)
  /\ UNCHANGED <<local, platform, ident, minted, now>>

PushDone ==
  /\ pc = "push"
  /\ DOMAIN pending = {}
  /\ pc' = "pull"
  /\ UNCHANGED <<local, platform, ident, minted, cursors, saved, ctx, pending, page, now, faults>>

\* The platform reads a page of changes after the cursor.
Pull ==
  /\ pc = "pull"
  /\ page' = SyncPage(cursors.pull)
  /\ pc' = "pulled"
  /\ UNCHANGED <<local, platform, ident, minted, cursors, saved, ctx, pending, now, faults>>

\* The page is imported with one save of the history, and then the cursor is
\* saved; either save may fail, and a crash between the two is the second's.
PageArrived ==
  /\ pc = "pulled"
  /\ \/ /\ local' = Imported(page.rows)
        /\ SaveAndGo([cursors EXCEPT !.pull = page.next],
                     IF page.more THEN "pull" ELSE "reads", pending)
     \/ /\ faults < MaxFaults
        /\ faults' = faults + 1
        /\ Idle
        /\ UNCHANGED <<local, cursors, saved>>
  /\ UNCHANGED <<platform, ident, minted, now>>

\* The reads of owned agents made since the cursor are sent; the time of the
\* capture is kept (in page.next) across the request.
PushAgentReads ==
  /\ pc = "reads"
  /\ IF UnforwardedReads = {} \/ ReadsRefused(UnforwardedReads)
     THEN Idle /\ UNCHANGED platform
     ELSE /\ Write(ReadMarks(UnforwardedReads))
          /\ page' = [NoPage EXCEPT !.next = now]
          /\ pc' = "marked"
          /\ UNCHANGED <<ctx, pending>>
  /\ UNCHANGED <<local, ident, minted, cursors, saved, now, faults>>

ReadsAnswered ==
  /\ pc = "marked"
  /\ LET progress == [cursors EXCEPT !.reads = ReadCursor(page.next)]
     IN  \/ cursors' = progress /\ saved' = progress /\ UNCHANGED faults
         \/ /\ faults < MaxFaults
            /\ faults' = faults + 1
            /\ cursors' = saved
            /\ UNCHANGED saved
  /\ Idle
  /\ UNCHANGED <<local, platform, ident, minted, now>>

\* A request or its answer is lost, or the daemon stops and starts again.
PassLost ==
  /\ pc # "idle"
  /\ faults < MaxFaults
  /\ faults' = faults + 1
  /\ cursors' \in {cursors, saved}
  /\ Idle
  /\ UNCHANGED <<local, platform, ident, minted, saved, now>>

---------------------------------------------------------------------------
(* What happens around the engine.                                         *)

MayExist(r) ==
  Cardinality({r} \cup {q \in Records : local[q] # Absent \/ store["live"][q] # Absent})
    <= MaxRecords

\* A record appears in the local history: a local send, an injected inbound.
LocalInsert(r) ==
  /\ local[r] = Absent
  /\ MayExist(r)
  /\ local' = [local EXCEPT ![r] = Fresh(r, 0)]
  /\ UNCHANGED <<platform, ident, minted, cursors, saved, pass, now, faults>>

\* The human reads a message in the local console.
LocalRead(r) ==
  /\ r \in Msgs \cap WithHuman /\ local[r] # Absent /\ local[r].read = 0
  /\ local' = [local EXCEPT ![r].read = now]
  /\ UNCHANGED <<platform, ident, minted, cursors, saved, pass, now, faults>>

LocalAgentRead(r) ==
  /\ r \in ToAgent /\ local[r] # Absent /\ local[r].seen = 0
  /\ local' = [local EXCEPT ![r].seen = now]
  /\ UNCHANGED <<platform, ident, minted, cursors, saved, pass, now, faults>>

LocalCall(r) ==
  /\ r \in Calls /\ local[r] # Absent
  /\ \E state \in NextState(local[r].state) : local' = [local EXCEPT ![r].state = state]
  /\ UNCHANGED <<platform, ident, minted, cursors, saved, pass, now, faults>>

\* A record is routed on the platform.  One to the agent is routed there
\* before it reaches the machine.
LiveInsert(r) ==
  /\ store["live"][r] = Absent
  /\ MayExist(r)
  /\ r \in WithAgent => ident # 0
  /\ r \in ToAgent => local[r] = Absent
  /\ Write([w \in {<<"live", r>>} |-> Fresh(r, IF r \in WithAgent THEN ident ELSE 0)])
  /\ UNCHANGED <<local, ident, minted, cursors, saved, pass, now, faults>>

\* The web console opens the thread: live and mirrored rows are both marked.
PlatformRead(r) ==
  /\ r \in Msgs \cap WithHuman
  /\ LET unread == {s \in Sources : store[s][r] # Absent /\ store[s][r].read = 0}
     IN  /\ unread # {}
         /\ Write([w \in unread \X {r} |-> [store[w[1]][r] EXCEPT !.read = now]])
  /\ UNCHANGED <<local, ident, minted, cursors, saved, pass, now, faults>>

PlatformCall(r) ==
  /\ r \in Calls /\ store["live"][r] # Absent
  /\ \E state \in NextState(store["live"][r].state) :
       Write([w \in {<<"live", r>>} |-> [store["live"][r] EXCEPT !.state = state]])
  /\ UNCHANGED <<local, ident, minted, cursors, saved, pass, now, faults>>

Expose ==
  /\ ident = 0 /\ minted < MaxIdents
  /\ ident' = minted + 1
  /\ minted' = minted + 1
  /\ UNCHANGED <<local, platform, cursors, saved, pass, now, faults>>

Unexpose ==
  /\ ident # 0
  /\ ident' = 0
  /\ UNCHANGED <<local, platform, minted, cursors, saved, pass, now, faults>>

Tick ==
  /\ now < MaxTime
  /\ now' = now + 1
  /\ UNCHANGED <<local, platform, ident, minted, cursors, saved, pass, faults>>

---------------------------------------------------------------------------
Engine ==
  SyncOnce \/ Post \/ PostAnswered \/ PushDone \/ Pull \/ PageArrived
    \/ PushAgentReads \/ ReadsAnswered

Next ==
  \/ Engine
  \/ PassLost
  \/ \E r \in Records :
       \/ LocalInsert(r) \/ LocalRead(r) \/ LocalAgentRead(r) \/ LocalCall(r)
       \/ LiveInsert(r) \/ PlatformRead(r) \/ PlatformCall(r)
  \/ Expose \/ Unexpose \/ Tick

\* The timer ticks and every request is answered or times out.
Fairness == WF_vars(Engine)

Spec == Init /\ [][Next]_vars /\ Fairness

---------------------------------------------------------------------------
(* Properties.                                                             *)

\* Nothing of the second row would change the first.
Absorbed(old, new) == old # Absent /\ Merge(old, new) = old

\* A pull cursor never passes a change the machine has not imported: under the
\* context the cursor belongs to, every row the account sees whose revisions
\* all lie at or before it is in the local history with every receipt and state
\* the platform shows, and a message names the exposed agent by its local id
\* (pages, updates during a page, crashes between the import and the save of the
\* cursor, exposures during a pass).
CursorCovers ==
  \A c \in {cursors, saved} : c.context = ident =>
    \A r \in Records :
      LET seen == {s \in Sources : /\ store[s][r] # Absent
                                   /\ s = "live" => Owned(r, store["live"][r])}
      IN  /\ seen # {}
          /\ Owned(r, Shown(r))
          /\ \A s \in seen : changes[s][r] <= c.pull
          => /\ Absorbed(local[r], Shown(r))
             /\ r \in Msgs \cap WithAgent => local[r].agent \notin OwnedIdents

\* What is recorded as pushed is on the platform: the mirror holds every
\* receipt and state of the row whose hash was saved, so that a row that is
\* not pending again has nothing the platform lacks.
PushedIsMirrored ==
  \A c \in {cursors, saved} : \A r \in Records :
    c.pushed[r] # NotPushed => Absorbed(store["mirror"][r], c.pushed[r])

\* An agent's read never falls behind the cursor of forwarded reads: one at or
\* before it is marked on the platform's live row of the message, if the
\* exposed agent owns that.
ReadsForwarded ==
  \A c \in {cursors, saved} : c.context = ident =>
    \A r \in ToAgent :
      /\ local[r] # Absent
      /\ local[r].seen \in 1 .. c.reads
      /\ store["live"][r] # Absent
      /\ store["live"][r].agent \in OwnedIdents
      => store["live"][r].seen # 0

\* Whatever the order in which replicas are merged, none takes back what it
\* showed: a receipt stays and moves only to an earlier time, and a call that
\* is over keeps its outcome.
NothingTakenBack ==
  [][\A r \in Records :
       \A pair \in {<<local[r], local'[r]>>, <<store["live"][r], store'["live"][r]>>,
                    <<store["mirror"][r], store'["mirror"][r]>>} :
         LET old == pair[1]
             new == pair[2]
         IN  old # Absent =>
               /\ old.read # 0 => new.read \in 1 .. old.read
               /\ old.seen # 0 => new.seen \in 1 .. old.seen
               /\ Terminal(old.state) => new.state = old.state]_vars

\* The platform holds a row under other participants than the engine now maps
\* the record to.
Contradicted ==
  \E r \in Records :
    /\ InScope(r, ident)
    /\ store["mirror"][r] # Absent
    /\ store["mirror"][r].agent # Mapped(r, ident).agent

\* Both sides hold what the other shows, as far as the rules let them.
Agreed ==
  \A r \in Records :
    /\ Shown(r) # Absent /\ Owned(r, Shown(r)) => Absorbed(local[r], Shown(r))
    /\ InScope(r, ident) => Absorbed(store["mirror"][r], local[r])

\* Once the world is quiet the two histories agree and stay so, if no row has
\* to be pushed under participants the platform refuses.
MirrorsConverge == []~Contradicted => <>[]Agreed


\* The strengthening that makes PushedIsMirrored inductive: what the request
\* under way carries, that a row with a revision exists, and that the mirror
\* has whatever has been posted.
Carried ==
  /\ now # 0
  /\ DOMAIN page.rows \subseteq Records
  /\ \A r \in DOMAIN page.rows : page.rows[r] \in Row
  /\ \A r \in DOMAIN pending : pending[r] \in Row
  /\ pc = "pulled" => page.next \in 0 .. revision
  /\ pc = "marked" => page.next \in 1 .. now

Revised == \A s \in Sources, r \in Records : changes[s][r] # 0 => store[s][r] # Absent

PostedIsMirrored ==
  pc = "posted" => \A r \in DOMAIN page.rows : Absorbed(store["mirror"][r], page.rows[r])

IInv == TypeOK /\ Carried /\ Revised /\ PostedIsMirrored /\ PushedIsMirrored

\* Every read, up to a time, of a message that a platform identity was sent is
\* marked on the platform's live row.
ForwardedTo(agent, upto) ==
  \A r \in ToAgent :
    /\ local[r] # Absent /\ local[r].seen \in 1 .. upto
    /\ store["live"][r] # Absent /\ store["live"][r].agent = agent /\ agent # 0
    => store["live"][r].seen # 0

\* A record of the local history names the agent by its local id, or as the
\* platform's live row does.
Named(r) ==
  local[r] # Absent =>
    \/ local[r].agent = 0
    \/ store["live"][r] # Absent /\ local[r].agent = store["live"][r].agent

\* A row of a page that is new to the machine came from a live one, and a read
\* it shows is one the live row has.
Paged(r) ==
  /\ local[r] = Absent =>
       store["live"][r] # Absent /\ page.rows[r].agent = store["live"][r].agent
  /\ r \in ToAgent /\ store["live"][r] # Absent /\ page.rows[r].seen # 0 =>
       store["live"][r].seen # 0

\* The strengthening that makes ReadsForwarded inductive: the cursors lie behind
\* the clock, what a request under way stands for is true when it is answered,
\* and only records that were local are pushed and mirrored.
ReadsInv ==
  /\ \A c \in {cursors, saved} : c.reads < now /\ ForwardedTo(c.context, c.reads)
  /\ pc # "idle" => cursors.context = ctx
  /\ pc = "marked" => ForwardedTo(ctx, page.next - 1)
  /\ pc = "pulled" => \A r \in DOMAIN page.rows : Paged(r)
  /\ \A r \in DOMAIN pending : local[r] # Absent
  /\ \A r \in Records : store["mirror"][r] # Absent => local[r] # Absent
  /\ \A r \in Records : Named(r)

\* Owned, of a record shown to a given identity.
OwnedBy(agent, r, row) == r \in WithHuman \/ (r \in WithAgent /\ row.agent \in {agent} \ {0})

\* The account of the identity sees the record, and no change of it is later
\* than the revision.
Passed(agent, r, upto) ==
  /\ Shown(r) # Absent
  /\ OwnedBy(agent, r, Shown(r))
  /\ \A s \in Sources : changes[s][r] <= upto

Covered(agent, upto) ==
  \A r \in Records : Passed(agent, r, upto) =>
    /\ Absorbed(local[r], Shown(r))
    /\ r \in Msgs \cap WithAgent => local[r].agent \notin {agent} \ {0}

\* The strengthening that makes CursorCovers inductive: it holds as well of a
\* context that no exposure is made under, which a withdrawal returns to; a page
\* holds what its cursor passes and the earlier one did not; every row has a
\* revision and no context is of an identity still to be minted.
CoverInv ==
  /\ \A c \in {cursors, saved} :
       /\ c.context <= minted
       /\ c.context \in {0, ident} => Covered(c.context, c.pull)
  /\ pc = "pulled" /\ ctx \in {0, ident} =>
       \A r \in Records : Passed(ctx, r, page.next) /\ ~Passed(ctx, r, cursors.pull) =>
         r \in DOMAIN page.rows /\ page.rows[r] = Shown(r)
  /\ \A s \in Sources, r \in Records : store[s][r] # Absent => changes[s][r] # 0

=============================================================================
