---------------------------- MODULE RemoteRelay ----------------------------
(***************************************************************************)
(* The store-and-forward path of a message to another machine: the remote  *)
(* branch of routeFromAgent (packages/hub/src/server.ts), the durable      *)
(* outbox and its flush loop (outbox.ts), the outbound state of the        *)
(* history row (history.ts), the daemon's forwardRemote and the upstream   *)
(* connection's relay (packages/sidecar), and the platform's `send`        *)
(* handler (packages/platform/src/hub-do.ts).                              *)
(*                                                                         *)
(* The flush loop waits in forward() while routes, timeouts, link events   *)
(* and answers go on around it.  Each file is replaced by a rename, so a   *)
(* save happens or does not; the process can die between two saves.        *)
(***************************************************************************)
EXTENDS Naturals, Sequences

CONSTANTS
    Agents,         \* exposed local agents, each with its own upstream link
    Msgs,           \* message ids, kept over the sender's retries
    From,           \* [Msgs -> Agents]
    Files,          \* the messages that carry attachments
    None,
    MaxDrops,       \* bound: link drops and failed uploads
    MaxTimeouts,    \* bound: receipt timeouts
    MaxCrashes,     \* bound: process ends
    MaxDiskErrors,  \* bound: saves that fail
    MaxFlips,       \* bound: links made or revoked on the platform
    MaxFaults       \* bound: all of these together

ASSUME FromAssumption == From \in [Msgs -> Agents]
ASSUME FilesAssumption == Files \subseteq Msgs
ASSUME NoneAssumption == None \notin Msgs
ASSUME BoundAssumption ==
    {MaxDrops, MaxTimeouts, MaxCrashes, MaxDiskErrors, MaxFlips, MaxFaults} \subseteq Nat

VARIABLES
    rows,       \* rows[m]: the outbox row's state in memory, "none" without one
    disk,       \* the same in outbox.json
    dirty,      \* the rows whose history may be behind (volatile)
    hist,       \* hist[m]: "none", "recorded" (no outbound_state), or the outbound_state
    histDisk,   \* the same in history.json
    phase,      \* the flush loop: "idle", "scan", "upload" (attachments) or "await" (receipt)
    todo,       \* the rows the running flush has not visited
    cur,        \* the row forward() is awaited for
    up,         \* the agents whose upstream link is ready
    toPlatform, \* toPlatform[a]: send frames; live while their link has not dropped
    toHub,      \* toHub[a]: receipts and errors on their way back
    allowed,    \* the messages the platform would route now: known recipient, linked
    stored,     \* the rows of the platform's messages table
    arrivals,   \* arrivals[m]: how often the platform has routed m
    expired,    \* the messages whose local attachment was swept
    queued,     \* the messages a sender was told are queued
    refused,    \* the messages that met a permanent refusal
    drops, timeouts, crashes, diskErrors, flips

outbox   == <<rows, disk, dirty>>
history  == <<hist, histDisk>>
loop     == <<phase, todo, cur>>
links    == <<up, toPlatform, toHub>>
platform == <<allowed, stored, arrivals>>
ghosts   == <<queued, refused>>
limits   == <<drops, timeouts, crashes, flips>>
vars == <<outbox, history, loop, links, platform, expired, ghosts, limits, diskErrors>>

Settled == {"sent", "failed"}
RowStates == {"none", "pending"} \cup Settled
HistStates == RowStates \cup {"recorded"}
Frames == [msg : Msgs, live : BOOLEAN]
Answers == [msg : Msgs, verdict : {"receipt", "refused"}]

-----------------------------------------------------------------------------
(* Helpers.                                                                *)

\* Outbox.enqueue: the row under an id, a new one when there is none.
EntryAnew(m) == "pending"   \* mutant: a retry starts the row over
Entry(m) == IF rows[m] = "none" THEN "pending" ELSE rows[m]

\* outbox.json after enqueue: saved when the row is new.
EnqueuedUnsaved(m) == disk   \* mutant: left for the next flush to save
Enqueued(m) == IF rows[m] = "none" THEN [rows EXCEPT ![m] = "pending"] ELSE disk

\* history.insertMessage: a new row is saved, an id seen before is left alone.
Inserted(m) == IF hist[m] = "none" THEN [hist EXCEPT ![m] = "recorded"] ELSE hist
InsertedOnDisk(m) == IF hist[m] = "none" THEN Inserted(m) ELSE histDisk

\* What a row becomes: a receipt settles it, a permanent error fails it, and
\* anything else (not ready, link drop, timeout, upload error) keeps it pending.
Outcome(answer) ==
    CASE answer = "receipt" -> "sent"
      [] answer = "refused" -> "failed"
      [] OTHER -> "pending"

\* The rows after a failed save in flush: the previous row is put back.
RolledBack(m, s) == rows

\* The history when outbox.save fails: untouched, it is marked after the save.
HistoryAfter(m, s) == hist

\* The rows a flush acts on: pending ones, and settled ones that are dirty.
WorkPending(outRows, late) == {m \in Msgs : outRows[m] = "pending"}   \* mutant: forgets the dirty
Work(outRows, late) ==
    {m \in Msgs : outRows[m] = "pending" \/ (outRows[m] \in Settled /\ m \in late)}

\* The constructor marks every row it loads dirty.
ReloadedClean(saved) == {}   \* mutant: trusts the history it loads
Reloaded(saved) == {m \in Msgs : saved[m] # "none"}

\* pendingReceipts.get(id): an answer counts for the message it names, if awaited.
AwaitedAny(m) == phase = "await"   \* mutant: an answer settles whatever is awaited
Awaited(m) == phase = "await" /\ cur = m

\* db.messageReceipt: the platform has seen this id.
Known(m) == m \in stored

-----------------------------------------------------------------------------
Init ==
    /\ rows = [m \in Msgs |-> "none"] /\ disk = [m \in Msgs |-> "none"]
    /\ dirty = {}
    /\ hist = [m \in Msgs |-> "none"] /\ histDisk = [m \in Msgs |-> "none"]
    /\ phase = "idle" /\ todo = {} /\ cur = None
    /\ up = {}
    /\ toPlatform = [a \in Agents |-> <<>>]
    /\ toHub = [a \in Agents |-> <<>>]
    /\ allowed \in SUBSET Msgs
    /\ stored = {} /\ arrivals = [m \in Msgs |-> 0]
    /\ expired = {} /\ queued = {} /\ refused = {}
    /\ drops = 0 /\ timeouts = 0 /\ crashes = 0 /\ diskErrors = 0 /\ flips = 0

-----------------------------------------------------------------------------
(* The remote branch of routeFromAgent.                                    *)

\* history.insertMessage, outbox.enqueue, history.markOutbound, then an answer
\* and, unless the row has failed, a flush if none is running.
Route(m) ==
    /\ rows' = [rows EXCEPT ![m] = Entry(m)]
    /\ disk' = Enqueued(m)
    /\ hist' = [hist EXCEPT ![m] = Entry(m)]
    /\ histDisk' = IF hist[m] = Entry(m) THEN histDisk ELSE hist'
    /\ queued' = IF Entry(m) = "failed" THEN queued ELSE queued \cup {m}
    /\ IF phase = "idle" /\ Entry(m) # "failed"
       THEN /\ todo' = Work(rows', dirty)
            /\ phase' = IF todo' = {} THEN "idle" ELSE "scan"
       ELSE UNCHANGED <<phase, todo>>
    /\ UNCHANGED <<dirty, cur, links, platform, expired, refused, limits, diskErrors>>

\* Another fault is within the bounds of the instance.
Spare == drops + timeouts + crashes + flips + diskErrors < MaxFaults

DiskError ==
    /\ diskErrors < MaxDiskErrors /\ Spare
    /\ diskErrors' = diskErrors + 1

\* insertMessage cannot save: it throws with the row left in memory.  (From a
\* WebSocket session nothing catches it and the process ends: Crash.)
RouteInsertFails(m) ==
    /\ hist[m] = "none"
    /\ DiskError
    /\ hist' = Inserted(m)
    /\ UNCHANGED <<outbox, histDisk, loop, links, platform, expired, ghosts, limits>>

\* enqueue cannot save: it throws and takes the row back.
RouteEnqueueFails(m) ==
    /\ rows[m] = "none"
    /\ DiskError
    /\ hist' = Inserted(m)
    /\ histDisk' = InsertedOnDisk(m)
    /\ UNCHANGED <<outbox, loop, links, platform, expired, ghosts, limits>>

\* markOutbound cannot save: it throws and takes its change back.
RouteMarkFails(m) ==
    /\ hist[m] # Entry(m)
    /\ DiskError
    /\ rows' = [rows EXCEPT ![m] = Entry(m)]
    /\ disk' = Enqueued(m)
    /\ hist' = Inserted(m)
    /\ histDisk' = InsertedOnDisk(m)
    /\ UNCHANGED <<dirty, loop, links, platform, expired, ghosts, limits>>

\* Any other handler that saves the history writes the rows it finds in memory.
HistorySaved ==
    /\ histDisk # hist
    /\ histDisk' = hist
    /\ UNCHANGED <<outbox, hist, loop, links, platform, expired, ghosts, limits, diskErrors>>

-----------------------------------------------------------------------------
(* The flush loop.  The rows are visited one at a time; their order is left *)
(* open.                                                                   *)

\* The two-second timer.
FlushStart ==
    /\ phase = "idle"
    /\ Work(rows, dirty) # {}
    /\ todo' = Work(rows, dirty)
    /\ phase' = "scan"
    /\ UNCHANGED <<outbox, history, cur, links, platform, expired, ghosts, limits, diskErrors>>

NextRow(m) ==
    /\ todo' = todo \ {m}
    /\ phase' = IF todo' = {} THEN "idle" ELSE "scan"
    /\ cur' = None

\* An exception leaves the loop; the finally clause ends the flush.
FlushThrows ==
    /\ todo' = {}
    /\ phase' = "idle"
    /\ cur' = None

\* history.markOutbound: a missing row, or one with this state (and error
\* text), is left alone.
MarkOutbound(m, s) ==
    \/ hist[m] \in {"none", s} /\ UNCHANGED history
    \/ hist[m] # "none" /\ hist' = [hist EXCEPT ![m] = s] /\ histDisk' = hist'

\* The end of a visit: the row's new state is saved, then the history marked.
\* A failed outbox save puts the row back, a failed history save leaves the
\* row dirty; both end the flush.
Settle(m, s) ==
    \/ /\ rows' = [rows EXCEPT ![m] = s]
       /\ disk' = rows'
       /\ MarkOutbound(m, s)
       /\ dirty' = dirty \ {m}
       /\ NextRow(m)
       /\ UNCHANGED diskErrors
    \/ /\ DiskError
       /\ rows' = RolledBack(m, s)
       /\ hist' = HistoryAfter(m, s)
       /\ FlushThrows
       /\ UNCHANGED <<disk, dirty, histDisk>>
    \/ /\ DiskError
       /\ hist[m] # "none"
       /\ rows' = [rows EXCEPT ![m] = s]
       /\ disk' = rows'
       /\ dirty' = dirty \cup {m}
       /\ FlushThrows
       /\ UNCHANGED history

\* A settled row whose history may be behind is marked again.
MarkLate(m) ==
    /\ phase = "scan"
    /\ m \in todo
    /\ rows[m] \in Settled
    /\ \/ MarkOutbound(m, rows[m]) /\ dirty' = dirty \ {m} /\ NextRow(m) /\ UNCHANGED diskErrors
       \/ DiskError /\ hist[m] \notin {"none", rows[m]} /\ FlushThrows /\ UNCHANGED <<history, dirty>>
    /\ UNCHANGED <<rows, disk, links, platform, expired, ghosts, limits>>

Visiting(m) == phase = "scan" /\ m \in todo /\ rows[m] = "pending"

\* forwardRemote without a ready link: a transient error.
NotReady(m) ==
    /\ Visiting(m)
    /\ From[m] \notin up
    /\ Settle(m, Outcome("lost"))
    /\ UNCHANGED <<links, platform, expired, ghosts, limits>>

\* A local attachment that is gone: a permanent error.
AttachmentGone(m) ==
    /\ Visiting(m)
    /\ From[m] \in up
    /\ m \in expired
    /\ Settle(m, Outcome("refused"))
    /\ refused' = refused \cup {m}
    /\ UNCHANGED <<links, platform, expired, queued, limits>>

\* The attachments are copied to the platform first.
StartUpload(m) ==
    /\ Visiting(m)
    /\ From[m] \in up
    /\ m \in Files \ expired
    /\ phase' = "upload"
    /\ cur' = m
    /\ UNCHANGED <<outbox, history, todo, links, platform, expired, ghosts, limits, diskErrors>>

\* The upload fails, or the link is gone when it is done.
UploadFails(m) ==
    /\ phase = "upload"
    /\ cur = m
    /\ IF From[m] \in up THEN drops < MaxDrops /\ Spare /\ drops' = drops + 1 ELSE UNCHANGED drops
    /\ Settle(m, Outcome("lost"))
    /\ UNCHANGED <<links, platform, expired, ghosts, timeouts, crashes, flips>>

\* connection.relay: the frame leaves and the receipt is awaited.
Relay(m) ==
    /\ \/ Visiting(m) /\ m \notin Files
       \/ phase = "upload" /\ cur = m
    /\ From[m] \in up
    /\ toPlatform' = [toPlatform EXCEPT ![From[m]] = Append(@, [msg |-> m, live |-> TRUE])]
    /\ phase' = "await"
    /\ cur' = m
    /\ UNCHANGED <<outbox, history, todo, up, toHub, platform, expired, ghosts, limits, diskErrors>>

\* A receipt or error frame: it settles the message it names if that is
\* awaited, from whichever attempt the answer comes, and is ignored otherwise.
Answer(a) ==
    LET ans == Head(toHub[a]) IN
    /\ toHub[a] # <<>>
    /\ toHub' = [toHub EXCEPT ![a] = Tail(@)]
    /\ IF Awaited(ans.msg)
       THEN Settle(cur, Outcome(ans.verdict))
       ELSE UNCHANGED <<outbox, history, loop, diskErrors>>
    /\ UNCHANGED <<up, toPlatform, platform, expired, ghosts, limits>>

\* Fifteen seconds without an answer.
Timeout(m) ==
    /\ phase = "await"
    /\ cur = m
    /\ timeouts < MaxTimeouts /\ Spare
    /\ timeouts' = timeouts + 1
    /\ Settle(m, Outcome("lost"))
    /\ UNCHANGED <<links, platform, expired, ghosts, drops, crashes, flips>>

-----------------------------------------------------------------------------
(* The links and the platform.                                             *)

LinkUp(a) ==
    /\ a \notin up
    /\ up' = up \cup {a}
    /\ UNCHANGED <<outbox, history, loop, toPlatform, toHub, platform, expired, ghosts, limits, diskErrors>>

\* Frames the link carried up may still be read, but nobody hears the answer.
Orphaned(frames) == [i \in DOMAIN frames |-> [frames[i] EXCEPT !.live = FALSE]]

\* The close event: receipts on the way are lost and the awaited one fails.
LinkDrop(a) ==
    /\ a \in up
    /\ drops < MaxDrops /\ Spare
    /\ drops' = drops + 1
    /\ up' = up \ {a}
    /\ toPlatform' = [toPlatform EXCEPT ![a] = Orphaned(@)]
    /\ toHub' = [toHub EXCEPT ![a] = <<>>]
    /\ IF phase = "await" /\ From[cur] = a
       THEN Settle(cur, Outcome("lost"))
       ELSE UNCHANGED <<outbox, history, loop, diskErrors>>
    /\ UNCHANGED <<platform, expired, ghosts, timeouts, crashes, flips>>

\* The platform's send handler: resolve and link check first, then the id; a
\* new one is routed and stored, and either way a receipt answers.
PlatformRecv(a) ==
    LET frame == Head(toPlatform[a])
        m == frame.msg
        verdict == IF m \in allowed THEN "receipt" ELSE "refused" IN
    /\ toPlatform[a] # <<>>
    /\ toPlatform' = [toPlatform EXCEPT ![a] = Tail(@)]
    /\ IF m \in allowed
       THEN /\ stored' = stored \cup {m}
            /\ arrivals' = IF Known(m) THEN arrivals ELSE [arrivals EXCEPT ![m] = @ + 1]
            /\ UNCHANGED refused
       ELSE /\ refused' = refused \cup {m}
            /\ UNCHANGED <<stored, arrivals>>
    /\ toHub' = IF frame.live
                THEN [toHub EXCEPT ![a] = Append(@, [msg |-> m, verdict |-> verdict])]
                ELSE toHub
    /\ UNCHANGED <<outbox, history, loop, up, allowed, expired, queued, limits, diskErrors>>

\* A frame of a dropped link that never arrived.
FrameLost(a) ==
    /\ toPlatform[a] # <<>>
    /\ ~Head(toPlatform[a]).live
    /\ toPlatform' = [toPlatform EXCEPT ![a] = Tail(@)]
    /\ UNCHANGED <<outbox, history, loop, up, toHub, platform, expired, ghosts, limits, diskErrors>>

\* A link to the recipient is made or revoked, its handle bound or moved.
Flip(m) ==
    /\ flips < MaxFlips /\ Spare
    /\ flips' = flips + 1
    /\ allowed' = IF m \in allowed THEN allowed \ {m} ELSE allowed \cup {m}
    /\ UNCHANGED <<outbox, history, loop, links, stored, arrivals, expired, ghosts, drops, timeouts, crashes, diskErrors>>

\* The sweep of the local file store takes the message's attachment.
Expire(m) ==
    /\ m \in Files \ expired
    /\ expired' = expired \cup {m}
    /\ UNCHANGED <<outbox, history, loop, links, platform, ghosts, limits, diskErrors>>

-----------------------------------------------------------------------------
(* The process ends and starts again from its files.                       *)

Restart ==
    /\ crashes < MaxCrashes /\ Spare
    /\ crashes' = crashes + 1
    /\ rows' = disk'
    /\ dirty' = Reloaded(disk')
    /\ hist' = histDisk'
    /\ phase' = "idle" /\ todo' = {} /\ cur' = None
    /\ up' = {}
    /\ toPlatform' = [a \in Agents |-> Orphaned(toPlatform[a])]
    /\ toHub' = [a \in Agents |-> <<>>]
    /\ UNCHANGED <<platform, expired, queued, drops, timeouts, flips, diskErrors>>

\* Between two steps.
Crash == UNCHANGED <<disk, histDisk, refused>> /\ Restart

\* Inside a route, after insertMessage's save and before or after enqueue's.
CrashInRoute(m) ==
    /\ histDisk' = InsertedOnDisk(m)
    /\ disk' \in {disk, Enqueued(m)}
    /\ UNCHANGED refused
    /\ Restart

\* Between the outbox save of a settled row and the history save.
CrashInSettle(m) ==
    /\ UNCHANGED histDisk
    /\ \/ /\ Visiting(m) /\ From[m] \in up /\ m \in expired
          /\ disk' = [disk EXCEPT ![m] = Outcome("refused")]
          /\ refused' = refused \cup {m}
       \/ /\ Awaited(m)
          /\ toHub[From[m]] # <<>>
          /\ Head(toHub[From[m]]).msg = m
          /\ disk' = [disk EXCEPT ![m] = Outcome(Head(toHub[From[m]]).verdict)]
          /\ UNCHANGED refused
    /\ Restart

-----------------------------------------------------------------------------
Routing(m) == Route(m) \/ RouteInsertFails(m) \/ RouteEnqueueFails(m) \/ RouteMarkFails(m)

Flushing(m) ==
    \/ MarkLate(m) \/ NotReady(m) \/ AttachmentGone(m)
    \/ StartUpload(m) \/ UploadFails(m) \/ Relay(m)

Linking(a) == Answer(a) \/ LinkUp(a) \/ LinkDrop(a) \/ PlatformRecv(a) \/ FrameLost(a)

Next ==
    \/ \E m \in Msgs : Routing(m) \/ Flushing(m) \/ Timeout(m) \/ Flip(m) \/ Expire(m)
    \/ \E a \in Agents : Linking(a)
    \/ FlushStart \/ HistorySaved
    \/ Crash \/ \E m \in Msgs : CrashInRoute(m) \/ CrashInSettle(m)

Spec == Init /\ [][Next]_vars

\* The timer keeps firing and the loop goes on, an upload ends, the link dials
\* again (backoff timer), the platform reads what arrives and its answers are
\* read.  Nothing is assumed of senders, of drops or of timeouts.
Fairness ==
    /\ WF_vars(FlushStart)
    /\ WF_vars(\E m \in Msgs : Flushing(m))
    /\ \A a \in Agents : WF_vars(LinkUp(a)) /\ WF_vars(PlatformRecv(a)) /\ WF_vars(Answer(a))

FairSpec == Spec /\ Fairness

-----------------------------------------------------------------------------
(* Properties.                                                             *)

TypeOK ==
    /\ rows \in [Msgs -> RowStates] /\ disk \in [Msgs -> RowStates]
    /\ dirty \subseteq Msgs
    /\ hist \in [Msgs -> HistStates] /\ histDisk \in [Msgs -> HistStates]
    /\ phase \in {"idle", "scan", "upload", "await"}
    /\ todo \subseteq Msgs
    /\ cur \in Msgs \cup {None}
    /\ up \subseteq Agents
    /\ toPlatform \in [Agents -> Seq(Frames)]
    /\ toHub \in [Agents -> Seq(Answers)]
    /\ allowed \subseteq Msgs /\ stored \subseteq Msgs
    /\ arrivals \in [Msgs -> Nat]
    /\ expired \subseteq Msgs /\ queued \subseteq Msgs /\ refused \subseteq Msgs
    /\ {drops, timeouts, crashes, diskErrors, flips} \subseteq Nat

\* Between two steps the outbox in memory is the outbox on disk, although
\* saves fail and rows are rolled back: a restart changes no row.
MemoryIsDisk == rows = disk

\* A sender that was told "queued" has an outbox row and a history row on disk,
\* whatever saves failed or crashes came before or after the answer.
QueuedIsDurable == \A m \in queued : disk[m] # "none" /\ histDisk[m] # "none"

\* "sent", in the outbox or the history, is only said of a message the platform
\* has: answers of an earlier attempt or another message never mislead it.
SentImpliesStored ==
    \A m \in Msgs : "sent" \in {disk[m], hist[m], histDisk[m]} => m \in stored

\* "failed" is only said after a permanent refusal: no timeout, drop, upload
\* error, failed save or crash, in whatever order, gives a message up.
FailedWasRefused ==
    \A m \in Msgs : "failed" \in {disk[m], hist[m], histDisk[m]} => m \in refused

\* The history never claims a result that the outbox would not find again
\* after a restart.
HistoryNeverAhead ==
    \A m \in Msgs : \A h \in {hist[m], histDisk[m]} : h \in Settled => disk[m] = h

\* A history row that still says pending belongs to a message that is pending,
\* or to one the next flush marks: no failed save or crash leaves it behind.
HistoryFollows ==
    \A m \in Msgs : rows[m] \in Settled /\ hist[m] = "pending" => m \in dirty

\* The outbox keeps the promise of StoreAndForward: its rows on disk are the
\* status, and the platform routes every message at most once.
Promise == INSTANCE StoreAndForward WITH status <- disk
PromiseKept == Promise!Spec

\* A message answered "queued" is settled one day and its history row says so,
\* once drops, timeouts, crashes and failing saves stop.
EventuallySettled ==
    \A m \in Msgs : m \in queued ~> rows[m] \in Settled /\ hist[m] = rows[m]

-----------------------------------------------------------------------------
(* The inductive invariant behind the safety properties and PromiseKept      *)
(* (RemoteRelayProofs).                                                     *)

\* A history row on disk is not missing in memory, and only a row just inserted
\* can be missing on disk.
HistoryKept ==
    \A m \in Msgs :
        /\ histDisk[m] # "none" => hist[m] # "none"
        /\ hist[m] \notin {"none", "recorded"} => histDisk[m] # "none"

\* Answers on the way are true of the platform they come from.
AnswersTrue ==
    \A a \in Agents : \A i \in DOMAIN toHub[a] :
        LET ans == toHub[a][i] IN
        /\ ans.verdict = "receipt" => ans.msg \in stored
        /\ ans.verdict = "refused" => ans.msg \in refused

\* Only messages with a row on disk are on their way.
FramesAccepted ==
    \A a \in Agents : \A i \in DOMAIN toPlatform[a] : disk[toPlatform[a][i].msg] # "none"

\* While the flush waits, the row it waits for is pending.
InFlightIsPending == phase \in {"upload", "await"} => cur \in Msgs /\ rows[cur] = "pending"

\* The platform routes a message when it stores it.
ArrivedIsStored ==
    /\ arrivals = [m \in Msgs |-> IF m \in stored THEN 1 ELSE 0]
    /\ \A m \in stored : disk[m] # "none"

IInv ==
    /\ TypeOK /\ MemoryIsDisk /\ HistoryKept /\ QueuedIsDurable
    /\ AnswersTrue /\ FramesAccepted /\ InFlightIsPending /\ ArrivedIsStored
    /\ SentImpliesStored /\ FailedWasRefused /\ HistoryNeverAhead /\ HistoryFollows
=============================================================================
