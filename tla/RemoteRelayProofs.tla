------------------------- MODULE RemoteRelayProofs -------------------------
(***************************************************************************)
(* Theorems about RemoteRelay, for any agents, messages, attachments and   *)
(* bounds.  The invariant IInv is proved in two halves: the ledger (outbox *)
(* and history, which every row's visit changes through Settle) and the    *)
(* traffic (the flush loop, the links and the platform).                   *)
(***************************************************************************)
EXTENDS RemoteRelay, SequenceTheorems, TLAPS

LedgerType ==
    /\ rows \in [Msgs -> RowStates] /\ disk \in [Msgs -> RowStates]
    /\ dirty \subseteq Msgs
    /\ hist \in [Msgs -> HistStates] /\ histDisk \in [Msgs -> HistStates]
    /\ queued \subseteq Msgs /\ refused \subseteq Msgs

Ledger ==
    /\ LedgerType /\ MemoryIsDisk /\ HistoryKept /\ QueuedIsDurable
    /\ SentImpliesStored /\ FailedWasRefused /\ HistoryNeverAhead /\ HistoryFollows

TrafficType ==
    /\ phase \in {"idle", "scan", "upload", "await"}
    /\ todo \subseteq Msgs
    /\ cur \in Msgs \cup {None}
    /\ up \subseteq Agents
    /\ toPlatform \in [Agents -> Seq(Frames)]
    /\ toHub \in [Agents -> Seq(Answers)]
    /\ allowed \subseteq Msgs /\ stored \subseteq Msgs
    /\ arrivals \in [Msgs -> Nat]
    /\ expired \subseteq Msgs
    /\ {drops, timeouts, crashes, diskErrors, flips} \subseteq Nat

Traffic ==
    /\ TrafficType /\ AnswersTrue /\ FramesAccepted /\ InFlightIsPending /\ ArrivedIsStored

\* Rows are never taken back: what is accepted stays accepted.
Accepted == \A k \in Msgs : disk[k] # "none" => disk'[k] # "none"

LEMMA Halves == IInv <=> Ledger /\ Traffic
  BY DEF IInv, TypeOK, Ledger, LedgerType, Traffic, TrafficType

-----------------------------------------------------------------------------
\* A visit that settles a pending row with a true result keeps the ledger,
\* whichever of its saves fail, and leaves the loop between two rows.
LEMMA SettleKeepsLedger ==
  ASSUME Ledger, NEW m \in Msgs, NEW s \in {"pending", "sent", "failed"},
         rows[m] = "pending", Settle(m, s), todo \subseteq Msgs, diskErrors \in Nat,
         queued' = queued, stored' = stored, refused \subseteq refused', refused' \subseteq Msgs,
         s = "sent" => m \in stored, s = "failed" => m \in refused'
  PROVE  /\ Ledger' /\ Accepted
         /\ phase' \in {"idle", "scan"} /\ cur' = None /\ todo' \subseteq Msgs
         /\ diskErrors' \in Nat
  <1> USE DEF Ledger, LedgerType, MemoryIsDisk, RowStates, HistStates, Settled
  <1>a. /\ phase' \in {"idle", "scan"} /\ cur' = None /\ todo' \subseteq Msgs
        /\ diskErrors' \in Nat
    BY DEF Settle, NextRow, FlushThrows, DiskError
  <1>b. /\ rows' \in [Msgs -> RowStates] /\ disk' = rows' /\ dirty' \subseteq Msgs
        /\ hist' \in [Msgs -> HistStates] /\ histDisk' \in [Msgs -> HistStates]
    BY DEF Settle, RolledBack, HistoryAfter, MarkOutbound, history
  <1>c. /\ \A k \in Msgs \ {m} : rows'[k] = rows[k] /\ disk'[k] = disk[k] /\ hist'[k] = hist[k]
                                 /\ histDisk'[k] \in {hist[k], histDisk[k]} /\ (k \in dirty' <=> k \in dirty)
        /\ rows'[m] \in {"pending", s} /\ disk'[m] \in {"pending", s}
        /\ hist'[m] \in {hist[m], s}
        /\ histDisk'[m] \in {hist[m], histDisk[m], s}
    BY DEF Settle, RolledBack, HistoryAfter, MarkOutbound, history
  <1>d. /\ hist'[m] = s /\ hist[m] # s => hist[m] # "none" /\ rows'[m] = s
        /\ histDisk'[m] # histDisk[m] => hist[m] # "none" /\ rows'[m] = s /\ histDisk'[m] = s
        /\ hist'[m] # "none" <=> hist[m] # "none"
        /\ rows'[m] = s /\ s # "pending" /\ hist'[m] = "pending" => m \in dirty'
        /\ (hist' = hist /\ histDisk' = histDisk) \/ histDisk' = hist'
    BY DEF Settle, RolledBack, HistoryAfter, MarkOutbound, history
  <1>1. LedgerType' /\ MemoryIsDisk' /\ Accepted
    BY <1>b, <1>c DEF Accepted
  <1>2. HistoryKept'
    BY <1>b, <1>c, <1>d DEF HistoryKept
  <1>3. QueuedIsDurable'
    BY <1>b, <1>c, <1>d DEF QueuedIsDurable, HistoryKept
  <1>4. SentImpliesStored'
    BY <1>b, <1>c, <1>d DEF SentImpliesStored
  <1>5. FailedWasRefused'
    BY <1>b, <1>c, <1>d DEF FailedWasRefused
  <1>6. HistoryNeverAhead'
    BY <1>b, <1>c, <1>d DEF HistoryNeverAhead
  <1>7. HistoryFollows'
    BY <1>b, <1>c, <1>d DEF HistoryFollows
  <1> QED BY <1>a, <1>1, <1>2, <1>3, <1>4, <1>5, <1>6, <1>7

-----------------------------------------------------------------------------
\* Every step keeps the ledger, and takes no accepted row back.
LEMMA RouteKeepsLedger ==
  ASSUME Ledger, NEW m \in Msgs, Routing(m)
  PROVE  Ledger' /\ Accepted
  <1> USE DEF Ledger, LedgerType, MemoryIsDisk, RowStates, HistStates, Settled
  <1>1. CASE Route(m)
    <2>1. /\ LedgerType' /\ MemoryIsDisk' /\ Accepted
          /\ rows' = [rows EXCEPT ![m] = Entry(m)] /\ hist' = [hist EXCEPT ![m] = Entry(m)]
          /\ Entry(m) # "none" /\ (rows[m] # "none" => Entry(m) = rows[m])
          /\ (rows[m] = "none" => Entry(m) = "pending")
      BY <1>1 DEF Route, Entry, Enqueued, Accepted
    <2>2. HistoryKept' /\ QueuedIsDurable'
      BY <1>1, <2>1 DEF Route, HistoryKept, QueuedIsDurable
    <2>3. SentImpliesStored' /\ FailedWasRefused'
      BY <1>1, <2>1 DEF Route, platform, SentImpliesStored, FailedWasRefused
    <2>4. HistoryNeverAhead' /\ HistoryFollows'
      BY <1>1, <2>1 DEF Route, HistoryNeverAhead, HistoryFollows
    <2> QED BY <2>1, <2>2, <2>3, <2>4
  <1>2. CASE RouteInsertFails(m)
    BY <1>2 DEF RouteInsertFails, Inserted, outbox, platform, ghosts, Accepted, HistoryKept,
       QueuedIsDurable, SentImpliesStored, FailedWasRefused, HistoryNeverAhead, HistoryFollows
  <1>3. CASE RouteEnqueueFails(m)
    BY <1>3 DEF RouteEnqueueFails, Inserted, InsertedOnDisk, outbox, platform, ghosts, Accepted, HistoryKept,
       QueuedIsDurable, SentImpliesStored, FailedWasRefused, HistoryNeverAhead, HistoryFollows
  <1>4. CASE RouteMarkFails(m)
    <2>1. /\ LedgerType' /\ MemoryIsDisk' /\ Accepted
          /\ rows' = [rows EXCEPT ![m] = Entry(m)]
          /\ (rows[m] # "none" => Entry(m) = rows[m]) /\ (rows[m] = "none" => Entry(m) = "pending")
      BY <1>4 DEF RouteMarkFails, Entry, Enqueued, Inserted, InsertedOnDisk, ghosts, Accepted
    <2>2. HistoryKept' /\ QueuedIsDurable'
      BY <1>4, <2>1 DEF RouteMarkFails, Inserted, InsertedOnDisk, ghosts, HistoryKept, QueuedIsDurable
    <2>3. SentImpliesStored' /\ FailedWasRefused'
      BY <1>4, <2>1 DEF RouteMarkFails, Inserted, InsertedOnDisk, ghosts, platform, SentImpliesStored, FailedWasRefused
    <2>4. HistoryNeverAhead' /\ HistoryFollows'
      BY <1>4, <2>1 DEF RouteMarkFails, Inserted, InsertedOnDisk, HistoryNeverAhead, HistoryFollows
    <2> QED BY <2>1, <2>2, <2>3, <2>4
  <1> QED BY <1>1, <1>2, <1>3, <1>4 DEF Routing

\* A visit, or the end of a wait.
LEMMA FlushKeepsLedger ==
  ASSUME Ledger, Traffic, NEW m \in Msgs, Flushing(m) \/ Timeout(m)
  PROVE  Ledger' /\ Accepted
  <1> USE DEF Traffic, TrafficType
  <1>a. Outcome("lost") = "pending" /\ Outcome("refused") = "failed"
    BY DEF Outcome
  <1>b. refused \subseteq Msgs
    BY DEF Ledger, LedgerType
  <1>1. CASE MarkLate(m)
    <2> USE DEF Ledger, LedgerType, MemoryIsDisk, RowStates, HistStates, Settled
    <2>1. /\ rows' = rows /\ disk' = disk /\ queued' = queued /\ refused' = refused /\ stored' = stored
          /\ \/ dirty' = dirty /\ hist' = hist /\ histDisk' = histDisk
             \/ dirty' = dirty \ {m} /\ hist' = hist /\ histDisk' = histDisk /\ hist[m] \in {"none", rows[m]}
             \/ /\ dirty' = dirty \ {m} /\ hist[m] # "none"
                /\ hist' = [hist EXCEPT ![m] = rows[m]] /\ histDisk' = hist'
      BY <1>1 DEF MarkLate, MarkOutbound, history, ghosts, platform
    <2>2. LedgerType' /\ MemoryIsDisk' /\ Accepted
      <3>1. rows[m] \in Settled
        BY <1>1 DEF MarkLate
      <3>a. hist \in [Msgs -> HistStates] /\ histDisk \in [Msgs -> HistStates]
        OBVIOUS
      <3>b. rows[m] \in HistStates
        BY <3>1
      <3>2. hist' \in [Msgs -> HistStates] /\ histDisk' \in [Msgs -> HistStates]
        <4> HIDE DEF HistStates
        <4>1. [hist EXCEPT ![m] = rows[m]] \in [Msgs -> HistStates]
          BY <3>a, <3>b
        <4>2. CASE hist' = hist /\ histDisk' = histDisk
          BY <3>a, <4>2
        <4>3. CASE hist' = [hist EXCEPT ![m] = rows[m]] /\ histDisk' = hist'
          BY <4>1, <4>3
        <4> QED BY <2>1, <4>2, <4>3
      <3>3. dirty' \subseteq Msgs
        BY <2>1
      <3> QED BY <2>1, <3>2, <3>3 DEF Accepted
    <2>3. HistoryKept' /\ QueuedIsDurable'
      BY <1>1, <2>1 DEF MarkLate, HistoryKept, QueuedIsDurable
    <2>4. SentImpliesStored' /\ FailedWasRefused'
      BY <2>1 DEF SentImpliesStored, FailedWasRefused
    <2>5. HistoryNeverAhead'
      BY <2>1 DEF HistoryNeverAhead
    <2>6. HistoryFollows'
      BY <1>1, <2>1 DEF MarkLate, HistoryFollows
    <2> QED BY <2>2, <2>3, <2>4, <2>5, <2>6
  <1>2. CASE NotReady(m)
    BY <1>2, <1>a, <1>b, SettleKeepsLedger DEF NotReady, Visiting, ghosts, platform
  <1>3. CASE AttachmentGone(m)
    BY <1>3, <1>a, <1>b, SettleKeepsLedger DEF AttachmentGone, Visiting, platform
  <1>4. CASE StartUpload(m)
    BY <1>4 DEF StartUpload, outbox, history, ghosts, platform, Ledger, LedgerType, Accepted, MemoryIsDisk,
       HistoryKept, QueuedIsDurable, SentImpliesStored, FailedWasRefused, HistoryNeverAhead, HistoryFollows
  <1>5. CASE UploadFails(m)
    BY <1>5, <1>a, <1>b, SettleKeepsLedger DEF UploadFails, InFlightIsPending, ghosts, platform
  <1>6. CASE Relay(m)
    BY <1>6 DEF Relay, outbox, history, ghosts, platform, Ledger, LedgerType, Accepted, MemoryIsDisk,
       HistoryKept, QueuedIsDurable, SentImpliesStored, FailedWasRefused, HistoryNeverAhead, HistoryFollows
  <1>7. CASE Timeout(m)
    BY <1>7, <1>a, <1>b, SettleKeepsLedger DEF Timeout, InFlightIsPending, ghosts, platform
  <1> QED BY <1>1, <1>2, <1>3, <1>4, <1>5, <1>6, <1>7 DEF Flushing

\* The links and the platform: only an answer, or a drop that ends the wait,
\* touches a row; the platform only adds to what it has stored or refused.
LEMMA LinksKeepLedger ==
  ASSUME Ledger, Traffic, NEW a \in Agents, Linking(a)
  PROVE  Ledger' /\ Accepted
  <1> USE DEF Traffic, TrafficType
  <1>a. refused \subseteq Msgs
    BY DEF Ledger, LedgerType
  <1>1. CASE Answer(a)
    <2> DEFINE ans == Head(toHub[a])
    <2>1. ans = toHub[a][1] /\ 1 \in DOMAIN toHub[a] /\ ans \in Answers
      BY <1>1 DEF Answer
    <2>2. CASE Awaited(ans.msg)
      <3>1. Settle(cur, Outcome(ans.verdict)) /\ cur = ans.msg /\ cur \in Msgs /\ rows[cur] = "pending"
        BY <1>1, <2>2 DEF Answer, Awaited, InFlightIsPending
      <3>2. /\ ans.verdict \in {"receipt", "refused"}
            /\ ans.verdict = "receipt" => ans.msg \in stored
            /\ ans.verdict = "refused" => ans.msg \in refused
        BY <2>1 DEF AnswersTrue, Answers
      <3>3. /\ Outcome(ans.verdict) \in {"pending", "sent", "failed"}
            /\ Outcome(ans.verdict) = "sent" => cur \in stored
            /\ Outcome(ans.verdict) = "failed" => cur \in refused
        BY <3>1, <3>2 DEF Outcome
      <3>4. queued' = queued /\ stored' = stored /\ refused' = refused
        BY <1>1 DEF Answer, ghosts, platform
      <3> HIDE DEF ans
      <3> QED BY <1>a, <3>1, <3>3, <3>4, SettleKeepsLedger
    <2>3. CASE ~Awaited(ans.msg)
      BY <1>1, <2>3 DEF Answer, outbox, history, ghosts, platform, Ledger, LedgerType, Accepted, MemoryIsDisk,
         HistoryKept, QueuedIsDurable, SentImpliesStored, FailedWasRefused, HistoryNeverAhead, HistoryFollows
    <2> QED BY <2>2, <2>3
  <1>2. CASE LinkDrop(a)
    <2>1. CASE phase = "await" /\ From[cur] = a
      <3>1. Settle(cur, "pending") /\ cur \in Msgs /\ rows[cur] = "pending"
        BY <1>2, <2>1 DEF LinkDrop, Outcome, InFlightIsPending
      <3> QED BY <1>2, <1>a, <3>1, SettleKeepsLedger DEF LinkDrop, ghosts, platform
    <2>2. CASE ~(phase = "await" /\ From[cur] = a)
      BY <1>2, <2>2 DEF LinkDrop, outbox, history, ghosts, platform, Ledger, LedgerType, Accepted, MemoryIsDisk,
         HistoryKept, QueuedIsDurable, SentImpliesStored, FailedWasRefused, HistoryNeverAhead, HistoryFollows
    <2> QED BY <2>1, <2>2
  <1>3. CASE LinkUp(a) \/ FrameLost(a)
    BY <1>3 DEF LinkUp, FrameLost, outbox, history, ghosts, platform, Ledger, LedgerType, Accepted, MemoryIsDisk,
       HistoryKept, QueuedIsDurable, SentImpliesStored, FailedWasRefused, HistoryNeverAhead, HistoryFollows
  <1>4. CASE PlatformRecv(a)
    <2>1. Head(toPlatform[a]).msg \in Msgs
      <3>1. toPlatform[a] \in Seq(Frames) /\ toPlatform[a] # <<>>
        BY <1>4 DEF PlatformRecv
      <3>2. Head(toPlatform[a]) \in Frames
        BY <3>1, HeadTailProperties
      <3> QED BY <3>2 DEF Frames
    <2>2. /\ UNCHANGED <<outbox, history, queued>>
          /\ stored \subseteq stored' /\ refused \subseteq refused' /\ refused' \subseteq Msgs
      BY <1>4, <1>a, <2>1 DEF PlatformRecv
    <2> QED BY <2>2 DEF outbox, history, Ledger, LedgerType, Accepted, MemoryIsDisk,
       HistoryKept, QueuedIsDurable, SentImpliesStored, FailedWasRefused, HistoryNeverAhead, HistoryFollows
  <1> QED BY <1>1, <1>2, <1>3, <1>4 DEF Linking

\* A restart: whatever reached the disk is what the process comes back with.
LEMMA CrashKeepsLedger ==
  ASSUME Ledger, Traffic, Crash \/ \E m \in Msgs : CrashInRoute(m) \/ CrashInSettle(m)
  PROVE  Ledger' /\ Accepted
  <1> USE DEF Ledger, LedgerType, MemoryIsDisk, RowStates, HistStates, Settled
  <1>1. CASE Crash
    BY <1>1 DEF Crash, Restart, Reloaded, platform, Accepted, HistoryKept, QueuedIsDurable,
       SentImpliesStored, FailedWasRefused, HistoryNeverAhead, HistoryFollows
  <1>2. ASSUME NEW m \in Msgs, CrashInRoute(m)
        PROVE  Ledger' /\ Accepted
    <2>1. /\ rows' = disk' /\ hist' = histDisk' /\ dirty' = Reloaded(disk')
          /\ queued' = queued /\ refused' = refused /\ stored' = stored
          /\ disk' = disk \/ (rows[m] = "none" /\ disk' = [disk EXCEPT ![m] = "pending"])
          /\ histDisk' = histDisk \/ (hist[m] = "none" /\ histDisk' = [hist EXCEPT ![m] = "recorded"])
      BY <1>2 DEF CrashInRoute, Restart, Enqueued, Inserted, InsertedOnDisk, platform
    <2>2. LedgerType' /\ MemoryIsDisk' /\ Accepted
      BY <2>1 DEF Reloaded, Accepted
    <2>3. HistoryKept' /\ QueuedIsDurable'
      BY <2>1 DEF HistoryKept, QueuedIsDurable
    <2>4. SentImpliesStored' /\ FailedWasRefused' /\ HistoryNeverAhead'
      BY <2>1 DEF SentImpliesStored, FailedWasRefused, HistoryNeverAhead
    <2>5. HistoryFollows'
      BY <2>1, <2>2 DEF HistoryFollows, Reloaded
    <2> QED BY <2>2, <2>3, <2>4, <2>5
  <1>3. ASSUME NEW m \in Msgs, CrashInSettle(m)
        PROVE  Ledger' /\ Accepted
    <2>1. /\ rows[m] = "pending"
          /\ \E s \in {"sent", "failed"} :
               /\ disk' = [disk EXCEPT ![m] = s]
               /\ s = "sent" => m \in stored
               /\ s = "failed" => m \in refused'
          /\ refused \subseteq refused' /\ refused' \subseteq Msgs
      <3>1. CASE Visiting(m) /\ disk' = [disk EXCEPT ![m] = Outcome("refused")] /\ refused' = refused \cup {m}
        BY <3>1 DEF Visiting, Outcome
      <3>2. CASE /\ Awaited(m) /\ toHub[From[m]] # <<>> /\ Head(toHub[From[m]]).msg = m
                 /\ disk' = [disk EXCEPT ![m] = Outcome(Head(toHub[From[m]]).verdict)]
                 /\ UNCHANGED refused
        <4> DEFINE ans == Head(toHub[From[m]])
        <4>1. From[m] \in Agents
          BY FromAssumption
        <4>2. ans = toHub[From[m]][1] /\ 1 \in DOMAIN toHub[From[m]] /\ ans \in Answers
          BY <3>2, <4>1 DEF Traffic, TrafficType
        <4>3. /\ ans.verdict \in {"receipt", "refused"}
              /\ ans.verdict = "receipt" => m \in stored
              /\ ans.verdict = "refused" => m \in refused
          BY <3>2, <4>1, <4>2 DEF Traffic, AnswersTrue, Answers
        <4>4. rows[m] = "pending"
          BY <3>2 DEF Awaited, Traffic, InFlightIsPending
        <4> QED BY <3>2, <4>3, <4>4 DEF Outcome
      <3> QED BY <1>3, <3>1, <3>2 DEF CrashInSettle
    <2>2. PICK s \in {"sent", "failed"} :
               /\ disk' = [disk EXCEPT ![m] = s]
               /\ s = "sent" => m \in stored
               /\ s = "failed" => m \in refused'
      BY <2>1
    <2>3. /\ rows' = disk' /\ hist' = histDisk' /\ histDisk' = histDisk /\ dirty' = Reloaded(disk')
          /\ queued' = queued /\ stored' = stored
      BY <1>3 DEF CrashInSettle, Restart, platform
    <2>4. LedgerType' /\ MemoryIsDisk' /\ Accepted
      BY <2>1, <2>2, <2>3 DEF Reloaded, Accepted
    <2>5. HistoryKept' /\ QueuedIsDurable'
      BY <2>2, <2>3 DEF HistoryKept, QueuedIsDurable
    <2>6. SentImpliesStored' /\ FailedWasRefused'
      BY <2>1, <2>2, <2>3 DEF SentImpliesStored, FailedWasRefused
    <2>7. HistoryNeverAhead'
      BY <2>1, <2>2, <2>3 DEF HistoryNeverAhead
    <2>8. HistoryFollows'
      BY <2>3, <2>4 DEF HistoryFollows, Reloaded
    <2> QED BY <2>4, <2>5, <2>6, <2>7, <2>8
  <1> QED BY <1>1, <1>2, <1>3

LEMMA StepKeepsLedger ==
  ASSUME Ledger, Traffic, Next
  PROVE  Ledger' /\ Accepted
  <1>1. CASE FlushStart \/ HistorySaved \/ \E m \in Msgs : Flip(m) \/ Expire(m)
    <2>1. UNCHANGED <<outbox, hist, ghosts, stored>> /\ (histDisk' = histDisk \/ histDisk' = hist)
      BY <1>1 DEF FlushStart, HistorySaved, Flip, Expire, history, platform
    <2> QED BY <2>1 DEF outbox, ghosts, Ledger, LedgerType, Accepted, MemoryIsDisk,
       HistoryKept, QueuedIsDurable, SentImpliesStored, FailedWasRefused, HistoryNeverAhead, HistoryFollows
  <1> QED BY <1>1, RouteKeepsLedger, FlushKeepsLedger, LinksKeepLedger, CrashKeepsLedger DEF Next

-----------------------------------------------------------------------------
\* Frames, answers and the platform's rows stay right while they stay put.
LEMMA QuietFrames ==
  ASSUME Traffic, Accepted, toPlatform' = toPlatform
  PROVE  FramesAccepted'
  <1> SUFFICES ASSUME NEW b \in Agents, NEW i \in DOMAIN toPlatform[b]
               PROVE  disk'[toPlatform[b][i].msg] # "none"
    BY DEF FramesAccepted
  <1>1. toPlatform[b] \in Seq(Frames)
    BY DEF Traffic, TrafficType
  <1>2. toPlatform[b][i] \in Frames
    BY <1>1
  <1>3. toPlatform[b][i].msg \in Msgs
    BY <1>2 DEF Frames
  <1> QED BY <1>3 DEF Traffic, FramesAccepted, Accepted

LEMMA QuietTraffic ==
  ASSUME Traffic, Accepted, UNCHANGED <<toHub, toPlatform, stored, arrivals>>, refused \subseteq refused'
  PROVE  AnswersTrue' /\ FramesAccepted' /\ ArrivedIsStored'
  <1> USE DEF Traffic, TrafficType
  <1>1. AnswersTrue'
    BY DEF AnswersTrue
  <1>2. FramesAccepted'
    BY QuietFrames
  <1>3. ArrivedIsStored'
    BY DEF ArrivedIsStored, Accepted
  <1> QED BY <1>1, <1>2, <1>3

LEMMA RouteKeepsTraffic ==
  ASSUME Ledger, Traffic, NEW m \in Msgs, Routing(m)
  PROVE  Traffic'
  <1>1. /\ UNCHANGED <<links, platform, expired, refused, limits, cur>>
        /\ diskErrors' \in Nat /\ todo' \subseteq Msgs
        /\ phase' = phase \/ (phase = "idle" /\ phase' = "scan")
    BY DEF Routing, Route, RouteInsertFails, RouteEnqueueFails, RouteMarkFails, DiskError, Work,
       loop, ghosts, Traffic, TrafficType
  <1>2. TrafficType'
    BY <1>1 DEF links, platform, limits, Traffic, TrafficType
  <1>3. InFlightIsPending'
    <2>1. \A k \in Msgs : rows[k] = "pending" => rows'[k] = "pending"
      BY DEF Routing, Route, RouteInsertFails, RouteEnqueueFails, RouteMarkFails, Entry, outbox, Ledger, LedgerType
    <2> QED BY <1>1, <2>1 DEF Traffic, InFlightIsPending
  <1>4. AnswersTrue' /\ FramesAccepted' /\ ArrivedIsStored'
    BY <1>1, RouteKeepsLedger, QuietTraffic DEF links, platform
  <1> QED BY <1>2, <1>3, <1>4 DEF Traffic

LEMMA FlushKeepsTraffic ==
  ASSUME Ledger, Traffic, NEW m \in Msgs, Flushing(m) \/ Timeout(m)
  PROVE  Traffic'
  <1>a. Ledger' /\ Accepted
    BY FlushKeepsLedger
  <1>1. CASE MarkLate(m) \/ NotReady(m) \/ AttachmentGone(m) \/ UploadFails(m) \/ Timeout(m)
    <2>1. /\ UNCHANGED <<links, platform, expired, crashes, flips>>
          /\ refused \subseteq refused'
          /\ diskErrors' \in Nat /\ drops' \in Nat /\ timeouts' \in Nat
          /\ phase' \in {"idle", "scan"} /\ todo' \subseteq Msgs /\ cur' = None
      BY <1>1 DEF MarkLate, NotReady, AttachmentGone, UploadFails, Timeout, Settle, NextRow, FlushThrows,
         DiskError, ghosts, limits, Traffic, TrafficType
    <2>2. TrafficType' /\ InFlightIsPending'
      BY <2>1 DEF links, platform, Traffic, TrafficType, InFlightIsPending
    <2> QED BY <1>a, <2>1, <2>2, QuietTraffic DEF links, platform, Traffic
  <1>2. CASE StartUpload(m)
    <2>1. TrafficType' /\ InFlightIsPending'
      BY <1>2 DEF StartUpload, Visiting, outbox, links, platform, limits, Traffic, TrafficType, InFlightIsPending
    <2> QED BY <1>2, <1>a, <2>1, QuietTraffic DEF StartUpload, links, platform, ghosts, Traffic
  <1>3. CASE Relay(m)
    <2> DEFINE frame == [msg |-> m, live |-> TRUE]
               a == From[m]
    <2>1. a \in Agents /\ frame \in Frames /\ toPlatform[a] \in Seq(Frames)
      BY FromAssumption DEF Frames, Traffic, TrafficType
    <2>2. /\ UNCHANGED <<outbox, history, todo, up, toHub, platform, expired, ghosts, limits, diskErrors>>
          /\ phase' = "await" /\ cur' = m /\ rows[m] = "pending"
          /\ toPlatform' = [toPlatform EXCEPT ![a] = Append(@, frame)]
      BY <1>3 DEF Relay, Visiting, Traffic, InFlightIsPending
    <2>3. toPlatform' \in [Agents -> Seq(Frames)]
      BY <2>1, <2>2 DEF Traffic, TrafficType
    <2>4. TrafficType' /\ InFlightIsPending'
      BY <2>2, <2>3 DEF outbox, platform, limits, Traffic, TrafficType, InFlightIsPending
    <2>5. AnswersTrue' /\ ArrivedIsStored'
      BY <2>2 DEF outbox, platform, ghosts, Traffic, AnswersTrue, ArrivedIsStored
    <2>6. FramesAccepted'
      <3> SUFFICES ASSUME NEW b \in Agents, NEW i \in DOMAIN toPlatform'[b]
                   PROVE  disk[toPlatform'[b][i].msg] # "none"
        BY <2>2 DEF outbox, FramesAccepted
      <3>1. disk[m] # "none"
        BY <2>2 DEF Ledger, MemoryIsDisk
      <3>2. CASE b = a
        <4>1. toPlatform'[b] = Append(toPlatform[a], frame)
          BY <2>1, <2>2, <3>2 DEF Traffic, TrafficType
        <4>2. CASE i \in DOMAIN toPlatform[a]
          <5>1. toPlatform'[b][i] = toPlatform[a][i]
            BY <2>1, <4>1, <4>2, AppendProperties
          <5> QED BY <2>1, <4>2, <5>1 DEF Traffic, FramesAccepted
        <4>3. CASE i \notin DOMAIN toPlatform[a]
          <5>1. toPlatform'[b][i] = frame
            BY <2>1, <4>1, <4>3, AppendProperties
          <5> QED BY <3>1, <5>1
        <4> QED BY <4>2, <4>3
      <3>3. CASE b # a
        BY <2>1, <2>2, <3>3 DEF Traffic, TrafficType, FramesAccepted
      <3> QED BY <3>2, <3>3
    <2> QED BY <2>4, <2>5, <2>6 DEF Traffic
  <1> QED BY <1>1, <1>2, <1>3 DEF Flushing

\* What a queue holds after its head is taken, or its frames are orphaned.
LEMMA TailHolds ==
  ASSUME NEW S, NEW q \in Seq(S), q # <<>>
  PROVE  /\ Head(q) \in S /\ Head(q) = q[1] /\ 1 \in DOMAIN q
         /\ Tail(q) \in Seq(S)
         /\ \A i \in DOMAIN Tail(q) : i + 1 \in DOMAIN q /\ Tail(q)[i] = q[i + 1]
  OBVIOUS

LEMMA OrphanedHolds ==
  ASSUME NEW q \in Seq(Frames)
  PROVE  /\ Orphaned(q) \in Seq(Frames)
         /\ DOMAIN Orphaned(q) = DOMAIN q
         /\ \A i \in DOMAIN q : Orphaned(q)[i].msg = q[i].msg
  <1>1. \A i \in DOMAIN q : q[i] \in Frames
    OBVIOUS
  <1>2. \A i \in DOMAIN q : Orphaned(q)[i] \in Frames /\ Orphaned(q)[i].msg = q[i].msg
    BY <1>1 DEF Orphaned, Frames
  <1>3. Orphaned(q) \in [1..Len(q) -> Frames] /\ Len(q) \in Nat
    BY <1>2 DEF Orphaned
  <1> QED BY <1>2, <1>3, SeqDef DEF Orphaned

LEMMA OrphansAccepted ==
  ASSUME Traffic, Accepted, NEW A \in SUBSET Agents,
         toPlatform' = [a \in Agents |-> IF a \in A THEN Orphaned(toPlatform[a]) ELSE toPlatform[a]]
  PROVE  toPlatform' \in [Agents -> Seq(Frames)] /\ FramesAccepted'
  <1>1. \A a \in Agents : toPlatform[a] \in Seq(Frames)
    BY DEF Traffic, TrafficType
  <1>2. toPlatform' \in [Agents -> Seq(Frames)]
    BY <1>1, OrphanedHolds
  <1>3. ASSUME NEW b \in Agents, NEW i \in DOMAIN toPlatform'[b]
        PROVE  disk'[toPlatform'[b][i].msg] # "none"
    <2>1. i \in DOMAIN toPlatform[b] /\ toPlatform'[b][i].msg = toPlatform[b][i].msg
      BY <1>1, OrphanedHolds
    <2>2. toPlatform[b][i] \in Frames
      BY <1>1, <2>1
    <2> QED BY <2>1, <2>2 DEF Frames, Traffic, FramesAccepted, Accepted
  <1> QED BY <1>2, <1>3 DEF FramesAccepted

LEMMA CrashKeepsTraffic ==
  ASSUME Ledger, Traffic, Crash \/ \E m \in Msgs : CrashInRoute(m) \/ CrashInSettle(m)
  PROVE  Traffic'
  <1>1. Restart /\ refused \subseteq refused'
    BY DEF Crash, CrashInRoute, CrashInSettle
  <1>2. Ledger' /\ Accepted
    BY CrashKeepsLedger
  <1>3. toPlatform' \in [Agents -> Seq(Frames)] /\ FramesAccepted'
    BY <1>1, <1>2, OrphansAccepted DEF Restart
  <1>4. TrafficType' /\ InFlightIsPending'
    BY <1>1, <1>3 DEF Restart, platform, Traffic, TrafficType, InFlightIsPending
  <1>5. AnswersTrue' /\ ArrivedIsStored'
    BY <1>1, <1>2 DEF Restart, platform, Traffic, TrafficType, AnswersTrue, ArrivedIsStored, Accepted
  <1> QED BY <1>3, <1>4, <1>5 DEF Traffic

LEMMA LinksKeepTraffic ==
  ASSUME Ledger, Traffic, NEW a \in Agents, Linking(a)
  PROVE  Traffic'
  <1>a. Ledger' /\ Accepted
    BY LinksKeepLedger
  <1>b. toHub[a] \in Seq(Answers) /\ toPlatform[a] \in Seq(Frames)
    BY DEF Traffic, TrafficType
  <1>1. CASE Answer(a)
    <2>1. /\ UNCHANGED <<up, toPlatform, platform, expired, refused, limits>>
          /\ toHub' = [toHub EXCEPT ![a] = Tail(@)] /\ toHub[a] # <<>>
          /\ diskErrors' \in Nat /\ todo' \subseteq Msgs
          /\ \/ phase' \in {"idle", "scan"} /\ cur' = None
             \/ UNCHANGED <<rows, phase, cur>>
      BY <1>1 DEF Answer, Settle, NextRow, FlushThrows, DiskError, ghosts, outbox, loop, Traffic, TrafficType
    <2>2. /\ toHub' \in [Agents -> Seq(Answers)]
          /\ \A i \in DOMAIN Tail(toHub[a]) : i + 1 \in DOMAIN toHub[a] /\ Tail(toHub[a])[i] = toHub[a][i + 1]
      BY <1>b, <2>1, TailHolds DEF Traffic, TrafficType
    <2>3. TrafficType' /\ InFlightIsPending'
      BY <2>1, <2>2 DEF platform, limits, Traffic, TrafficType, InFlightIsPending
    <2>4. AnswersTrue'
      BY <2>1, <2>2 DEF platform, Traffic, TrafficType, AnswersTrue
    <2>5. FramesAccepted'
      BY <1>a, <2>1, QuietFrames
    <2>6. ArrivedIsStored'
      BY <1>a, <2>1 DEF platform, Traffic, TrafficType, ArrivedIsStored, Accepted
    <2> QED BY <2>3, <2>4, <2>5, <2>6 DEF Traffic
  <1>2. CASE LinkUp(a)
    <2>1. TrafficType' /\ InFlightIsPending'
      BY <1>2 DEF LinkUp, outbox, loop, platform, limits, Traffic, TrafficType, InFlightIsPending
    <2> QED BY <1>2, <1>a, <2>1, QuietTraffic DEF LinkUp, platform, ghosts, Traffic
  <1>3. CASE LinkDrop(a)
    <2>1. /\ UNCHANGED <<platform, expired, refused, timeouts, crashes, flips>>
          /\ drops' \in Nat /\ up' \subseteq Agents
          /\ toPlatform' = [toPlatform EXCEPT ![a] = Orphaned(@)]
          /\ toHub' = [toHub EXCEPT ![a] = <<>>]
          /\ diskErrors' \in Nat /\ todo' \subseteq Msgs
          /\ \/ phase' \in {"idle", "scan"} /\ cur' = None
             \/ UNCHANGED <<rows, phase, cur>>
      BY <1>3 DEF LinkDrop, Settle, NextRow, FlushThrows, DiskError, ghosts, outbox, loop, Traffic, TrafficType
    <2>2. toPlatform' \in [Agents -> Seq(Frames)] /\ FramesAccepted'
      <3>1. toPlatform' = [b \in Agents |-> IF b \in {a} THEN Orphaned(toPlatform[b]) ELSE toPlatform[b]]
        BY <2>1 DEF Traffic, TrafficType
      <3> QED BY <1>a, <3>1, OrphansAccepted
    <2>3. InFlightIsPending'
      BY <2>1 DEF Traffic, InFlightIsPending
    <2>a. \A b \in Agents : toHub'[b] = IF b = a THEN <<>> ELSE toHub[b]
      BY <2>1 DEF Traffic, TrafficType
    <2>b. toHub' \in [Agents -> Seq(Answers)]
      <3>1. <<>> \in Seq(Answers)
        OBVIOUS
      <3>2. [toHub EXCEPT ![a] = <<>>] \in [Agents -> Seq(Answers)]
        BY <3>1 DEF Traffic, TrafficType
      <3> QED BY <2>1, <3>2
    <2>c. phase' \in {"idle", "scan", "upload", "await"} /\ cur' \in Msgs \cup {None}
      BY <2>1 DEF Traffic, TrafficType
    <2>d. TrafficType'
      BY <2>1, <2>2, <2>b, <2>c DEF platform, Traffic, TrafficType
    <2>4. AnswersTrue'
      <3>1. \A b \in Agents : toHub'[b] \in {<<>>, toHub[b]}
        BY <2>a
      <3>2. stored' = stored /\ refused' = refused
        BY <2>1 DEF platform
      <3>3. \A b \in Agents : \A i \in DOMAIN toHub'[b] : i \in DOMAIN toHub[b] /\ toHub'[b][i] = toHub[b][i]
        BY <3>1
      <3> QED BY <3>2, <3>3 DEF Traffic, AnswersTrue
    <2>5. ArrivedIsStored'
      <3>1. stored' = stored /\ arrivals' = arrivals
        BY <2>1 DEF platform
      <3>2. \A m \in Msgs : disk[m] # "none" => disk'[m] # "none"
        BY <1>a DEF Accepted
      <3>3. stored \subseteq Msgs
        BY DEF Traffic, TrafficType
      <3> QED BY <3>1, <3>2, <3>3 DEF Traffic, ArrivedIsStored
    <2> QED BY <2>2, <2>3, <2>d, <2>4, <2>5 DEF Traffic
  <1>4. CASE PlatformRecv(a) \/ FrameLost(a)
    <2> DEFINE frame == Head(toPlatform[a])
               m == frame.msg
               ans == [msg |-> m, verdict |-> IF m \in allowed THEN "receipt" ELSE "refused"]
    <2>1. toPlatform[a] # <<>> /\ toPlatform' = [toPlatform EXCEPT ![a] = Tail(@)]
      BY <1>4 DEF PlatformRecv, FrameLost
    <2>2. /\ frame \in Frames /\ m \in Msgs /\ disk[m] # "none" /\ ans \in Answers
          /\ Tail(toPlatform[a]) \in Seq(Frames)
          /\ \A i \in DOMAIN Tail(toPlatform[a]) :
               i + 1 \in DOMAIN toPlatform[a] /\ Tail(toPlatform[a])[i] = toPlatform[a][i + 1]
      <3>1. /\ frame \in Frames /\ frame = toPlatform[a][1] /\ 1 \in DOMAIN toPlatform[a]
            /\ Tail(toPlatform[a]) \in Seq(Frames)
            /\ \A i \in DOMAIN Tail(toPlatform[a]) :
                 i + 1 \in DOMAIN toPlatform[a] /\ Tail(toPlatform[a])[i] = toPlatform[a][i + 1]
        BY <1>b, <2>1, TailHolds
      <3>2. disk[frame.msg] # "none"
        BY <3>1 DEF Traffic, FramesAccepted
      <3> QED BY <3>1, <3>2 DEF Frames, Answers
    <2>3. /\ UNCHANGED <<outbox, history, loop, up, allowed, expired, queued, limits, diskErrors>>
          /\ refused \subseteq refused' /\ stored \subseteq stored' /\ stored' \subseteq stored \cup {m}
          /\ arrivals' = [k \in Msgs |-> IF k \in stored' THEN 1 ELSE 0]
          /\ \/ toHub' = toHub
             \/ /\ toHub' = [toHub EXCEPT ![a] = Append(@, ans)]
                /\ m \in allowed => m \in stored'
                /\ m \notin allowed => m \in refused'
      <3>1. CASE FrameLost(a)
        BY <3>1 DEF FrameLost, platform, ghosts, Traffic, ArrivedIsStored
      <3>2. CASE PlatformRecv(a)
        <4>1. arrivals' = [k \in Msgs |-> IF k \in stored' THEN 1 ELSE 0]
          BY <2>2, <3>2 DEF PlatformRecv, Known, Traffic, ArrivedIsStored
        <4> QED BY <3>2, <4>1 DEF PlatformRecv
      <3> QED BY <1>4, <3>1, <3>2
    <2> HIDE DEF frame, m, ans
    <2>4. toPlatform' \in [Agents -> Seq(Frames)]
      BY <2>1, <2>2 DEF Traffic, TrafficType
    <2>5. toHub' \in [Agents -> Seq(Answers)]
      <3>1. Append(toHub[a], ans) \in Seq(Answers)
        BY <1>b, <2>2, AppendProperties
      <3> QED BY <2>3, <3>1 DEF Traffic, TrafficType
    <2>6. TrafficType' /\ InFlightIsPending'
      <3>1. stored' \subseteq Msgs /\ arrivals' \in [Msgs -> Nat]
        BY <2>2, <2>3 DEF Traffic, TrafficType
      <3> QED BY <2>3, <2>4, <2>5, <3>1 DEF outbox, loop, limits, Traffic, TrafficType, InFlightIsPending
    <2>7. FramesAccepted'
      BY <2>1, <2>2, <2>3 DEF outbox, Traffic, TrafficType, FramesAccepted
    <2>8. ArrivedIsStored'
      BY <2>2, <2>3 DEF outbox, Traffic, ArrivedIsStored
    <2>9. AnswersTrue'
      <3> SUFFICES ASSUME NEW b \in Agents, NEW i \in DOMAIN toHub'[b]
                   PROVE  /\ toHub'[b][i].verdict = "receipt" => toHub'[b][i].msg \in stored'
                          /\ toHub'[b][i].verdict = "refused" => toHub'[b][i].msg \in refused'
        BY DEF AnswersTrue
      <3>1. CASE i \in DOMAIN toHub[b] /\ toHub'[b][i] = toHub[b][i]
        BY <2>3, <3>1 DEF Traffic, AnswersTrue
      <3>2. CASE toHub'[b][i] = ans /\ toHub' # toHub
        BY <2>3, <3>2 DEF ans
      <3>3. \/ i \in DOMAIN toHub[b] /\ toHub'[b][i] = toHub[b][i]
            \/ toHub'[b][i] = ans /\ toHub' # toHub
        <4>1. CASE toHub' = toHub \/ b # a
          BY <2>3, <4>1 DEF Traffic, TrafficType
        <4>2. CASE toHub' # toHub /\ b = a
          <5>1. toHub'[b] = Append(toHub[a], ans)
            BY <2>3, <4>2 DEF Traffic, TrafficType
          <5> QED BY <1>b, <2>2, <4>2, <5>1, AppendProperties
        <4> QED BY <4>1, <4>2
      <3> QED BY <3>1, <3>2, <3>3
    <2> QED BY <2>6, <2>7, <2>8, <2>9 DEF Traffic
  <1> QED BY <1>1, <1>2, <1>3, <1>4 DEF Linking

LEMMA StepKeepsTraffic ==
  ASSUME Ledger, Traffic, Next
  PROVE  Traffic'
  <1>1. CASE FlushStart \/ HistorySaved \/ \E m \in Msgs : Flip(m) \/ Expire(m)
    <2>1. /\ UNCHANGED <<rows, links, stored, arrivals, ghosts, drops, timeouts, crashes, diskErrors>>
          /\ UNCHANGED <<loop>> \/ (phase' = "scan" /\ cur' = cur /\ todo' \subseteq Msgs)
      BY <1>1 DEF FlushStart, HistorySaved, Flip, Expire, Work, outbox, platform, limits, loop
    <2>2. allowed' \subseteq Msgs /\ expired' \subseteq Msgs /\ flips' \in Nat
      BY <1>1 DEF FlushStart, HistorySaved, Flip, Expire, platform, limits, Traffic, TrafficType
    <2>3. TrafficType' /\ InFlightIsPending'
      BY <2>1, <2>2 DEF loop, links, Traffic, TrafficType, InFlightIsPending
    <2> QED BY <2>1, <2>3, StepKeepsLedger, QuietTraffic DEF links, ghosts, Traffic
  <1> QED BY <1>1, RouteKeepsTraffic, FlushKeepsTraffic, LinksKeepTraffic, CrashKeepsTraffic DEF Next

-----------------------------------------------------------------------------
LEMMA InitHolds == Init => Ledger /\ Traffic
  <1> SUFFICES ASSUME Init PROVE Ledger /\ Traffic
    OBVIOUS
  <1> USE DEF Init
  <1>1. Ledger
    BY DEF Ledger, LedgerType, RowStates, HistStates, Settled, MemoryIsDisk, HistoryKept, QueuedIsDurable,
       SentImpliesStored, FailedWasRefused, HistoryNeverAhead, HistoryFollows
  <1>2. Traffic
    BY DEF Traffic, TrafficType, AnswersTrue, FramesAccepted, InFlightIsPending, ArrivedIsStored
  <1> QED BY <1>1, <1>2

LEMMA StutterKeeps == Ledger /\ Traffic /\ UNCHANGED vars => Ledger' /\ Traffic'
  BY DEF vars, outbox, history, loop, links, platform, ghosts, limits, Ledger, LedgerType, MemoryIsDisk,
     HistoryKept, QueuedIsDurable, SentImpliesStored, FailedWasRefused, HistoryNeverAhead, HistoryFollows,
     Traffic, TrafficType, AnswersTrue, FramesAccepted, InFlightIsPending, ArrivedIsStored

\* The invariant holds of every behaviour.
THEOREM Invariance == Spec => []IInv
  <1>1. Init => IInv
    BY InitHolds, Halves
  <1>2. IInv /\ [Next]_vars => IInv'
    <2> SUFFICES ASSUME IInv, [Next]_vars PROVE IInv'
      OBVIOUS
    <2>1. Ledger /\ Traffic
      BY Halves
    <2>2. Ledger' /\ Traffic'
      BY <2>1, StepKeepsLedger, StepKeepsTraffic, StutterKeeps
    <2> QED BY <2>2, Halves, PTL
  <1> QED BY <1>1, <1>2, PTL DEF Spec

\* Every variable keeps its type.
THEOREM TypeCorrect == Spec => []TypeOK
  <1>1. IInv => TypeOK
    BY DEF IInv
  <1> QED BY <1>1, Invariance, PTL

\* What a sender was told is queued survives failed saves and crashes.
THEOREM AcceptedIsSafe == Spec => []QueuedIsDurable
  <1>1. IInv => QueuedIsDurable
    BY DEF IInv
  <1> QED BY <1>1, Invariance, PTL

\* What the outbox then says of it is true, late and crossing answers included:
\* "sent" only of what the platform stored, "failed" only of what it refused.
THEOREM OutcomesAreTrue == Spec => [](SentImpliesStored /\ FailedWasRefused)
  <1>1. IInv => SentImpliesStored /\ FailedWasRefused
    BY DEF IInv
  <1> QED BY <1>1, Invariance, PTL

\* Memory and disk, outbox and history agree across every failed save and crash.
THEOREM LedgersAgree == Spec => [](MemoryIsDisk /\ HistoryNeverAhead /\ HistoryFollows)
  <1>1. IInv => MemoryIsDisk /\ HistoryNeverAhead /\ HistoryFollows
    BY DEF IInv
  <1> QED BY <1>1, Invariance, PTL

-----------------------------------------------------------------------------
(* RemoteRelay implements StoreAndForward.                                 *)

\* One row's change is one step of the promise, or none.
LEMMA RowStepIsPromised ==
  ASSUME Ledger, Traffic, NEW m \in Msgs, arrivals' = arrivals,
         \/ disk' = disk
         \/ rows[m] = "none" /\ disk' = [disk EXCEPT ![m] = "pending"]
         \/ rows[m] = "pending" /\ \E s \in {"pending", "sent", "failed"} :
              disk' = [disk EXCEPT ![m] = s] /\ (s = "sent" => m \in stored)
  PROVE  Promise!Next \/ UNCHANGED Promise!vars
  <1> USE DEF Promise!Next, Promise!Accept, Promise!Confirm, Promise!Refuse, Promise!vars
  <1>a. disk \in [Msgs -> RowStates] /\ rows[m] = disk[m]
    BY DEF Ledger, LedgerType, MemoryIsDisk
  <1>1. CASE disk' = disk
    BY <1>1
  <1>2. CASE rows[m] = "none" /\ disk' = [disk EXCEPT ![m] = "pending"]
    BY <1>a, <1>2
  <1>3. ASSUME rows[m] = "pending", NEW s \in {"pending", "sent", "failed"},
               disk' = [disk EXCEPT ![m] = s], s = "sent" => m \in stored
        PROVE  Promise!Next \/ UNCHANGED Promise!vars
    <2>1. CASE s = "pending"
      <3>1. disk' = disk
        BY <1>a, <1>3, <2>1
      <3> QED BY <3>1
    <2>2. CASE s = "sent"
      <3>1. arrivals[m] = 1
        BY <1>3, <2>2 DEF Traffic, ArrivedIsStored
      <3> QED BY <1>a, <1>3, <2>2, <3>1
    <2>3. CASE s = "failed"
      BY <1>a, <1>3, <2>3
    <2> QED BY <2>1, <2>2, <2>3
  <1> QED BY <1>1, <1>2, <1>3

\* What a visit does to the disk.
LEMMA SettleOnDisk ==
  ASSUME Ledger, NEW m, NEW s, Settle(m, s)
  PROVE  disk' = disk \/ disk' = [disk EXCEPT ![m] = s]
  BY DEF Settle, Ledger, MemoryIsDisk

LEMMA StepIsPromised ==
  ASSUME Ledger, Traffic, Next
  PROVE  Promise!Next \/ UNCHANGED Promise!vars
  <1>a. Outcome("lost") = "pending" /\ Outcome("refused") = "failed" /\ Outcome("receipt") = "sent"
    BY DEF Outcome
  <1>1. ASSUME NEW m \in Msgs, Routing(m) \/ CrashInRoute(m)
        PROVE  Promise!Next \/ UNCHANGED Promise!vars
    <2>1. arrivals' = arrivals /\ (disk' = disk \/ (rows[m] = "none" /\ disk' = [disk EXCEPT ![m] = "pending"]))
      BY <1>1 DEF Routing, Route, RouteInsertFails, RouteEnqueueFails, RouteMarkFails, CrashInRoute, Restart,
         Enqueued, outbox, platform, Ledger, MemoryIsDisk
    <2> QED BY <2>1, RowStepIsPromised
  <1>2. ASSUME NEW m \in Msgs, Flushing(m) \/ Timeout(m)
        PROVE  Promise!Next \/ UNCHANGED Promise!vars
    <2>1. CASE MarkLate(m) \/ StartUpload(m) \/ Relay(m)
      BY <2>1 DEF MarkLate, StartUpload, Relay, outbox, platform, Promise!vars
    <2>2. CASE NotReady(m) \/ UploadFails(m) \/ Timeout(m) \/ AttachmentGone(m)
      <3>1. /\ arrivals' = arrivals /\ rows[m] = "pending"
            /\ Settle(m, "pending") \/ Settle(m, "failed")
        BY <1>a, <2>2 DEF NotReady, UploadFails, Timeout, AttachmentGone, Visiting, platform,
           Traffic, InFlightIsPending
      <3> QED BY <3>1, SettleOnDisk, RowStepIsPromised
    <2> QED BY <1>2, <2>1, <2>2 DEF Flushing
  <1>3. ASSUME NEW m \in Msgs, CrashInSettle(m)
        PROVE  Promise!Next \/ UNCHANGED Promise!vars
    <2>1. arrivals' = arrivals
      BY <1>3 DEF CrashInSettle, Restart, platform
    <2>2. CASE Visiting(m) /\ disk' = [disk EXCEPT ![m] = Outcome("refused")]
      BY <1>a, <2>1, <2>2, RowStepIsPromised DEF Visiting
    <2>3. CASE /\ Awaited(m) /\ toHub[From[m]] # <<>> /\ Head(toHub[From[m]]).msg = m
               /\ disk' = [disk EXCEPT ![m] = Outcome(Head(toHub[From[m]]).verdict)]
      <3> DEFINE ans == Head(toHub[From[m]])
      <3>1. From[m] \in Agents /\ toHub[From[m]] \in Seq(Answers)
        BY FromAssumption DEF Traffic, TrafficType
      <3>2. ans \in Answers /\ ans = toHub[From[m]][1] /\ 1 \in DOMAIN toHub[From[m]]
        BY <2>3, <3>1, TailHolds
      <3>3. ans.verdict \in {"receipt", "refused"} /\ (ans.verdict = "receipt" => m \in stored)
        BY <2>3, <3>1, <3>2 DEF Traffic, AnswersTrue, Answers
      <3>4. rows[m] = "pending"
        BY <2>3 DEF Awaited, Traffic, InFlightIsPending
      <3>5. PICK s \in {"pending", "sent", "failed"} :
              disk' = [disk EXCEPT ![m] = s] /\ (s = "sent" => m \in stored)
        BY <1>a, <2>3, <3>3
      <3> QED BY <2>1, <3>4, <3>5, RowStepIsPromised
    <2> QED BY <1>3, <2>2, <2>3 DEF CrashInSettle
  <1>4. ASSUME NEW a \in Agents, Linking(a)
        PROVE  Promise!Next \/ UNCHANGED Promise!vars
    <2>1. CASE LinkUp(a) \/ FrameLost(a)
      BY <2>1 DEF LinkUp, FrameLost, outbox, platform, Promise!vars
    <2>2. CASE LinkDrop(a)
      <3>1. CASE phase = "await" /\ From[cur] = a
        <4>1. Settle(cur, "pending") /\ cur \in Msgs /\ rows[cur] = "pending" /\ arrivals' = arrivals
          BY <1>a, <2>2, <3>1 DEF LinkDrop, platform, Traffic, InFlightIsPending
        <4> QED BY <4>1, SettleOnDisk, RowStepIsPromised
      <3>2. CASE ~(phase = "await" /\ From[cur] = a)
        BY <2>2, <3>2 DEF LinkDrop, outbox, platform, Promise!vars
      <3> QED BY <3>1, <3>2
    <2>3. CASE Answer(a)
      <3> DEFINE ans == Head(toHub[a])
      <3>1. CASE Awaited(ans.msg)
        <4>1. /\ Settle(cur, Outcome(ans.verdict)) /\ cur = ans.msg /\ cur \in Msgs /\ rows[cur] = "pending"
              /\ arrivals' = arrivals
          BY <2>3, <3>1 DEF Answer, Awaited, platform, Traffic, InFlightIsPending
        <4>2. ans \in Answers /\ ans = toHub[a][1] /\ 1 \in DOMAIN toHub[a]
          <5>1. toHub[a] \in Seq(Answers) /\ toHub[a] # <<>>
            BY <2>3 DEF Answer, Traffic, TrafficType
          <5> QED BY <5>1, TailHolds
        <4>3. ans.verdict \in {"receipt", "refused"} /\ (ans.verdict = "receipt" => cur \in stored)
          BY <4>1, <4>2 DEF Traffic, AnswersTrue, Answers
        <4>4. disk' = disk \/ \E s \in {"pending", "sent", "failed"} :
                disk' = [disk EXCEPT ![cur] = s] /\ (s = "sent" => cur \in stored)
          BY <1>a, <4>1, <4>3, SettleOnDisk
        <4> QED BY <4>1, <4>4, RowStepIsPromised
      <3>2. CASE ~Awaited(ans.msg)
        BY <2>3, <3>2 DEF Answer, outbox, platform, Promise!vars
      <3> QED BY <3>1, <3>2
    <2>4. CASE PlatformRecv(a)
      <3> DEFINE m == Head(toPlatform[a]).msg
      <3>1. m \in Msgs /\ disk[m] # "none"
        <4>1. toPlatform[a] \in Seq(Frames) /\ toPlatform[a] # <<>>
          BY <2>4 DEF PlatformRecv, Traffic, TrafficType
        <4>2. Head(toPlatform[a]) \in Frames /\ Head(toPlatform[a]) = toPlatform[a][1] /\ 1 \in DOMAIN toPlatform[a]
          BY <4>1, TailHolds
        <4> QED BY <4>2 DEF Frames, Traffic, FramesAccepted
      <3>2. disk' = disk
        BY <2>4 DEF PlatformRecv, outbox
      <3>3. CASE arrivals' = arrivals
        BY <3>2, <3>3 DEF Promise!vars
      <3>4. CASE arrivals' # arrivals
        <4>1. m \notin stored /\ arrivals' = [arrivals EXCEPT ![m] = @ + 1]
          BY <2>4, <3>4 DEF PlatformRecv, Known
        <4>2. arrivals[m] = 0
          BY <3>1, <4>1 DEF Traffic, ArrivedIsStored
        <4>3. arrivals' = [arrivals EXCEPT ![m] = 1]
          <5> HIDE DEF m
          <5>1. arrivals[m] + 1 = 1
            BY <4>2
          <5> QED BY <4>1, <5>1
        <4> QED BY <3>1, <3>2, <4>2, <4>3 DEF Promise!Next, Promise!Arrive
      <3> QED BY <3>3, <3>4
    <2> QED BY <1>4, <2>1, <2>2, <2>3, <2>4 DEF Linking
  <1>5. CASE FlushStart \/ HistorySaved \/ Crash \/ \E m \in Msgs : Flip(m) \/ Expire(m)
    BY <1>5 DEF FlushStart, HistorySaved, Crash, Restart, Flip, Expire, outbox, platform, Promise!vars
  <1> QED BY <1>1, <1>2, <1>3, <1>4, <1>5 DEF Next

\* The outbox, its flush loop and the platform's dedup implement the promise:
\* accepted once and for good, routed at most once, "sent" only when routed.
THEOREM PromiseIsKept == Spec => PromiseKept
  <1>1. Init => Promise!Init
    BY DEF Init, Promise!Init
  <1>2. IInv /\ [Next]_vars => [Promise!Next]_(Promise!vars)
    <2> SUFFICES ASSUME IInv, [Next]_vars PROVE Promise!Next \/ UNCHANGED Promise!vars
      BY DEF Promise!vars
    <2>1. Ledger /\ Traffic
      BY Halves
    <2>2. CASE UNCHANGED vars
      BY <2>2 DEF vars, outbox, platform, Promise!vars
    <2> QED BY <2>1, <2>2, StepIsPromised
  <1> QED BY <1>1, <1>2, Invariance, PTL DEF Spec, PromiseKept, Promise!Spec
=============================================================================
