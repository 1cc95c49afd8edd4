---------------------------- MODULE PlatformJobs ----------------------------
(***************************************************************************)
(* The work the platform owes after a request is over: expired attachments *)
(* leave R2, what a deleted account had outside SQL goes, expired mail     *)
(* tokens and holds are purged, waitlist rows are copied to D1             *)
(* (packages/platform/src/files-r2.ts, alarms.ts, and alarm(),             *)
(* cleanupDeletedAccounts and the account routes of hub-do.ts).            *)
(*                                                                         *)
(* One durable alarm serves all four.  A handler runs alone between its    *)
(* awaits of R2, D1, a digest and a mail; there, other handlers run,       *)
(* alarm() among them, and the object may be restarted, which forgets      *)
(* everything but SQL, R2, D1 and the alarm.  While a handler awaits the   *)
(* object's own storage, as to arm the alarm, the runtime delivers nothing *)
(* else (input gates): arming and what follows it up to the next await of  *)
(* another kind is one step, unless it matters that a restart falls there. *)
(*                                                                         *)
(* Time is relative: every deadline is the number of ticks left to it.     *)
(***************************************************************************)
EXTENDS Integers, FiniteSets

CONSTANTS
    Files,       \* file ids that can exist together
    Accounts,    \* accounts that can exist together
    Members,     \* mailboxes on the waitlist
    OwnerOf,     \* the account a file id is uploaded by
    Quota,       \* maxTotalBytes, in files
    FileTtl,     \* ttlMs: 24 hours
    PurgeEvery,  \* 60 minutes: the next purge while something can expire
    RetryAfter,  \* 60 seconds: after a failure, or a full mirror batch
    Batch,       \* LIMIT 100: waitlist rows mirrored per alarm
    MaxFaults    \* bound: failing R2, D1 or mail calls, and restarts

ASSUME JobConstants ==
    /\ OwnerOf \in [Files -> Accounts]
    /\ Quota \in Nat /\ MaxFaults \in Nat
    /\ {FileTtl, PurgeEvery, RetryAfter, Batch} \subseteq Nat \ {0}
    /\ RetryAfter <= PurgeEvery
    /\ IsFiniteSet(Members)

VARIABLES
    alarm,    \* ticks to the alarm, or NoAlarm
    row,      \* attachments: ticks to expires_ms, or NoRow
    blob,     \* R2: the files stored
    upload,   \* upload requests: what each file's request awaits
    live,     \* accounts
    job,      \* account_cleanup: the accounts with a queued cleanup
    owed,     \* the file ids queued with each cleanup
    token,    \* whether a mail token or a hold is stored
    waitlist, \* waitlist_members
    waiting,  \* those not mirrored yet
    run,      \* the alarm handler and one request handler in progress
    cut,      \* history: files in R2 whose upload was cut before their row
    unarmed,  \* history: files with a row whose upload was cut before its alarm
    slipped,  \* history: the last alarm() left none, with a mail request to store
    faults    \* faults so far

vars == <<alarm, row, blob, upload, live, job, owed, token, waitlist, waiting,
          run, cut, unarmed, slipped, faults>>

\* The variables that most steps leave alone together.
stored == <<row, blob, upload>>
accts  == <<live, job, owed>>
mail   == <<token, waitlist, waiting, slipped>>
lost   == <<cut, unarmed>>

NoAlarm == -1
NoRow   == -2
Longest == FileTtl + PurgeEvery + RetryAfter
Handlers == {"alarm", "request"}
Phases == {"idle", "armed", "sent", "mirror", "cleanup", "sweep"}
Idle == [pc |-> "idle", rows |-> {}, full |-> FALSE, jobs |-> {}, todo |-> {}]

TypeOK ==
    /\ alarm \in {NoAlarm} \cup 0 .. Longest
    /\ row \in [Files -> {NoRow} \cup -1 .. FileTtl]
    /\ blob \subseteq Files
    /\ upload \in [Files -> {"none", "stored", "inserted"}]
    /\ live \subseteq Accounts
    /\ job \subseteq Accounts
    /\ owed \in [Accounts -> SUBSET Files]
    /\ \A a \in Accounts : a \notin job => owed[a] = {}
    /\ token \in BOOLEAN
    /\ waitlist \subseteq Members /\ waiting \subseteq waitlist
    /\ run \in [Handlers ->
           [pc : Phases, rows : SUBSET Members,
            full : BOOLEAN, jobs : SUBSET Accounts, todo : SUBSET Files]]
    /\ cut \subseteq Files /\ unarmed \subseteq Files /\ slipped \in BOOLEAN
    /\ faults \in 0 .. MaxFaults

Rows == {f \in Files : row[f] # NoRow}
ExpiredRows == {f \in Rows : row[f] < 0}

Least(S) == CHOOSE m \in S : \A x \in S : m <= x
AtLeast0(x) == IF x < 0 THEN 0 ELSE x

ScheduleByLast(current, deadline) == deadline   \* mutant: setAlarm, whatever was set

\* scheduleAlarmBy: an alarm is only ever moved to an earlier time.
ScheduleBy(current, deadline) ==
    IF current = NoAlarm \/ deadline < current THEN deadline ELSE current

\* A file id nothing refers to.  (Ids are random and never reused; reusing
\* one that left no trace keeps the model finite.)
Fresh(f) ==
    /\ f \notin Rows \cup blob \cup cut \cup unarmed
    /\ upload[f] = "none"
    /\ \A a \in Accounts : f \notin owed[a]
    /\ \A h \in Handlers : f \notin run[h].todo

-----------------------------------------------------------------------------
(* Uploads (FileStoreR2.put).                                              *)

\* The quota is checked against the rows, and R2 is asked: it may have the bytes
\* from now on, the request has not resumed.
PutChecked(f) ==
    /\ Fresh(f) /\ OwnerOf[f] \in live
    /\ Cardinality(Rows) + 1 <= Quota
    /\ blob' = blob \cup {f}
    /\ upload' = [upload EXCEPT ![f] = "stored"]
    /\ UNCHANGED <<alarm, row, accts, mail, run, lost, faults>>

\* insertAttachment, whoever else has uploaded and whether or not the account
\* is still there.
PutInserted(f) ==
    /\ upload[f] = "stored"
    /\ row' = [row EXCEPT ![f] = FileTtl]
    /\ upload' = [upload EXCEPT ![f] = "inserted"]
    /\ UNCHANGED <<alarm, blob, accts, mail, run, lost, faults>>

PutArmed(f) ==
    /\ upload[f] = "inserted"
    /\ alarm' = ScheduleBy(alarm,
                    IF row[f] = NoRow THEN FileTtl ELSE AtLeast0(row[f]))
    /\ upload' = [upload EXCEPT ![f] = "none"]
    /\ UNCHANGED <<row, blob, accts, mail, run, lost, faults>>

\* R2 fails the upload, with or without having stored the bytes.
PutFails(f) ==
    /\ upload[f] = "stored" /\ faults < MaxFaults
    /\ faults' = faults + 1
    /\ upload' = [upload EXCEPT ![f] = "none"]
    /\ \/ cut' = cut \cup {f} /\ UNCHANGED blob
       \/ blob' = blob \ {f} /\ UNCHANGED cut
    /\ UNCHANGED <<alarm, row, accts, mail, run, unarmed>>

-----------------------------------------------------------------------------
(* Downloads (FileStoreR2.get).                                            *)

\* A download that finds the row expired deletes the file: R2 first.  The
\* request dies with the row in place when R2 fails or the object restarts.
GetExpired(f) ==
    /\ f \in ExpiredRows
    /\ blob' = blob \ {f}
    /\ UNCHANGED <<alarm, row, upload, accts, mail, run, lost, faults>>

\* A download that finds the bytes gone drops the row; so does the second half
\* of delete().
GetMissing(f) ==
    /\ f \in Rows \ blob
    /\ row' = [row EXCEPT ![f] = NoRow]
    /\ UNCHANGED <<alarm, blob, upload, accts, mail, run, lost, faults>>

-----------------------------------------------------------------------------
(* Accounts and mail.                                                      *)

Signup(a) ==
    /\ a \notin live \cup job
    /\ \A h \in Handlers : a \notin run[h].jobs
    /\ owed[a] = {} /\ ~\E f \in Files : OwnerOf[f] = a /\ ~Fresh(f)
    /\ live' = live \cup {a}
    /\ UNCHANGED <<alarm, stored, job, owed, mail, run, lost, faults>>

OwedLive(a) == {f \in Rows \ ExpiredRows : OwnerOf[f] = a}   \* mutant: leaves out what has expired

\* The blobs whose deletion deleteAccount queues.
OwedBy(a) == {f \in Rows : OwnerOf[f] = a}

\* DELETE /account: the alarm is armed, then the transaction of deleteAccount
\* drops the rows and queues the file ids, and the request starts to clean up
\* every queued job itself.
DeleteAccount(a) ==
    /\ a \in live /\ run["request"].pc = "idle"
    /\ alarm' = ScheduleBy(alarm, 0)
    /\ live' = live \ {a}
    /\ job' = job \cup {a}
    /\ owed' = [owed EXCEPT ![a] = OwedBy(a)]
    /\ row' = [f \in Files |-> IF OwnerOf[f] = a THEN NoRow ELSE row[f]]
    /\ run' = [run EXCEPT !["request"] = [Idle EXCEPT
           !.pc = "cleanup", !.jobs = job',
           !.todo = UNION {owed'[b] : b \in job'}]]
    /\ UNCHANGED <<blob, upload, mail, lost, faults>>

\* The rows the mirror takes up: some of those that wait, no more than Batch.
Batches(rows) ==
    {b \in SUBSET rows : Cardinality(b) = Least({Batch, Cardinality(rows)})}

ToMirror(rows) == [run EXCEPT !["request"] = [Idle EXCEPT !.pc = "mirror", !.rows = rows]]

\* A reservation request whose body has come arms the alarm within a minute, and
\* awaits the digests of its mailbox and its tokens.
MailRequest ==
    /\ run["request"].pc = "idle"
    /\ alarm' = ScheduleBy(alarm, RetryAfter)
    /\ run' = [run EXCEPT !["request"].pc = "armed"]
    /\ UNCHANGED <<stored, accts, mail, lost, faults>>

\* The transaction stores the hold, the tokens and the waitlist row; the mail is
\* awaited.
MailStored(m) ==
    /\ run["request"].pc = "armed"
    /\ token' = TRUE
    /\ waitlist' = waitlist \cup {m}
    /\ waiting' = waiting \cup ({m} \ waitlist)
    /\ run' = [run EXCEPT !["request"].pc = "sent"]
    /\ UNCHANGED <<alarm, stored, accts, slipped, lost, faults>>

\* What has run out is purged, nothing is stored: too many requests or a name that
\* is taken end the request, for a hold of somebody else's it goes on to the mirror.
MailRefused ==
    /\ run["request"].pc = "armed"
    /\ token' \in {token, FALSE}
    /\ \/ run' = [run EXCEPT !["request"] = Idle]
       \/ \E rows \in Batches(waiting) : run' = ToMirror(rows)
    /\ UNCHANGED <<alarm, stored, accts, waitlist, waiting, slipped, lost, faults>>

MailSent ==
    /\ run["request"].pc = "sent"
    /\ \E rows \in Batches(waiting) : run' = ToMirror(rows)
    /\ UNCHANGED <<alarm, stored, accts, mail, lost, faults>>

\* Without its mail a request takes back its tokens, and a hold that is new; others
\* may be left.  Nothing is mirrored.
MailFails ==
    /\ run["request"].pc = "sent" /\ faults < MaxFaults
    /\ faults' = faults + 1
    /\ token' \in {token, FALSE}
    /\ run' = [run EXCEPT !["request"] = Idle]
    /\ UNCHANGED <<alarm, stored, accts, waitlist, waiting, slipped, lost>>

-----------------------------------------------------------------------------
(* The handlers: alarm(), and the clean-up or the mirroring of a request.  *)

\* The runtime consumes the alarm and calls alarm(): purge, and the next purge
\* when anything is left that can expire.  Tokens and holds may all have run out or
\* not; a rate limit may be left of any request (rateLimited), of a mail request in
\* progress most of all.
AlarmFires ==
    /\ alarm = 0 /\ run["alarm"].pc = "idle"
    /\ token' \in {token, FALSE}
    /\ \E limited \in BOOLEAN :
           alarm' = IF token' \/ limited THEN PurgeEvery ELSE NoAlarm
    /\ slipped' = (alarm' = NoAlarm /\ run["request"].pc = "armed")
    /\ \E rows \in Batches(waiting) :
           run' = [run EXCEPT !["alarm"] = [Idle EXCEPT
                  !.pc = "mirror", !.rows = rows, !.full = Cardinality(rows) = Batch]]
    /\ UNCHANGED <<stored, accts, waitlist, waiting, lost, faults>>

\* mirrorWaitlist: D1 has the row (ON CONFLICT DO NOTHING), then it is marked.
MirrorRow(h, m) ==
    /\ run[h].pc = "mirror" /\ m \in run[h].rows
    /\ waiting' = waiting \ {m}
    /\ run' = [run EXCEPT ![h].rows = @ \ {m}]
    /\ UNCHANGED <<alarm, stored, accts, token, waitlist, slipped, lost, faults>>

\* A full batch means there may be more: again in a minute.  alarm() goes on
\* to the clean-up with the jobs queued now.
MirrorDone(h) ==
    /\ run[h].pc = "mirror" /\ run[h].rows = {}
    /\ IF h = "alarm"
       THEN /\ alarm' = IF run[h].full THEN ScheduleBy(alarm, RetryAfter) ELSE alarm
            /\ run' = [run EXCEPT ![h] = [Idle EXCEPT
                   !.pc = "cleanup", !.jobs = job,
                   !.todo = UNION {owed[a] : a \in job}]]
       ELSE /\ run' = [run EXCEPT ![h] = Idle]
            /\ UNCHANGED alarm
    /\ UNCHANGED <<stored, accts, mail, lost, faults>>

\* cleanupDeletedAccounts: the files of the queued jobs leave R2 one by one.
CleanFile(h, f) ==
    /\ run[h].pc = "cleanup" /\ f \in run[h].todo
    /\ blob' = blob \ {f}
    /\ run' = [run EXCEPT ![h].todo = @ \ {f}]
    /\ UNCHANGED <<alarm, row, upload, accts, mail, lost, faults>>

\* What is still queued when the clean-up of a is finished.
Finished(a) == [owed EXCEPT ![a] = {}]

\* finishAccountCleanup, once the files and session keys of the job are gone.
FinishJob(h, a) ==
    /\ run[h].pc = "cleanup" /\ a \in run[h].jobs
    /\ ~\E f \in run[h].todo : OwnerOf[f] = a
    /\ job' = job \ {a}
    /\ owed' = Finished(a)
    /\ run' = [run EXCEPT ![h].jobs = @ \ {a}]
    /\ UNCHANGED <<alarm, stored, live, mail, lost, faults>>

\* alarm() goes on to the files that have expired by now.
CleanupDone(h) ==
    /\ run[h].pc = "cleanup" /\ run[h].jobs = {}
    /\ run' = [run EXCEPT ![h] = IF h = "alarm"
           THEN [Idle EXCEPT !.pc = "sweep", !.todo = ExpiredRows] ELSE Idle]
    /\ UNCHANGED <<alarm, stored, accts, mail, lost, faults>>

\* sweep: delete() of one expired file, first in R2 and then its row.
SweepBlob(f) ==
    /\ run["alarm"].pc = "sweep" /\ f \in run["alarm"].todo \cap blob
    /\ blob' = blob \ {f}
    /\ UNCHANGED <<alarm, row, upload, accts, mail, run, lost, faults>>

SweepRow(f) ==
    /\ run["alarm"].pc = "sweep" /\ f \in run["alarm"].todo \ blob
    /\ row' = [row EXCEPT ![f] = NoRow]
    /\ run' = [run EXCEPT !["alarm"].todo = @ \ {f}]
    /\ UNCHANGED <<alarm, blob, upload, accts, mail, lost, faults>>

\* The alarm is armed for the next expiry, and alarm() returns.
SweepDone ==
    /\ run["alarm"].pc = "sweep" /\ run["alarm"].todo = {}
    /\ \/ Rows = {} /\ UNCHANGED alarm
       \/ \E f \in Rows :
              /\ \A g \in Rows : row[f] <= row[g]
              /\ alarm' = ScheduleBy(alarm, AtLeast0(row[f]))
    /\ unarmed' = {}
    /\ run' = [run EXCEPT !["alarm"] = Idle]
    /\ UNCHANGED <<stored, accts, mail, cut, faults>>

RetriedNot == alarm   \* mutant: the error is swallowed

\* The catch of alarm().
Retried == ScheduleBy(alarm, RetryAfter)

\* A call of R2 or D1 fails: alarm() catches it and tries again in a minute,
\* a request leaves the rest to the alarm.
HandlerFails(h) ==
    /\ run[h].pc # "idle" /\ faults < MaxFaults
    /\ faults' = faults + 1
    /\ run' = [run EXCEPT ![h] = Idle]
    /\ alarm' = IF h = "alarm" THEN Retried ELSE alarm
    /\ UNCHANGED <<stored, accts, mail, lost>>

-----------------------------------------------------------------------------
\* The object restarts.  The runtime calls an interrupted alarm() again; the
\* requests in progress are lost: of an upload R2 already has nothing else may
\* be left, and another may have its row and no alarm.
Restart ==
    /\ faults < MaxFaults
    /\ faults' = faults + 1
    /\ alarm' = IF run["alarm"].pc = "idle" THEN alarm ELSE 0
    /\ run' = [h \in Handlers |-> Idle]
    /\ cut' = cut \cup {f \in Files : upload[f] = "stored"}
    /\ unarmed' = unarmed \cup {f \in Rows : upload[f] = "inserted"}
    /\ upload' = [f \in Files |-> "none"]
    /\ UNCHANGED <<row, blob, accts, mail>>

\* Time passes: a tick is long against the object's own storage, which is all that
\* an upload with its row awaits.
Pass(t) == IF t <= 0 THEN t ELSE t - 1
Tick ==
    /\ \A f \in Files : upload[f] # "inserted"
    /\ alarm' = Pass(alarm)
    /\ row' = [f \in Files |-> IF row[f] = 0 THEN -1 ELSE Pass(row[f])]
    /\ UNCHANGED <<blob, upload, accts, mail, run, lost, faults>>

Init ==
    /\ alarm = NoAlarm
    /\ row = [f \in Files |-> NoRow]
    /\ blob = {}
    /\ upload = [f \in Files |-> "none"]
    /\ live = {}
    /\ job = {}
    /\ owed = [a \in Accounts |-> {}]
    /\ token = FALSE
    /\ waitlist = {}
    /\ waiting = {}
    /\ run = [h \in Handlers |-> Idle]
    /\ cut = {} /\ unarmed = {} /\ slipped = FALSE
    /\ faults = 0

RequestNext ==
    \/ \E f \in Files : PutChecked(f) \/ PutInserted(f)
                        \/ PutArmed(f) \/ PutFails(f)
    \/ \E f \in Files : GetExpired(f) \/ GetMissing(f)
    \/ \E a \in Accounts : Signup(a) \/ DeleteAccount(a)
    \/ MailRequest \/ MailRefused \/ MailSent \/ MailFails
    \/ \E m \in Members : MailStored(m)

Works(h) ==
    \/ \E m \in Members : MirrorRow(h, m)
    \/ MirrorDone(h)
    \/ \E f \in Files : CleanFile(h, f)
    \/ \E a \in Accounts : FinishJob(h, a)
    \/ CleanupDone(h)

Sweeps ==
    \/ \E f \in Files : SweepBlob(f) \/ SweepRow(f)
    \/ SweepDone

HandlerNext ==
    \/ AlarmFires
    \/ \E h \in Handlers : Works(h)
    \/ Sweeps
    \/ \E h \in Handlers : HandlerFails(h)

Next == RequestNext \/ HandlerNext \/ Restart \/ Tick

\* The runtime fires a due alarm and resumes a handler whose call has been
\* answered, uploads come to an end, and time passes.  Nobody has to upload,
\* download, delete an account or fail.
Fairness ==
    /\ WF_vars(AlarmFires \/ Works("alarm") \/ Sweeps)
    /\ WF_vars(Works("request"))
    /\ \A f \in Files : WF_vars(PutInserted(f) \/ PutArmed(f))
    /\ WF_vars(Tick)

Spec == Init /\ [][Next]_vars /\ Fairness

-----------------------------------------------------------------------------
(* What the shared alarm owes.                                             *)

\* alarm() is still going to look at the rows: it re-arms when it ends.
WillSweep == run["alarm"].pc # "idle"

\* A row's alarm is no later than its expiry, or the minute after a failed run.
\* Excepted is a row whose upload was killed before it could arm the alarm, until
\* alarm() has run again for any reason.
RowsCovered ==
    \A f \in Rows \ unarmed :
        \/ upload[f] = "inserted"
        \/ alarm # NoAlarm /\ (alarm <= AtLeast0(row[f]) \/ alarm <= RetryAfter)
        \/ WillSweep

\* A queued clean-up is retried within a minute.
JobsCovered ==
    \A a \in job :
        \/ alarm # NoAlarm /\ alarm <= RetryAfter
        \/ run["alarm"].pc = "mirror"
        \/ a \in run["alarm"].jobs

\* While a mail token or a hold is stored the next purge is set.  Excepted is the
\* time after alarm() ran between the arming and the storing of a mail request and
\* found nothing that expires, no rate limit either (hub-do.ts: "Keep expiry
\* cleanup running even if no further requests arrive"), until it runs again.
PurgeCovered == token => (alarm # NoAlarm /\ alarm <= PurgeEvery) \/ slipped

MirrorCovered == waiting # {} => alarm # NoAlarm \/ run["alarm"].pc = "mirror" \/ slipped

\* No job waits without a wake-up: each has the alarm set early enough, or alarm()
\* is at work and will see to it.  Requests overlap alarm() and each other, and each
\* moves the one alarm for reasons of its own (alarms.ts: "Never postpone another job").
AlarmCoversWork == RowsCovered /\ JobsCovered /\ PurgeCovered /\ MirrorCovered

\* Bytes in R2 are never forgotten: a row, a queued clean-up or the upload in
\* progress still names them (db.ts: "failures never orphan blobs"), except
\* for an upload cut between R2 and the row.
BlobIsNamed ==
    \A f \in blob \ cut :
        \/ f \in Rows
        \/ upload[f] = "stored"
        \/ \E a \in job : f \in owed[a]

\* Every upload leaves R2 again: by its own expiry or by the deletion of its
\* account, whatever of R2, D1 and mail fails on the way and whenever the object
\* restarts, unless its own upload was cut short of its row or of its alarm.
BlobsGo == \A f \in Files : f \in blob \ (cut \cup unarmed) ~> f \notin blob \ (cut \cup unarmed)

=============================================================================
