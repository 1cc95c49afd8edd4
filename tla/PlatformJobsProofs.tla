------------------------- MODULE PlatformJobsProofs -------------------------
(***************************************************************************)
(* Theorems about PlatformJobs, for any files, accounts and mailboxes, any *)
(* times to live (a retry comes no later than a purge) and any faults: the *)
(* one alarm covers every job, and bytes in R2 are never forgotten.        *)
(*                                                                         *)
(* A step changes few variables, so each part of the invariant looks only  *)
(* at the steps that touch its own; the lemmas of the first section say    *)
(* which those are.                                                        *)
(***************************************************************************)
EXTENDS PlatformJobs, FiniteSetTheorems, TLAPS

USE JobConstants

\* Only a handler in its clean-up has jobs in hand.
InHand == \A h \in Handlers : run[h].pc # "cleanup" => run[h].jobs = {}

\* alarm() holds every waiting row, unless the batch was full or a request that
\* came since has armed the alarm.
BatchComplete ==
    run["alarm"].pc = "mirror" /\ alarm = NoAlarm /\ ~run["alarm"].full /\ ~slipped
        => waiting \subseteq run["alarm"].rows

\* A mail request that has yet to store finds the alarm it armed or the purge set
\* in its place, or alarm() slipped in between.
OnItsWay ==
    run["request"].pc = "armed" => (alarm # NoAlarm /\ alarm <= PurgeEvery) \/ slipped

\* A file whose upload is in progress has no row and no one means to delete it.
Uploading ==
    \A f \in Files : upload[f] = "stored" =>
        row[f] = NoRow /\ \A a \in Accounts : f \notin owed[a]

\* An account owes its own files only, and a live one nothing.
Leaving ==
    /\ \A a \in Accounts : \A f \in owed[a] : OwnerOf[f] = a
    /\ \A a \in live : a \notin job /\ \A h \in Handlers : a \notin run[h].jobs

\* What a clean-up in hand has not deleted, it is going to.
InTodo == \A h \in Handlers : \A a \in run[h].jobs : owed[a] \cap blob \subseteq run[h].todo

\* What a handler in progress has in hand, and the steps of a mail request.
Work == [pc : Phases, rows : SUBSET Members, full : BOOLEAN, jobs : SUBSET Accounts, todo : SUBSET Files]
MailStep ==
    MailRequest \/ MailRefused \/ MailSent \/ MailFails \/ \E m \in Members : MailStored(m)

IInv ==
    /\ TypeOK /\ InHand /\ BatchComplete /\ OnItsWay /\ AlarmCoversWork
    /\ Uploading /\ Leaving /\ InTodo /\ BlobIsNamed

-----------------------------------------------------------------------------
(* The type invariant.                                                     *)

\* The earlier of two times is a time.
LEMMA ScheduleByType ==
  ASSUME NEW t \in 0 .. Longest, alarm \in {NoAlarm} \cup 0 .. Longest
  PROVE  ScheduleBy(alarm, t) \in 0 .. Longest
  BY DEF ScheduleBy, NoAlarm, Longest

LEMMA TypeInit == Init => TypeOK
  <1> SUFFICES ASSUME Init PROVE TypeOK
    OBVIOUS
  <1>1. Idle \in Work
    BY DEF Idle, Work, Phases
  <1>2. run \in [Handlers -> Work]
    BY <1>1 DEF Init
  <1>3. faults \in 0 .. MaxFaults
    BY DEF Init
  <1>4. row \in [Files -> {NoRow} \cup -1 .. FileTtl] /\ alarm \in {NoAlarm} \cup 0 .. Longest
    BY DEF Init
  <1> QED BY <1>2, <1>3, <1>4 DEF Init, TypeOK, Work

LEMMA TypeUpload ==
  ASSUME TypeOK, NEW f \in Files,
         \/ PutChecked(f) \/ PutInserted(f) \/ PutArmed(f) \/ PutFails(f)
         \/ GetExpired(f) \/ GetMissing(f)
  PROVE  TypeOK'
  <1>1. CASE PutChecked(f)
    BY <1>1 DEF TypeOK, PutChecked, accts, mail, lost
  <1>3. CASE PutInserted(f)
    BY <1>3 DEF TypeOK, PutInserted, accts, mail, lost
  <1>4. CASE PutArmed(f)
    <2>1. (IF row[f] = NoRow THEN FileTtl ELSE AtLeast0(row[f])) \in 0 .. Longest
      BY DEF TypeOK, AtLeast0, Longest, NoRow
    <2>2. alarm' \in 0 .. Longest
      BY <1>4, <2>1, ScheduleByType DEF PutArmed, TypeOK
    <2> QED BY <1>4, <2>2 DEF TypeOK, PutArmed, accts, mail, lost
  <1>5. CASE PutFails(f)
    BY <1>5 DEF TypeOK, PutFails, accts, mail, lost
  <1>6. CASE GetExpired(f)
    BY <1>6 DEF TypeOK, GetExpired, accts, mail, lost
  <1>7. CASE GetMissing(f)
    BY <1>7 DEF TypeOK, GetMissing, accts, mail, lost
  <1> QED BY <1>1, <1>3, <1>4, <1>5, <1>6, <1>7

\* A mail request is the one request in progress, and has no clean-up in hand.
LEMMA MailRun ==
  ASSUME TypeOK, MailStep
  PROVE  /\ \E w \in Work : /\ run' = [run EXCEPT !["request"] = w]
                            /\ w.jobs \subseteq run["request"].jobs /\ w.pc # "cleanup"
         /\ run'["alarm"] = run["alarm"] /\ run["request"].pc # "cleanup"
  <1>1. "request" \in Handlers /\ "alarm" \in Handlers /\ run["request"] \in Work
    BY DEF Handlers, TypeOK, Work
  <1>2. CASE MailRequest \/ \E m \in Members : MailStored(m)
    <2>1. PICK pc \in {"armed", "sent"} : run' = [run EXCEPT !["request"].pc = pc]
      BY <1>2 DEF MailRequest, MailStored
    <2>2. PICK w : w = [run["request"] EXCEPT !.pc = pc]
      OBVIOUS
    <2>3. w \in Work /\ w.jobs = run["request"].jobs /\ w.pc # "cleanup"
      BY <1>1, <2>1, <2>2 DEF Work, Phases
    <2>4. run' = [run EXCEPT !["request"] = w]
      BY <2>1, <2>2
    <2>5. run'["alarm"] = run["alarm"] /\ run["request"].pc # "cleanup"
      BY <1>1, <1>2, <2>4 DEF MailRequest, MailStored, TypeOK
    <2> QED BY <2>3, <2>4, <2>5
  <1>3. CASE MailRefused \/ MailSent \/ MailFails
    <2>1. PICK w : /\ run' = [run EXCEPT !["request"] = w]
                   /\ \/ w = Idle
                      \/ \E rows \in Batches(waiting) : w = [Idle EXCEPT !.pc = "mirror", !.rows = rows]
      BY <1>3 DEF MailRefused, MailSent, MailFails, ToMirror
    <2>2. w \in Work /\ w.jobs = {} /\ w.pc # "cleanup"
      <3>1. CASE w = Idle
        BY <3>1 DEF Work, Phases, Idle
      <3>2. ASSUME NEW rows \in Batches(waiting), w = [Idle EXCEPT !.pc = "mirror", !.rows = rows]
            PROVE  w \in Work /\ w.jobs = {} /\ w.pc # "cleanup"
        <4>1. rows \subseteq Members
          BY DEF Batches, TypeOK
        <4> QED BY <3>2, <4>1 DEF Work, Phases, Idle
      <3> QED BY <2>1, <3>1, <3>2
    <2>3. run'["alarm"] = run["alarm"] /\ run["request"].pc # "cleanup"
      BY <1>1, <1>3, <2>1 DEF MailRefused, MailSent, MailFails, TypeOK
    <2> QED BY <2>1, <2>2, <2>3
  <1> QED BY <1>2, <1>3 DEF MailStep

LEMMA TypeRequests ==
  ASSUME TypeOK, MailStep \/ \E a \in Accounts : Signup(a) \/ DeleteAccount(a)
  PROVE  TypeOK'
  <1>1. ASSUME NEW a \in Accounts, Signup(a) PROVE TypeOK'
    BY <1>1 DEF TypeOK, Signup, stored, mail, lost
  <1>2. ASSUME NEW a \in Accounts, DeleteAccount(a) PROVE TypeOK'
    <2>1. alarm' \in 0 .. Longest
      BY <1>2, ScheduleByType DEF DeleteAccount, TypeOK, Longest
    <2>2. owed' \in [Accounts -> SUBSET Files] /\ row' \in [Files -> {NoRow} \cup -1 .. FileTtl]
      BY <1>2 DEF DeleteAccount, TypeOK, OwedBy, Rows
    <2>3. \A b \in Accounts : b \notin job' => owed'[b] = {}
      BY <1>2 DEF DeleteAccount, TypeOK
    <2>4. run' \in [Handlers -> Work]
      <3>1. job' \subseteq Accounts /\ UNION {owed'[b] : b \in job'} \subseteq Files
        BY <1>2, <2>2 DEF DeleteAccount, TypeOK
      <3> QED BY <1>2, <3>1 DEF DeleteAccount, TypeOK, Idle, Phases, Work
    <2> QED BY <1>2, <2>1, <2>2, <2>3, <2>4 DEF TypeOK, DeleteAccount, Work, mail, lost
  <1>3. ASSUME MailStep PROVE TypeOK'
    <2>1. alarm' \in {NoAlarm} \cup 0 .. Longest
      <3>1. RetryAfter \in 0 .. Longest
        BY DEF Longest
      <3> QED BY <1>3, <3>1, ScheduleByType
              DEF MailStep, MailRequest, MailStored, MailRefused, MailSent, MailFails, TypeOK
    <2>2. /\ waiting' \subseteq waitlist' /\ waitlist' \subseteq Members
          /\ token' \in BOOLEAN /\ slipped' \in BOOLEAN
      BY <1>3 DEF MailStep, MailRequest, MailStored, MailRefused, MailSent, MailFails, mail, TypeOK
    <2>3. run' \in [Handlers -> Work]
      <3>1. PICK w \in Work : run' = [run EXCEPT !["request"] = w]
        BY <1>3, MailRun
      <3> QED BY <3>1 DEF TypeOK, Work
    <2>4. UNCHANGED <<row, blob, upload, live, job, owed, cut, unarmed>>
      BY <1>3 DEF MailStep, MailRequest, MailStored, MailRefused, MailSent, MailFails, stored, accts, lost
    <2>5. faults' = faults \/ (faults < MaxFaults /\ faults' = faults + 1)
      BY <1>3 DEF MailStep, MailRequest, MailStored, MailRefused, MailSent, MailFails, lost
    <2>6. faults' \in 0 .. MaxFaults
      BY <2>5 DEF TypeOK
    <2> QED BY <2>1, <2>2, <2>3, <2>4, <2>6 DEF TypeOK, Work
  <1> QED BY <1>1, <1>2, <1>3

\* After mirroring, alarm() takes up the queued jobs with all their files.
LEMMA MirrorDoneRun ==
  ASSUME TypeOK, NEW h \in Handlers, MirrorDone(h)
  PROVE  /\ run[h].pc = "mirror" /\ run[h].rows = {}
         /\ h # "alarm" => run' = [run EXCEPT ![h] = Idle]
         /\ h = "alarm" => \E todo \in SUBSET Files :
               /\ run' = [run EXCEPT ![h] =
                             [Idle EXCEPT !.pc = "cleanup", !.jobs = job, !.todo = todo]]
               /\ \A a \in job : owed[a] \subseteq todo
  <1> DEFINE todo == UNION {owed[a] : a \in job}
  <1>1. todo \in SUBSET Files /\ \A a \in job : owed[a] \subseteq todo
    BY DEF TypeOK
  <1>2. h = "alarm" => run' = [run EXCEPT ![h] =
                                 [Idle EXCEPT !.pc = "cleanup", !.jobs = job, !.todo = todo]]
    BY DEF MirrorDone
  <1>3. /\ run[h].pc = "mirror" /\ run[h].rows = {}
        /\ h # "alarm" => run' = [run EXCEPT ![h] = Idle]
    BY DEF MirrorDone
  <1> HIDE DEF todo
  <1> QED BY <1>1, <1>2, <1>3

LEMMA TypeHandlers ==
  ASSUME TypeOK, NEW h \in Handlers, Works(h)
  PROVE  TypeOK'
  <1>1. ASSUME NEW m \in Members, MirrorRow(h, m) PROVE TypeOK'
    BY <1>1 DEF TypeOK, MirrorRow, stored, accts, lost
  <1>2. ASSUME MirrorDone(h) PROVE TypeOK'
    <2>1. alarm' \in {NoAlarm} \cup 0 .. Longest
      <3>1. RetryAfter \in 0 .. Longest
        BY DEF Longest
      <3> QED BY <1>2, <3>1, ScheduleByType DEF MirrorDone, TypeOK
    <2>2. run' \in [Handlers -> Work]
      <3>1. CASE h = "alarm"
        <4>1. PICK todo \in SUBSET Files : run' = [run EXCEPT ![h] =
                             [Idle EXCEPT !.pc = "cleanup", !.jobs = job, !.todo = todo]]
          BY <1>2, <3>1, MirrorDoneRun
        <4> QED BY <4>1 DEF TypeOK, Idle, Phases, Work
      <3>2. CASE h # "alarm"
        <4>1. run' = [run EXCEPT ![h] = Idle]
          BY <1>2, <3>2, MirrorDoneRun
        <4> QED BY <4>1 DEF TypeOK, Idle, Phases, Work
      <3> QED BY <3>1, <3>2
    <2>3. UNCHANGED <<row, blob, upload, live, job, owed, token, waitlist, waiting, slipped,
                     cut, unarmed, faults>>
      BY <1>2 DEF MirrorDone, stored, accts, mail, lost
    <2> QED BY <2>1, <2>2, <2>3 DEF TypeOK, Work
  <1>3. ASSUME NEW f \in Files, CleanFile(h, f) PROVE TypeOK'
    BY <1>3 DEF TypeOK, CleanFile, accts, mail, lost
  <1>4. ASSUME NEW a \in Accounts, FinishJob(h, a) PROVE TypeOK'
    BY <1>4 DEF TypeOK, FinishJob, Finished, stored, mail, lost
  <1>5. ASSUME CleanupDone(h) PROVE TypeOK'
    <2>1. ExpiredRows \subseteq Files
      BY DEF ExpiredRows, Rows
    <2> QED BY <1>5, <2>1 DEF TypeOK, CleanupDone, Idle, Phases, stored, accts, mail, lost
  <1> QED BY <1>1, <1>2, <1>3, <1>4, <1>5 DEF Works

LEMMA TypeAlarm ==
  ASSUME TypeOK, AlarmFires \/ Sweeps
  PROVE  TypeOK'
  <1>1. ASSUME AlarmFires PROVE TypeOK'
    <2>1. PICK rows \in Batches(waiting) :
             run' = [run EXCEPT !["alarm"] = [Idle EXCEPT
                       !.pc = "mirror", !.rows = rows, !.full = Cardinality(rows) = Batch]]
      BY <1>1 DEF AlarmFires
    <2>2. PurgeEvery \in 0 .. Longest
      BY DEF Longest
    <2>3. alarm' \in {NoAlarm} \cup 0 .. Longest /\ token' \in BOOLEAN /\ slipped' \in BOOLEAN
      BY <1>1, <2>2 DEF AlarmFires, TypeOK
    <2>4. UNCHANGED <<row, blob, upload, live, job, owed, waitlist, waiting, cut, unarmed, faults>>
      BY <1>1 DEF AlarmFires, stored, accts, lost
    <2>5. run' \in [Handlers -> Work]
      BY <2>1 DEF TypeOK, Idle, Work, Phases, Batches
    <2> QED BY <2>3, <2>4, <2>5 DEF TypeOK, Work
  <1>2. ASSUME NEW f \in Files, SweepBlob(f) PROVE TypeOK'
    BY <1>2 DEF TypeOK, SweepBlob, accts, mail, lost
  <1>3. ASSUME NEW f \in Files, SweepRow(f) PROVE TypeOK'
    BY <1>3 DEF TypeOK, SweepRow, accts, mail, lost
  <1>4. ASSUME SweepDone PROVE TypeOK'
    <2>1. \A f \in Rows : AtLeast0(row[f]) \in 0 .. Longest
      BY DEF TypeOK, AtLeast0, Longest, Rows, NoRow
    <2>2. alarm' \in {NoAlarm} \cup 0 .. Longest
      BY <1>4, <2>1, ScheduleByType DEF SweepDone, TypeOK
    <2> QED BY <1>4, <2>2 DEF TypeOK, SweepDone, Idle, Phases, stored, accts, mail, lost
  <1> QED BY <1>1, <1>2, <1>3, <1>4 DEF Sweeps

LEMMA TypeFaults ==
  ASSUME TypeOK, (\E h \in Handlers : HandlerFails(h)) \/ Restart \/ Tick
  PROVE  TypeOK'
  <1>1. ASSUME NEW h \in Handlers, HandlerFails(h) PROVE TypeOK'
    <2>1. RetryAfter \in 0 .. Longest
      BY DEF Longest
    <2>2. alarm' \in {NoAlarm} \cup 0 .. Longest
      BY <1>1, <2>1, ScheduleByType DEF HandlerFails, Retried, TypeOK
    <2> QED BY <1>1, <2>2 DEF TypeOK, HandlerFails, Idle, Phases, stored, accts, mail, lost
  <1>2. ASSUME Restart PROVE TypeOK'
    <2>1. 0 \in 0 .. Longest
      BY DEF Longest
    <2> QED BY <1>2, <2>1 DEF TypeOK, Restart, Rows, Idle, Phases, accts, mail
  <1>3. ASSUME Tick PROVE TypeOK'
    <2>1. alarm' \in {NoAlarm} \cup 0 .. Longest
      BY <1>3 DEF TypeOK, Tick, Pass, NoAlarm, Longest
    <2>2. row' \in [Files -> {NoRow} \cup -1 .. FileTtl]
      BY <1>3 DEF TypeOK, Tick, Pass, NoRow
    <2> QED BY <1>3, <2>1, <2>2 DEF TypeOK, Tick, accts, mail, lost
  <1> QED BY <1>1, <1>2, <1>3

LEMMA TypeStep ==
  ASSUME TypeOK, [Next]_vars
  PROVE  TypeOK'
  <1>1. CASE UNCHANGED vars
    BY <1>1 DEF TypeOK, vars
  <1> QED BY <1>1, TypeUpload, TypeRequests, TypeHandlers, TypeAlarm, TypeFaults
          DEF Next, RequestNext, HandlerNext, MailStep
-----------------------------------------------------------------------------
(* The alarm covers the work.                                              *)

\* An alarm moved earlier is set, and no later than it was or was asked to be.
LEMMA Earlier ==
  ASSUME NEW t \in 0 .. Longest, alarm \in {NoAlarm} \cup 0 .. Longest
  PROVE  /\ ScheduleBy(alarm, t) # NoAlarm
         /\ ScheduleBy(alarm, t) <= t
         /\ alarm # NoAlarm => ScheduleBy(alarm, t) <= alarm
  BY DEF ScheduleBy, NoAlarm, Longest

LEMMA Deadlines ==
  /\ 0 \in 0 .. Longest /\ RetryAfter \in 0 .. Longest /\ FileTtl \in 0 .. Longest
  /\ PurgeEvery \in 0 .. Longest
  /\ TypeOK => \A f \in Rows : AtLeast0(row[f]) \in 0 .. Longest
  BY DEF TypeOK, AtLeast0, Longest, Rows, NoRow

\* Nothing else moves the alarm than these, and each only to an earlier time, but
\* for the alarm that fires, the restart and the clock.
LEMMA AlarmSteps ==
  ASSUME TypeOK, [Next]_vars
  PROVE  \/ UNCHANGED alarm
         \/ alarm' # NoAlarm /\ (alarm # NoAlarm => alarm' <= alarm)
         \/ AlarmFires
  <1>1. CASE UNCHANGED vars
    BY <1>1 DEF vars
  <1>2. CASE RequestNext
    <2>1. ASSUME NEW f \in Files, PutArmed(f)
          PROVE  alarm' # NoAlarm /\ (alarm # NoAlarm => alarm' <= alarm)
      <3>1. (IF row[f] = NoRow THEN FileTtl ELSE AtLeast0(row[f])) \in 0 .. Longest
        BY Deadlines DEF Rows
      <3> QED BY <2>1, <3>1, Earlier DEF PutArmed, TypeOK
    <2>2. ASSUME NEW a \in Accounts, DeleteAccount(a)
          PROVE  alarm' # NoAlarm /\ (alarm # NoAlarm => alarm' <= alarm)
      BY <2>2, Earlier, Deadlines DEF DeleteAccount, TypeOK
    <2>3. ASSUME MailStep
          PROVE  alarm' = alarm \/ (alarm' # NoAlarm /\ (alarm # NoAlarm => alarm' <= alarm))
      <3>1. CASE MailRequest
        BY <3>1, Earlier, Deadlines DEF MailRequest, TypeOK
      <3> QED BY <2>3, <3>1 DEF MailStep, MailStored, MailRefused, MailSent, MailFails
    <2> QED BY <1>2, <2>1, <2>2, <2>3
            DEF RequestNext, PutChecked, PutInserted, PutFails, GetExpired, GetMissing, Signup,
                MailStep
  <1>3. CASE HandlerNext
    <2>1. ASSUME NEW h \in Handlers, MirrorDone(h)
          PROVE  alarm' = alarm \/ (alarm' # NoAlarm /\ (alarm # NoAlarm => alarm' <= alarm))
      BY <2>1, Earlier, Deadlines DEF MirrorDone, TypeOK
    <2>2. ASSUME SweepDone
          PROVE  alarm' = alarm \/ (alarm' # NoAlarm /\ (alarm # NoAlarm => alarm' <= alarm))
      BY <2>2, Earlier, Deadlines DEF SweepDone, TypeOK
    <2>3. ASSUME NEW h \in Handlers, HandlerFails(h)
          PROVE  alarm' = alarm \/ (alarm' # NoAlarm /\ (alarm # NoAlarm => alarm' <= alarm))
      BY <2>3, Earlier, Deadlines DEF HandlerFails, Retried, TypeOK
    <2> QED BY <1>3, <2>1, <2>2, <2>3
            DEF HandlerNext, Works, Sweeps, MirrorRow, CleanFile, FinishJob, CleanupDone,
                SweepBlob, SweepRow
  <1>4. CASE Restart
    BY <1>4 DEF Restart, TypeOK, NoAlarm
  <1>5. CASE Tick
    BY <1>5 DEF Tick, Pass, TypeOK, NoAlarm, Longest
  <1> QED BY <1>1, <1>2, <1>3, <1>4, <1>5 DEF Next

\* Which steps change what.
LEMMA Frame ==
  ASSUME [Next]_vars
  PROVE  /\ \/ UNCHANGED <<row, cut, unarmed>> \/ Restart \/ Tick \/ SweepDone
            \/ \E a \in Accounts : DeleteAccount(a)
            \/ \E f \in Files : PutInserted(f) \/ GetMissing(f) \/ SweepRow(f) \/ PutFails(f)
         /\ \/ UNCHANGED upload \/ Restart
            \/ \E f \in Files : PutChecked(f) \/ PutInserted(f) \/ PutArmed(f) \/ PutFails(f)
         /\ \/ blob' \subseteq blob
            \/ \E f \in Files : PutChecked(f)
         /\ \/ UNCHANGED <<live, job, owed>>
            \/ \E a \in Accounts : Signup(a) \/ DeleteAccount(a) \/ \E h \in Handlers : FinishJob(h, a)
         /\ \/ waiting' \subseteq waiting /\ UNCHANGED <<token, slipped>>
            \/ AlarmFires \/ MailStep
         /\ \/ UNCHANGED run \/ Restart \/ AlarmFires \/ SweepDone \/ MailStep
            \/ \E f \in Files : SweepRow(f)
            \/ \E a \in Accounts : DeleteAccount(a)
            \/ \E h \in Handlers : Works(h) \/ HandlerFails(h)
  <1>1. CASE UNCHANGED vars
    BY <1>1 DEF vars
  <1>2. CASE RequestNext
    <2>1. CASE MailStep
      BY <2>1 DEF MailStep, MailRequest, MailStored, MailRefused, MailSent, MailFails, stored, accts, lost
    <2> QED BY <1>2, <2>1 DEF RequestNext, MailStep, PutChecked, PutInserted, PutArmed, PutFails,
               GetExpired, GetMissing, Signup, DeleteAccount, stored, accts, mail, lost
  <1>3. CASE \E h \in Handlers : Works(h)
    BY <1>3 DEF Works, MirrorRow, MirrorDone, CleanFile, FinishJob, CleanupDone, stored, accts, mail, lost
  <1>4. CASE Sweeps
    BY <1>4 DEF Sweeps, SweepBlob, SweepRow, SweepDone, stored, accts, mail, lost
  <1>5. CASE AlarmFires
    BY <1>5 DEF AlarmFires, stored, accts, lost
  <1>6. CASE \E h \in Handlers : HandlerFails(h)
    BY <1>6 DEF HandlerFails, stored, accts, mail, lost
  <1>7. CASE Restart
    BY <1>7 DEF Restart, accts, mail, lost
  <1>8. CASE Tick
    BY <1>8 DEF Tick, accts, mail, lost
  <1> QED BY <1>1, <1>2, <1>3, <1>4, <1>5, <1>6, <1>7, <1>8 DEF Next, HandlerNext

\* A row not yet covered by the request that inserted it is covered.
LEMMA RowsStep ==
  ASSUME TypeOK, RowsCovered, [Next]_vars
  PROVE  RowsCovered'
  <1> DEFINE Early(f) == alarm # NoAlarm /\ (alarm <= AtLeast0(row[f]) \/ alarm <= RetryAfter)
             Covered(f) == upload[f] = "inserted" \/ Early(f) \/ WillSweep
  <1> SUFFICES ASSUME NEW f \in Files, f \in Rows', f \notin unarmed'
               PROVE  Covered(f)'
    BY DEF RowsCovered, Rows
  <1>1. CASE PutInserted(f)
    BY <1>1 DEF PutInserted, TypeOK
  <1>2. CASE Tick
    <2>1. f \in Rows /\ f \notin unarmed
      BY <1>2 DEF Tick, Rows, Pass, TypeOK, NoRow, lost
    <2>2. upload[f] # "inserted" /\ UNCHANGED run
      BY <1>2 DEF Tick
    <2>3. CASE WillSweep
      BY <2>2, <2>3 DEF WillSweep
    <2>4. CASE Early(f)
      <3>1. alarm \in 0 .. Longest /\ row[f] \in -1 .. FileTtl
        BY <2>1, <2>4 DEF TypeOK, NoAlarm, Rows, NoRow
      <3>2. alarm' = Pass(alarm) /\ row'[f] = IF row[f] = 0 THEN -1 ELSE Pass(row[f])
        BY <1>2 DEF Tick
      <3> QED BY <2>4, <3>1, <3>2 DEF Pass, NoAlarm, AtLeast0, Longest
    <2> QED BY <2>1, <2>2, <2>3, <2>4 DEF RowsCovered
  <1>3. CASE Restart
    <2>1. f \in Rows /\ f \notin unarmed /\ upload[f] # "inserted"
      BY <1>3 DEF Restart, Rows
    <2>2. CASE WillSweep
      BY <1>3, <2>2 DEF WillSweep, Restart, NoAlarm
    <2>3. CASE Early(f)
      BY <1>3, <2>3 DEF Restart, NoAlarm
    <2> QED BY <2>1, <2>2, <2>3 DEF RowsCovered
  <1>4. CASE SweepDone
    <2>1. f \in Rows
      BY <1>4 DEF SweepDone, stored, Rows
    <2>2. PICK g \in Rows : /\ \A k \in Rows : row[g] <= row[k]
                            /\ alarm' = ScheduleBy(alarm, AtLeast0(row[g]))
      BY <1>4, <2>1 DEF SweepDone
    <2>3. AtLeast0(row[g]) \in 0 .. Longest
      BY Deadlines
    <2>4. alarm' # NoAlarm /\ alarm' <= AtLeast0(row[g])
      BY <2>2, <2>3, Earlier DEF TypeOK
    <2>5. AtLeast0(row[g]) <= AtLeast0(row[f]) /\ row' = row
      BY <1>4, <2>1, <2>2 DEF AtLeast0, TypeOK, Rows, NoRow, SweepDone, stored
    <2>6. alarm' \in Int /\ AtLeast0(row[f]) \in Int
      BY TypeStep, <2>1, Deadlines DEF TypeOK, NoAlarm, Longest
    <2>7. AtLeast0(row'[f]) = AtLeast0(row[f])
      BY <2>5
    <2> QED BY <2>3, <2>4, <2>5, <2>6, <2>7
  <1>5. CASE ~PutInserted(f) /\ ~Tick /\ ~Restart /\ ~SweepDone
    <2>1. f \in Rows /\ f \notin unarmed /\ row'[f] = row[f]
      <3>1. ASSUME NEW g \in Files, PutInserted(g) \/ GetMissing(g) \/ SweepRow(g) \/ PutFails(g)
            PROVE  f \in Rows /\ f \notin unarmed /\ row'[f] = row[f]
        BY <1>5, <3>1 DEF PutInserted, GetMissing, SweepRow, PutFails, Rows, TypeOK, lost
      <3>2. ASSUME NEW a \in Accounts, DeleteAccount(a)
            PROVE  f \in Rows /\ f \notin unarmed /\ row'[f] = row[f]
        BY <3>2 DEF DeleteAccount, Rows, lost
      <3> QED BY <1>5, <3>1, <3>2, Frame DEF Rows
    <2>2. CASE upload[f] = "inserted"
      <3>1. CASE PutArmed(f)
        <4>1. AtLeast0(row[f]) \in 0 .. Longest /\ alarm' = ScheduleBy(alarm, AtLeast0(row[f]))
          BY <2>1, <3>1, Deadlines DEF PutArmed, Rows
        <4> QED BY <2>1, <4>1, Earlier DEF TypeOK
      <3>2. CASE ~PutArmed(f)
        BY <1>5, <2>2, <3>2, Frame
           DEF PutChecked, PutInserted, PutArmed, PutFails, Fresh, TypeOK
      <3> QED BY <3>1, <3>2
    <2>3. CASE Early(f)
      <3>1. CASE AlarmFires
        BY <3>1 DEF AlarmFires, WillSweep, TypeOK, Handlers
      <3>2. CASE ~AlarmFires
        <4>1. alarm' # NoAlarm /\ alarm' <= alarm
          BY <2>3, <3>2, AlarmSteps DEF TypeOK, NoAlarm, Longest
        <4>2. alarm \in Int /\ alarm' \in Int /\ AtLeast0(row[f]) \in Int
          BY TypeStep, <2>1, Deadlines DEF TypeOK, NoAlarm, Longest
        <4> QED BY <2>1, <2>3, <4>1, <4>2
      <3> QED BY <3>1, <3>2
    <2>4. CASE WillSweep
      <3>2. ASSUME HandlerFails("alarm") PROVE Early(f)'
        BY <3>2, Earlier, Deadlines DEF HandlerFails, Retried, TypeOK
      <3>3. CASE ~HandlerFails("alarm")
        <4>1. ASSUME NEW h \in Handlers, Works(h) PROVE WillSweep'
          <5>1. ASSUME MirrorDone(h) PROVE WillSweep'
            <6>1. CASE h = "alarm"
              <7>1. PICK todo \in SUBSET Files : run' = [run EXCEPT ![h] =
                             [Idle EXCEPT !.pc = "cleanup", !.jobs = job, !.todo = todo]]
                BY <5>1, <6>1, MirrorDoneRun
              <7> QED BY <6>1, <7>1 DEF WillSweep, Idle, TypeOK
            <6>2. CASE h # "alarm"
              BY <2>4, <5>1, <6>2, MirrorDoneRun DEF WillSweep, TypeOK, Handlers
            <6> QED BY <6>1, <6>2
          <5>2. ASSUME CleanupDone(h) PROVE WillSweep'
            BY <2>4, <5>2 DEF WillSweep, CleanupDone, Idle, TypeOK, Handlers
          <5>3. ASSUME ~MirrorDone(h), ~CleanupDone(h) PROVE WillSweep'
            BY <2>4, <4>1, <5>3 DEF Works, WillSweep, MirrorRow, CleanFile, FinishJob, TypeOK, Handlers
          <5> QED BY <5>1, <5>2, <5>3
        <4>2. ASSUME NEW h \in Handlers, HandlerFails(h) PROVE WillSweep'
          BY <2>4, <3>3, <4>2 DEF WillSweep, HandlerFails, TypeOK, Handlers
        <4>3. ASSUME NEW g \in Files, SweepRow(g) PROVE WillSweep'
          BY <2>4, <4>3 DEF WillSweep, SweepRow, TypeOK, Handlers
        <4>4. ASSUME NEW a \in Accounts, DeleteAccount(a) PROVE WillSweep'
          BY <2>4, <4>4 DEF WillSweep, DeleteAccount, TypeOK, Handlers
        <4>5. ASSUME MailStep PROVE WillSweep'
          BY <2>4, <4>5, MailRun DEF WillSweep
        <4>6. ASSUME AlarmFires PROVE WillSweep'
          BY <4>6, <2>4 DEF AlarmFires, WillSweep
        <4> QED BY <1>5, <2>4, <3>3, <4>1, <4>2, <4>3, <4>4, <4>5, <4>6, Frame DEF WillSweep
      <3> QED BY <3>2, <3>3
    <2> QED BY <2>1, <2>2, <2>3, <2>4 DEF RowsCovered
  <1> QED BY <1>1, <1>2, <1>3, <1>4, <1>5

\* A queued clean-up is taken up by alarm(), which does not let go of it unfinished
\* without arming the alarm.
LEMMA JobsStep ==
  ASSUME TypeOK, InHand, JobsCovered, [Next]_vars
  PROVE  JobsCovered'
  <1> DEFINE Soon == alarm # NoAlarm /\ alarm <= RetryAfter
             Held(a) == run["alarm"].pc = "mirror" \/ a \in run["alarm"].jobs
  <1> SUFFICES ASSUME NEW a \in Accounts, a \in job'
               PROVE  Soon' \/ Held(a)'
    BY TypeStep DEF JobsCovered, TypeOK
  <1>1. ASSUME NEW b \in Accounts, DeleteAccount(b) PROVE Soon'
    <2>1. alarm' = ScheduleBy(alarm, 0) /\ alarm \in {NoAlarm} \cup 0 .. Longest
      BY <1>1 DEF DeleteAccount, TypeOK
    <2>2. alarm' # NoAlarm /\ alarm' <= 0 /\ alarm' \in Int
      BY <2>1, Earlier, Deadlines, TypeStep DEF TypeOK, NoAlarm, Longest
    <2> QED BY <2>2
  <1>2. CASE ~\E b \in Accounts : DeleteAccount(b)
    <2>1. a \in job
      BY <1>2, Frame DEF Signup, FinishJob
    <2>2. CASE AlarmFires
      BY <2>2 DEF AlarmFires, TypeOK, Handlers, Idle
    <2>3. ASSUME Soon, ~AlarmFires PROVE Soon'
      <3>1. alarm' # NoAlarm /\ alarm' <= alarm
        BY <2>3, AlarmSteps DEF TypeOK, NoAlarm, Longest
      <3>2. alarm \in Int /\ alarm' \in Int
        BY TypeStep DEF TypeOK, NoAlarm, Longest
      <3> QED BY <2>3, <3>1, <3>2
    <2>4. ASSUME Held(a), ~AlarmFires PROVE Soon' \/ Held(a)'
      <3>1. run["alarm"].pc \in {"mirror", "cleanup"}
        BY <2>4 DEF InHand, Handlers
      <3>2. CASE Restart
        BY <3>1, <3>2, Deadlines DEF Restart, NoAlarm, Longest
      <3>3. CASE HandlerFails("alarm")
        BY <3>3, Earlier, Deadlines DEF HandlerFails, Retried, TypeOK
      <3>4. ASSUME NEW h \in Handlers, HandlerFails(h), h # "alarm" PROVE Held(a)'
        BY <2>4, <3>4 DEF HandlerFails, TypeOK, Handlers
      <3>5. ASSUME MirrorDone("alarm") PROVE Held(a)'
        <4>1. "alarm" \in Handlers
          BY DEF Handlers
        <4>2. PICK todo \in SUBSET Files : run' = [run EXCEPT !["alarm"] =
                             [Idle EXCEPT !.pc = "cleanup", !.jobs = job, !.todo = todo]]
          BY <3>5, <4>1, MirrorDoneRun
        <4> QED BY <2>1, <4>1, <4>2 DEF TypeOK, Idle
      <3>6. ASSUME NEW h \in Handlers, MirrorDone(h), h # "alarm" PROVE Held(a)'
        BY <2>4, <3>6, MirrorDoneRun DEF TypeOK, Handlers
      <3>7. ASSUME NEW h \in Handlers, CleanupDone(h) PROVE Held(a)'
        BY <2>4, <3>7 DEF CleanupDone, TypeOK, Handlers
      <3>8. ASSUME NEW h \in Handlers, NEW b \in Accounts, FinishJob(h, b) PROVE Held(a)'
        BY <2>4, <3>8 DEF FinishJob, TypeOK, Handlers
      <3>9. ASSUME NEW h \in Handlers,
                   (\E m \in Members : MirrorRow(h, m)) \/ \E f \in Files : CleanFile(h, f)
            PROVE  Held(a)'
        BY <2>4, <3>9 DEF MirrorRow, CleanFile, TypeOK, Handlers
      <3>10. ASSUME MailStep PROVE Held(a)'
        BY <2>4, <3>10, MailRun
      <3>11. ~SweepDone /\ ~\E f \in Files : SweepRow(f)
        BY <3>1 DEF SweepDone, SweepRow
      <3> QED BY <1>2, <2>4, <3>2, <3>3, <3>4, <3>5, <3>6, <3>7, <3>8, <3>9, <3>10, <3>11, Frame
              DEF Works
    <2> QED BY <2>1, <2>2, <2>3, <2>4 DEF JobsCovered
  <1> QED BY <1>1, <1>2

\* Nothing but alarm() says that it slipped in.
LEMMA SlippedSteps ==
  ASSUME [Next]_vars, ~AlarmFires
  PROVE  slipped' = slipped
  BY Frame DEF MailStep, MailRequest, MailStored, MailRefused, MailSent, MailFails, mail

\* A clean-up that is over, or cut, leaves nothing in hand.
LEMMA IdleAgain ==
  ASSUME TypeOK, NEW h \in Handlers, CleanupDone(h) \/ HandlerFails(h)
  PROVE  /\ run'[h].jobs = {} /\ run'[h].pc \in {"idle", "sweep"}
         /\ \A k \in Handlers \ {h} : run'[k] = run[k]
  <1>1. CASE run' = [run EXCEPT ![h] = Idle]
    BY <1>1 DEF TypeOK, Idle
  <1>2. CASE run' = [run EXCEPT ![h] = [Idle EXCEPT !.pc = "sweep", !.todo = ExpiredRows]]
    BY <1>2 DEF TypeOK, Idle
  <1> QED BY <1>1, <1>2 DEF CleanupDone, HandlerFails

\* A request finds an alarm when it comes to store, or alarm() slipped in.
LEMMA OnItsWayStep ==
  ASSUME TypeOK, OnItsWay, [Next]_vars
  PROVE  OnItsWay'
  <1> SUFFICES ASSUME run'["request"].pc = "armed"
               PROVE  (alarm' # NoAlarm /\ alarm' <= PurgeEvery) \/ slipped'
    BY DEF OnItsWay
  <1>1. CASE MailRequest
    <2>1. alarm' # NoAlarm /\ alarm' <= RetryAfter
      BY <1>1, Earlier, Deadlines DEF MailRequest, TypeOK
    <2>2. alarm' \in Int
      BY TypeStep DEF TypeOK, NoAlarm, Longest
    <2> QED BY <2>1, <2>2
  <1>2. CASE AlarmFires
    <2>1. PICK rows \in Batches(waiting) : run' = [run EXCEPT !["alarm"] = [Idle EXCEPT
             !.pc = "mirror", !.rows = rows, !.full = Cardinality(rows) = Batch]]
      BY <1>2 DEF AlarmFires
    <2>2. run["request"].pc = "armed"
      BY <2>1 DEF TypeOK, Handlers
    <2>3. PICK next \in {PurgeEvery, NoAlarm} :
             alarm' = next /\ slipped' = (next = NoAlarm /\ run["request"].pc = "armed")
      BY <1>2 DEF AlarmFires
    <2>4. CASE next = PurgeEvery
      BY <2>3, <2>4 DEF NoAlarm
    <2>5. CASE next = NoAlarm
      BY <2>2, <2>3, <2>5
    <2> QED BY <2>3, <2>4, <2>5
  <1>3. CASE ~MailRequest /\ ~AlarmFires
    <2>1. run["request"].pc = "armed"
      <3>1. ASSUME MailStep PROVE FALSE
        <4>1. CASE \E m \in Members : MailStored(m)
          BY <4>1 DEF MailStored, TypeOK, Handlers
        <4>2. CASE MailRefused \/ MailSent \/ MailFails
          <5>1. \/ run' = [run EXCEPT !["request"] = Idle]
                \/ \E rows : run' = [run EXCEPT !["request"] = [Idle EXCEPT !.pc = "mirror", !.rows = rows]]
            BY <4>2 DEF MailRefused, MailSent, MailFails, ToMirror
          <5>2. "request" \in DOMAIN run
            BY DEF TypeOK, Handlers
          <5>3. run'["request"].pc \in {"idle", "mirror"}
            <6>1. CASE run' = [run EXCEPT !["request"] = Idle]
              BY <5>2, <6>1 DEF Idle
            <6>2. CASE \E rows :
                        run' = [run EXCEPT !["request"] = [Idle EXCEPT !.pc = "mirror", !.rows = rows]]
              BY <5>2, <6>2 DEF Idle
            <6> QED BY <5>1, <6>1, <6>2
          <5> QED BY <5>3
        <4> QED BY <1>3, <3>1, <4>1, <4>2 DEF MailStep
      <3>2. ASSUME NEW h \in Handlers, MirrorDone(h) PROVE run["request"].pc = "armed"
        <4>1. CASE h = "alarm"
          BY <3>2, <4>1, MirrorDoneRun DEF TypeOK, Handlers
        <4>2. CASE h # "alarm"
          <5>1. run' = [run EXCEPT ![h] = Idle] /\ h = "request"
            BY <3>2, <4>2, MirrorDoneRun DEF Handlers
          <5> QED BY <5>1 DEF TypeOK, Idle, Handlers
        <4> QED BY <4>1, <4>2
      <3>3. ASSUME NEW h \in Handlers,
                   \/ \E m \in Members : MirrorRow(h, m)
                   \/ \E f \in Files : CleanFile(h, f)
                   \/ \E a \in Accounts : FinishJob(h, a)
            PROVE  run["request"].pc = "armed"
        BY <3>3 DEF MirrorRow, CleanFile, FinishJob, TypeOK, Handlers
      <3>4. ASSUME NEW h \in Handlers, CleanupDone(h) \/ HandlerFails(h)
            PROVE  run["request"].pc = "armed"
        BY <3>4, IdleAgain DEF Handlers
      <3>5. ASSUME NEW a \in Accounts, DeleteAccount(a) PROVE FALSE
        <4>1. PICK todo : run' = [run EXCEPT !["request"] = [Idle EXCEPT
                             !.pc = "cleanup", !.jobs = job', !.todo = todo]]
          BY <3>5 DEF DeleteAccount
        <4> QED BY <4>1 DEF TypeOK, Idle, Handlers
      <3>6. CASE Restart \/ SweepDone \/ \E f \in Files : SweepRow(f)
        BY <3>6 DEF Restart, SweepDone, SweepRow, TypeOK, Idle, Handlers
      <3> QED BY <1>3, <3>1, <3>2, <3>3, <3>4, <3>5, <3>6, Frame DEF Works
    <2>2. (alarm # NoAlarm /\ alarm <= PurgeEvery) \/ slipped
      BY <2>1 DEF OnItsWay
    <2>3. slipped' = slipped /\ (alarm # NoAlarm => alarm' # NoAlarm /\ alarm' <= alarm)
      BY <1>3, AlarmSteps, SlippedSteps DEF TypeOK, NoAlarm, Longest
    <2>4. alarm \in Int /\ alarm' \in Int
      BY TypeStep DEF TypeOK, NoAlarm, Longest
    <2> QED BY <2>2, <2>3, <2>4
  <1> QED BY <1>1, <1>2, <1>3

\* The next purge stays set while something can expire.
LEMMA PurgeStep ==
  ASSUME TypeOK, OnItsWay, PurgeCovered, [Next]_vars
  PROVE  PurgeCovered'
  <1>1. CASE AlarmFires
    BY <1>1 DEF AlarmFires, PurgeCovered, NoAlarm
  <1>2. CASE ~AlarmFires
    <2>1. token' => (alarm # NoAlarm /\ alarm <= PurgeEvery) \/ slipped
      <3>1. ASSUME NEW m \in Members, MailStored(m)
            PROVE  (alarm # NoAlarm /\ alarm <= PurgeEvery) \/ slipped
        BY <3>1 DEF MailStored, OnItsWay
      <3>2. CASE ~\E m \in Members : MailStored(m)
        <4>1. token' => token
          BY <1>2, <3>2, Frame DEF MailStep, MailRequest, MailRefused, MailSent, MailFails, mail, TypeOK
        <4> QED BY <4>1 DEF PurgeCovered
      <3> QED BY <3>1, <3>2
    <2>2. slipped' = slipped /\ (alarm # NoAlarm => alarm' # NoAlarm /\ alarm' <= alarm)
      BY <1>2, AlarmSteps, SlippedSteps DEF TypeOK, NoAlarm, Longest
    <2>3. alarm \in Int /\ alarm' \in Int
      BY TypeStep DEF TypeOK, NoAlarm, Longest
    <2> QED BY <2>1, <2>2, <2>3 DEF PurgeCovered
  <1> QED BY <1>1, <1>2

\* Rows wait for the mirror only while alarm() holds them or the alarm is set.
LEMMA MirrorStep ==
  ASSUME TypeOK, OnItsWay, BatchComplete, MirrorCovered, [Next]_vars
  PROVE  MirrorCovered'
  <1>1. CASE MailRequest
    BY <1>1, Earlier, Deadlines DEF MailRequest, TypeOK, MirrorCovered
  <1>2. CASE AlarmFires
    BY <1>2 DEF AlarmFires, TypeOK, Handlers, Idle, MirrorCovered
  <1>3. ASSUME NEW m \in Members, MailStored(m) PROVE MirrorCovered'
    BY <1>3 DEF MailStored, OnItsWay, MirrorCovered
  <1>4. ASSUME ~AlarmFires, ~MailRequest, ~\E m \in Members : MailStored(m), waiting' # {}
        PROVE  alarm' # NoAlarm \/ run'["alarm"].pc = "mirror" \/ slipped'
    <2>1. waiting # {} /\ slipped' = slipped
      BY <1>4, Frame, SlippedSteps DEF MailStep, MailRefused, MailSent, MailFails, mail
    <2>2. CASE alarm # NoAlarm
      BY <1>4, <2>2, AlarmSteps
    <2>3. CASE alarm = NoAlarm /\ run["alarm"].pc = "mirror" /\ ~slipped
      <3>1. CASE Restart
        BY <2>3, <3>1 DEF Restart, NoAlarm
      <3>2. ASSUME NEW h \in Handlers, HandlerFails(h)
            PROVE  alarm' # NoAlarm \/ run'["alarm"].pc = "mirror"
        BY <2>3, <3>2, Earlier, Deadlines DEF HandlerFails, Retried, TypeOK, Handlers
      <3>3. ASSUME NEW h \in Handlers, MirrorDone(h), h # "alarm" PROVE run'["alarm"].pc = "mirror"
        <4>1. run' = [run EXCEPT ![h] = Idle]
          BY <3>3, MirrorDoneRun
        <4> QED BY <2>3, <3>3, <4>1 DEF TypeOK, Handlers
      <3>4. ASSUME MirrorDone("alarm") PROVE alarm' # NoAlarm
        <4>1. run["alarm"].rows = {} /\ waiting # {}
          BY <2>1, <3>4 DEF MirrorDone
        <4>2. run["alarm"].full
          BY <2>3, <4>1 DEF BatchComplete
        <4>3. alarm' = ScheduleBy(alarm, RetryAfter)
          BY <3>4, <4>2 DEF MirrorDone
        <4> QED BY <4>3, Earlier, Deadlines DEF TypeOK
      <3>5. ASSUME NEW h \in Handlers,
                   \/ \E m \in Members : MirrorRow(h, m)
                   \/ \E f \in Files : CleanFile(h, f)
                   \/ \E a \in Accounts : FinishJob(h, a)
                   \/ CleanupDone(h)
            PROVE  run'["alarm"].pc = "mirror"
        BY <2>3, <3>5 DEF MirrorRow, CleanFile, FinishJob, CleanupDone, TypeOK, Handlers
      <3>6. ~SweepDone /\ ~\E f \in Files : SweepRow(f)
        BY <2>3 DEF SweepDone, SweepRow
      <3>7. ASSUME NEW a \in Accounts, DeleteAccount(a) PROVE run'["alarm"].pc = "mirror"
        BY <2>3, <3>7 DEF DeleteAccount, TypeOK, Handlers
      <3>8. ASSUME MailStep PROVE run'["alarm"].pc = "mirror"
        BY <2>3, <3>8, MailRun
      <3> QED BY <1>4, <2>3, <3>8, <3>1, <3>2, <3>3, <3>4, <3>5, <3>6, <3>7, Frame DEF Works
    <2> QED BY <2>1, <2>2, <2>3 DEF MirrorCovered
  <1> QED BY <1>1, <1>2, <1>3, <1>4 DEF MirrorCovered

\* A batch that is not full is all that waits.
LEMMA WholeBatch ==
  ASSUME TypeOK, NEW rows \in SUBSET waiting,
         Cardinality(rows) = Least({Batch, Cardinality(waiting)}), Cardinality(rows) # Batch
  PROVE  rows = waiting
  <1>1. IsFiniteSet(waiting) /\ Cardinality(waiting) \in Nat
    BY FS_Subset, FS_CardinalityType DEF TypeOK
  <1>2. PICK m \in {Batch, Cardinality(waiting)} : \A x \in {Batch, Cardinality(waiting)} : m <= x
    BY <1>1
  <1>3. Least({Batch, Cardinality(waiting)}) \in {Batch, Cardinality(waiting)}
    BY <1>2 DEF Least
  <1> QED BY <1>1, <1>3, FS_Subset

\* So the batch in hand stays complete while no request adds to the list.
LEMMA BatchStep ==
  ASSUME TypeOK, OnItsWay, BatchComplete, [Next]_vars
  PROVE  BatchComplete'
  <1> SUFFICES ASSUME run'["alarm"].pc = "mirror", alarm' = NoAlarm, ~run'["alarm"].full, ~slipped'
               PROVE  waiting' \subseteq run'["alarm"].rows
    BY DEF BatchComplete
  <1>1. CASE AlarmFires
    <2>1. PICK rows \in SUBSET waiting :
             /\ Cardinality(rows) = Least({Batch, Cardinality(waiting)})
             /\ run' = [run EXCEPT !["alarm"] = [Idle EXCEPT
                    !.pc = "mirror", !.rows = rows, !.full = Cardinality(rows) = Batch]]
      BY <1>1 DEF AlarmFires, Batches
    <2>2. run'["alarm"].rows = rows /\ Cardinality(rows) # Batch
      BY <2>1 DEF TypeOK, Idle, Handlers
    <2>3. waiting' = waiting
      BY <1>1 DEF AlarmFires
    <2> QED BY <2>1, <2>2, <2>3, WholeBatch
  <1>2. CASE ~AlarmFires
    <2>1. alarm = NoAlarm /\ ~slipped
      BY <1>2, AlarmSteps, SlippedSteps
    <2>2. ~MailRequest /\ ~\E m \in Members : MailStored(m)
      <3>1. ASSUME MailRequest PROVE FALSE
        BY <3>1, Earlier, Deadlines DEF MailRequest, TypeOK
      <3>2. ASSUME NEW m \in Members, MailStored(m) PROVE FALSE
        BY <2>1, <3>2 DEF MailStored, OnItsWay
      <3> QED BY <3>1, <3>2
    <2>3. waiting' \subseteq waiting
      BY <1>2, <2>2, Frame DEF MailStep, MailRefused, MailSent, MailFails, mail
    <2>4. ASSUME NEW h \in Handlers, NEW m \in Members, MirrorRow(h, m)
          PROVE  waiting' \subseteq run'["alarm"].rows
      <3>1. /\ run["alarm"].pc = "mirror" /\ ~run["alarm"].full
            /\ run["alarm"].rows \ {m} \subseteq run'["alarm"].rows
        BY <2>4 DEF MirrorRow, TypeOK, Handlers
      <3>2. waiting' = waiting \ {m}
        BY <2>4 DEF MirrorRow
      <3> QED BY <2>1, <3>1, <3>2 DEF BatchComplete
    <2>5. CASE run'["alarm"] = run["alarm"]
      BY <2>1, <2>3, <2>5 DEF BatchComplete
    <2>6. ASSUME NEW h \in Handlers, HandlerFails(h) PROVE run'["alarm"] = run["alarm"]
      BY <2>6 DEF HandlerFails, TypeOK, Handlers, Idle
    <2>7. ~Restart
      BY DEF Restart, Idle, Handlers
    <2>8. ASSUME NEW h \in Handlers, MirrorDone(h) PROVE run'["alarm"] = run["alarm"]
      <3>1. CASE h # "alarm"
        <4>1. run' = [run EXCEPT ![h] = Idle]
          BY <2>8, <3>1, MirrorDoneRun
        <4> QED BY <3>1, <4>1 DEF TypeOK, Handlers
      <3>2. CASE h = "alarm"
        <4>1. PICK todo \in SUBSET Files : run' = [run EXCEPT ![h] =
                             [Idle EXCEPT !.pc = "cleanup", !.jobs = job, !.todo = todo]]
          BY <2>8, <3>2, MirrorDoneRun
        <4>2. run'["alarm"].pc = "cleanup"
          BY <3>2, <4>1 DEF TypeOK, Idle, Handlers
        <4> QED BY <4>2
      <3> QED BY <3>1, <3>2
    <2>9. ASSUME NEW h \in Handlers,
                 \/ \E f \in Files : CleanFile(h, f)
                 \/ \E a \in Accounts : FinishJob(h, a)
                 \/ CleanupDone(h)
          PROVE  run'["alarm"] = run["alarm"]
      <3>1. h # "alarm"
        BY <2>9, IdleAgain DEF CleanFile, FinishJob, TypeOK
      <3> QED BY <2>9, <3>1 DEF CleanFile, FinishJob, CleanupDone, TypeOK, Handlers
    <2>10. ~SweepDone /\ ~\E f \in Files : SweepRow(f)
      BY DEF SweepDone, SweepRow, TypeOK, Handlers, Idle
    <2>11. ASSUME NEW a \in Accounts, DeleteAccount(a) PROVE run'["alarm"] = run["alarm"]
      BY <2>11 DEF DeleteAccount, TypeOK, Handlers
    <2>12. ASSUME MailStep PROVE run'["alarm"] = run["alarm"]
      BY <2>12, MailRun
    <2> QED BY <1>2, <2>12, <2>4, <2>5, <2>6, <2>7, <2>8, <2>9, <2>10, <2>11, Frame DEF Works
  <1> QED BY <1>1, <1>2

\* Leaving the clean-up means having no job left.
LEMMA InHandStep ==
  ASSUME TypeOK, InHand, [Next]_vars
  PROVE  InHand'
  <1> SUFFICES ASSUME NEW k \in Handlers, run'[k].pc # "cleanup"
               PROVE  run'[k].jobs = {}
    BY DEF InHand
  <1>1. CASE AlarmFires
    <2>1. PICK rows \in Batches(waiting) : run' = [run EXCEPT !["alarm"] = [Idle EXCEPT
                 !.pc = "mirror", !.rows = rows, !.full = Cardinality(rows) = Batch]]
      BY <1>1 DEF AlarmFires
    <2> QED BY <2>1 DEF TypeOK, Idle, InHand
  <1>2. ASSUME MailStep PROVE run'[k].jobs = {}
    <2>1. PICK w \in Work : /\ run' = [run EXCEPT !["request"] = w]
                            /\ w.jobs \subseteq run["request"].jobs /\ run["request"].pc # "cleanup"
      BY <1>2, MailRun
    <2>2. w.jobs = {}
      BY <2>1 DEF InHand, Handlers
    <2>3. CASE k = "request"
      BY <2>1, <2>2, <2>3 DEF TypeOK
    <2>4. CASE k # "request"
      BY <2>1, <2>4 DEF TypeOK, InHand
    <2> QED BY <2>3, <2>4
  <1>3. ASSUME NEW a \in Accounts, DeleteAccount(a) PROVE run'[k].jobs = {}
    <2>1. run'[k] = run[k] \/ run'[k].pc = "cleanup"
      <3>1. CASE k = "request"
        <4>1. \E todo : run' = [run EXCEPT !["request"] = [Idle EXCEPT
                            !.pc = "cleanup", !.jobs = job', !.todo = todo]]
          BY <1>3 DEF DeleteAccount
        <4> QED BY <3>1, <4>1 DEF TypeOK, Idle
      <3>2. CASE k # "request"
        BY <1>3, <3>2 DEF DeleteAccount, TypeOK
      <3> QED BY <3>1, <3>2
    <2> QED BY <2>1 DEF InHand
  <1>4. ASSUME NEW h \in Handlers, MirrorDone(h) PROVE run'[k].jobs = {}
    <2>1. CASE h # "alarm"
      <3>1. run' = [run EXCEPT ![h] = Idle]
        BY <1>4, <2>1, MirrorDoneRun
      <3> QED BY <3>1 DEF TypeOK, Idle, InHand
    <2>2. CASE h = "alarm"
      <3>1. PICK todo \in SUBSET Files : run' = [run EXCEPT ![h] =
                             [Idle EXCEPT !.pc = "cleanup", !.jobs = job, !.todo = todo]]
        BY <1>4, <2>2, MirrorDoneRun
      <3> QED BY <3>1 DEF TypeOK, Idle, InHand
    <2> QED BY <2>1, <2>2
  <1>5. ASSUME NEW h \in Handlers,
               \/ \E m \in Members : MirrorRow(h, m)
               \/ \E f \in Files : CleanFile(h, f)
        PROVE  run'[k].jobs = {}
    <2>1. run'[k].pc = run[k].pc /\ run'[k].jobs = run[k].jobs
      <3>1. ASSUME NEW m \in Members, MirrorRow(h, m)
            PROVE  run'[k].pc = run[k].pc /\ run'[k].jobs = run[k].jobs
        BY <3>1 DEF MirrorRow, TypeOK
      <3>2. ASSUME NEW f \in Files, CleanFile(h, f)
            PROVE  run'[k].pc = run[k].pc /\ run'[k].jobs = run[k].jobs
        BY <3>2 DEF CleanFile, TypeOK
      <3> QED BY <1>5, <3>1, <3>2
    <2> QED BY <2>1 DEF InHand
  <1>6. ASSUME NEW h \in Handlers, NEW a \in Accounts, FinishJob(h, a) PROVE run'[k].jobs = {}
    BY <1>6 DEF FinishJob, TypeOK, InHand
  <1>7. ASSUME NEW h \in Handlers, CleanupDone(h) \/ HandlerFails(h) PROVE run'[k].jobs = {}
    <2>1. run'[h].jobs = {} /\ \A j \in Handlers \ {h} : run'[j] = run[j]
      BY <1>7, IdleAgain
    <2> QED BY <2>1 DEF InHand
  <1>8. CASE Restart \/ SweepDone \/ \E f \in Files : SweepRow(f)
    BY <1>8 DEF Restart, SweepDone, SweepRow, TypeOK, Idle, InHand
  <1> QED BY <1>1, <1>4, <1>5, <1>8, <1>2, <1>3, <1>6, <1>7, Frame DEF Works, InHand

\* The jobs a handler has in hand were in hand or queued.
LEMMA JobsInHand ==
  ASSUME TypeOK, [Next]_vars, NEW k \in Handlers
  PROVE  run'[k].jobs \subseteq run[k].jobs \cup job \cup job'
  <1>1. ASSUME NEW a \in Accounts, DeleteAccount(a) PROVE run'[k].jobs \subseteq run[k].jobs \cup job'
    <2>1. \E todo : run' = [run EXCEPT !["request"] = [Idle EXCEPT
                        !.pc = "cleanup", !.jobs = job', !.todo = todo]]
      BY <1>1 DEF DeleteAccount
    <2> QED BY <2>1 DEF TypeOK, Idle
  <1>2. ASSUME MailStep PROVE run'[k].jobs \subseteq run[k].jobs
    <2>1. PICK w \in Work : run' = [run EXCEPT !["request"] = w] /\ w.jobs \subseteq run["request"].jobs
      BY <1>2, MailRun
    <2> QED BY <2>1 DEF TypeOK
  <1>3. ASSUME AlarmFires PROVE run'[k].jobs \subseteq run[k].jobs
    <2>1. \E rows, full : run' = [run EXCEPT !["alarm"] = [Idle EXCEPT
                                     !.pc = "mirror", !.rows = rows, !.full = full]]
      BY <1>3 DEF AlarmFires
    <2> QED BY <2>1 DEF TypeOK, Idle
  <1>4. ASSUME NEW h \in Handlers, MirrorDone(h) PROVE run'[k].jobs \subseteq run[k].jobs \cup job
    <2>1. CASE h # "alarm"
      <3>1. run' = [run EXCEPT ![h] = Idle]
        BY <1>4, <2>1, MirrorDoneRun
      <3> QED BY <3>1 DEF TypeOK, Idle
    <2>2. CASE h = "alarm"
      <3>1. PICK todo \in SUBSET Files : run' = [run EXCEPT ![h] =
                             [Idle EXCEPT !.pc = "cleanup", !.jobs = job, !.todo = todo]]
        BY <1>4, <2>2, MirrorDoneRun
      <3> QED BY <3>1 DEF TypeOK, Idle
    <2> QED BY <2>1, <2>2
  <1>5. ASSUME NEW h \in Handlers,
               \/ \E m \in Members : MirrorRow(h, m)
               \/ \E f \in Files : CleanFile(h, f)
               \/ \E a \in Accounts : FinishJob(h, a)
        PROVE  run'[k].jobs \subseteq run[k].jobs
    BY <1>5 DEF MirrorRow, CleanFile, FinishJob, TypeOK
  <1>6. ASSUME NEW h \in Handlers, CleanupDone(h) \/ HandlerFails(h)
        PROVE  run'[k].jobs \subseteq run[k].jobs
    BY <1>6, IdleAgain
  <1>7. CASE Restart \/ SweepDone \/ \E f \in Files : SweepRow(f)
    BY <1>7 DEF Restart, SweepDone, SweepRow, TypeOK, Idle
  <1> QED BY <1>1, <1>2, <1>3, <1>4, <1>5, <1>6, <1>7, Frame DEF Works

\* What the uploads, the accounts and the clean-ups know of each other.
LEMMA UploadingStep ==
  ASSUME TypeOK, Uploading, [Next]_vars
  PROVE  Uploading'
  <1> SUFFICES ASSUME NEW f \in Files, upload'[f] = "stored"
               PROVE  row'[f] = NoRow /\ \A a \in Accounts : f \notin owed'[a]
    BY DEF Uploading
  <1>1. CASE PutChecked(f)
    BY <1>1 DEF PutChecked, Fresh, Rows, accts
  <1>2. CASE ~PutChecked(f)
    <2>1. upload[f] = "stored"
      BY <1>2, Frame DEF PutChecked, PutInserted, PutArmed, PutFails, Restart, TypeOK
    <2>2. row[f] = NoRow /\ \A a \in Accounts : f \notin owed[a]
      BY <2>1 DEF Uploading
    <2>3. row'[f] = NoRow
      <3>1. ~PutInserted(f)
        BY DEF PutInserted, TypeOK
      <3>2. ASSUME NEW g \in Files, PutInserted(g) \/ GetMissing(g) \/ SweepRow(g) \/ PutFails(g)
            PROVE  row'[f] = NoRow
        BY <2>2, <3>1, <3>2 DEF PutInserted, GetMissing, SweepRow, PutFails, TypeOK
      <3>3. ASSUME NEW a \in Accounts, DeleteAccount(a) PROVE row'[f] = NoRow
        BY <2>2, <3>3 DEF DeleteAccount
      <3>4. CASE Tick \/ Restart
        BY <2>2, <3>4 DEF Tick, Restart, Pass, NoRow
      <3>5. CASE SweepDone
        BY <2>2, <3>5 DEF SweepDone, stored
      <3> QED BY <2>2, <3>2, <3>3, <3>4, <3>5, Frame
    <2>4. ASSUME NEW a \in Accounts PROVE f \notin owed'[a]
      <3>1. ASSUME NEW b \in Accounts, DeleteAccount(b) PROVE f \notin owed'[a]
        BY <2>2, <3>1 DEF DeleteAccount, OwedBy, Rows, TypeOK
      <3>2. ASSUME NEW b \in Accounts, Signup(b) \/ \E h \in Handlers : FinishJob(h, b)
            PROVE  f \notin owed'[a]
        BY <2>2, <3>2 DEF Signup, FinishJob, Finished, TypeOK
      <3> QED BY <2>2, <3>1, <3>2, Frame
    <2> QED BY <2>3, <2>4
  <1> QED BY <1>1, <1>2

LEMMA LeavingStep ==
  ASSUME TypeOK, Leaving, InHand, [Next]_vars
  PROVE  Leaving'
  <1>1. ASSUME NEW a \in Accounts, NEW f \in owed'[a] PROVE OwnerOf[f] = a
    <2>1. ASSUME NEW b \in Accounts, DeleteAccount(b) PROVE OwnerOf[f] = a
      BY <1>1, <2>1 DEF DeleteAccount, OwedBy, TypeOK, Leaving
    <2>2. ASSUME NEW b \in Accounts, Signup(b) \/ \E h \in Handlers : FinishJob(h, b)
          PROVE  OwnerOf[f] = a
      BY <1>1, <2>2 DEF Signup, FinishJob, Finished, TypeOK, Leaving
    <2> QED BY <1>1, <2>1, <2>2, Frame DEF Leaving
  <1>2. ASSUME NEW a \in live' PROVE a \notin job' /\ \A h \in Handlers : a \notin run'[h].jobs
    <2>1. ASSUME Signup(a) PROVE a \notin job' /\ \A h \in Handlers : a \notin run'[h].jobs
      BY <2>1 DEF Signup
    <2>2. ASSUME ~Signup(a) PROVE a \notin job' /\ \A h \in Handlers : a \notin run'[h].jobs
      <3>1. a \in live /\ \A b \in Accounts : DeleteAccount(b) => a # b
        BY <1>2, <2>2, Frame DEF Signup, DeleteAccount, FinishJob
      <3>2. a \notin job /\ (\A h \in Handlers : a \notin run[h].jobs) /\ a \in Accounts
        BY <3>1 DEF Leaving, TypeOK
      <3>3. a \notin job'
        BY <3>1, <3>2, Frame DEF Signup, DeleteAccount, FinishJob
      <3>4. ASSUME NEW h \in Handlers PROVE a \notin run'[h].jobs
        <4>1. run'[h].jobs \subseteq run[h].jobs \cup job \cup job'
          BY JobsInHand
        <4> QED BY <3>2, <3>3, <4>1
      <3> QED BY <3>3, <3>4
    <2> QED BY <2>1, <2>2
  <1> QED BY <1>1, <1>2 DEF Leaving

\* No clean-up forgets a file: what it has in hand is all that is left of its jobs.
LEMMA InTodoStep ==
  ASSUME TypeOK, InHand, Uploading, Leaving, InTodo, [Next]_vars
  PROVE  InTodo'
  <1> SUFFICES ASSUME NEW k \in Handlers, NEW a \in run'[k].jobs
               PROVE  owed'[a] \cap blob' \subseteq run'[k].todo
    BY DEF InTodo
  <1>1. ASSUME NEW b \in Accounts, DeleteAccount(b) PROVE owed'[a] \cap blob' \subseteq run'[k].todo
    <2>1. CASE k = "request"
      <3> DEFINE todo == UNION {owed'[c] : c \in job'}
      <3>1. run' = [run EXCEPT !["request"] = [Idle EXCEPT
                      !.pc = "cleanup", !.jobs = job', !.todo = todo]]
        BY <1>1 DEF DeleteAccount
      <3>2. \A c \in job' : owed'[c] \subseteq todo
        OBVIOUS
      <3> HIDE DEF todo
      <3>3. run'[k].jobs = job' /\ run'[k].todo = todo
        BY <2>1, <3>1 DEF TypeOK, Idle
      <3> QED BY <3>2, <3>3
    <2>2. CASE k # "request"
      <3>1. run'[k] = run[k] /\ blob' = blob /\ b \in live /\ owed' = [owed EXCEPT ![b] = OwedBy(b)]
        BY <1>1, <2>2 DEF DeleteAccount, TypeOK
      <3>2. a # b
        BY <3>1 DEF Leaving
      <3>3. owed'[a] = owed[a] /\ a \in run[k].jobs
        BY <3>1, <3>2 DEF TypeOK
      <3> QED BY <3>1, <3>3 DEF InTodo
    <2> QED BY <2>1, <2>2
  <1>2. ASSUME NEW h \in Handlers, MirrorDone(h) PROVE owed'[a] \cap blob' \subseteq run'[k].todo
    <2>1. UNCHANGED <<owed, blob>>
      BY <1>2 DEF MirrorDone, accts, stored
    <2>2. CASE h # "alarm"
      <3>1. run' = [run EXCEPT ![h] = Idle]
        BY <1>2, <2>2, MirrorDoneRun
      <3> QED BY <2>1, <3>1 DEF TypeOK, Idle, InTodo
    <2>3. CASE h = "alarm"
      <3>1. PICK todo \in SUBSET Files :
               /\ run' = [run EXCEPT ![h] =
                             [Idle EXCEPT !.pc = "cleanup", !.jobs = job, !.todo = todo]]
               /\ \A c \in job : owed[c] \subseteq todo
        BY <1>2, <2>3, MirrorDoneRun
      <3>2. CASE k = h
        <4>1. run'[k].jobs = job /\ run'[k].todo = todo
          BY <3>1, <3>2 DEF TypeOK, Idle
        <4> QED BY <2>1, <3>1, <4>1
      <3>3. CASE k # h
        BY <2>1, <3>1, <3>3 DEF TypeOK, InTodo
      <3> QED BY <3>2, <3>3
    <2> QED BY <2>2, <2>3
  <1>3. ASSUME NEW h \in Handlers, NEW f \in Files, CleanFile(h, f)
        PROVE  owed'[a] \cap blob' \subseteq run'[k].todo
    <2>1. owed' = owed /\ blob' = blob \ {f}
      BY <1>3 DEF CleanFile, accts
    <2>2. run'[k].jobs = run[k].jobs /\ run[k].todo \ {f} \subseteq run'[k].todo
      BY <1>3 DEF CleanFile, TypeOK
    <2> QED BY <2>1, <2>2 DEF InTodo
  <1>4. ASSUME NEW h \in Handlers, NEW b \in Accounts, FinishJob(h, b)
        PROVE  owed'[a] \cap blob' \subseteq run'[k].todo
    <2>1. blob' = blob /\ \A c \in Accounts : owed'[c] \subseteq owed[c]
      BY <1>4 DEF FinishJob, Finished, stored, TypeOK
    <2>2. run'[k].jobs \subseteq run[k].jobs /\ run'[k].todo = run[k].todo /\ a \in Accounts
      BY <1>4 DEF FinishJob, TypeOK
    <2> QED BY <2>1, <2>2 DEF InTodo
  <1>5. ASSUME NEW f \in Files, PutChecked(f) PROVE owed'[a] \cap blob' \subseteq run'[k].todo
    <2>1. Fresh(f) /\ blob' = blob \cup {f} /\ UNCHANGED <<owed, run>> /\ a \in Accounts
      BY <1>5 DEF PutChecked, accts, TypeOK
    <2>2. f \notin owed[a]
      BY <2>1 DEF Fresh
    <2> QED BY <2>1, <2>2 DEF InTodo
  <1>6. ASSUME run'[k].jobs = {} PROVE owed'[a] \cap blob' \subseteq run'[k].todo
    BY <1>6
  <1>7. ASSUME run'[k] = run[k], owed' = owed, blob' \subseteq blob
        PROVE  owed'[a] \cap blob' \subseteq run'[k].todo
    BY <1>7 DEF InTodo
  <1>8. ASSUME ~\E b \in Accounts : DeleteAccount(b) \/ \E h \in Handlers : FinishJob(h, b),
               ~\E f \in Files : PutChecked(f)
        PROVE  owed' = owed /\ blob' \subseteq blob
    BY <1>8, Frame DEF Signup
  <1>9. ASSUME NEW h \in Handlers, NEW m \in Members, MirrorRow(h, m)
        PROVE  owed'[a] \cap blob' \subseteq run'[k].todo
    <2>1. UNCHANGED <<owed, blob>> /\ run'[k].jobs = run[k].jobs /\ run'[k].todo = run[k].todo
      BY <1>9 DEF MirrorRow, stored, accts, TypeOK
    <2> QED BY <2>1 DEF InTodo
  <1>10. ASSUME NEW h \in Handlers, CleanupDone(h) \/ HandlerFails(h)
         PROVE  run'[k].jobs = {} \/ run'[k] = run[k]
    BY <1>10, IdleAgain
  <1>11. CASE Restart \/ SweepDone
    BY <1>11 DEF Restart, SweepDone, InHand, TypeOK, Idle, InTodo, stored, accts, lost
  <1>12. ASSUME NEW f \in Files, SweepRow(f) PROVE run'[k].jobs = {} \/ run'[k] = run[k]
    BY <1>12 DEF SweepRow, InHand, TypeOK, Handlers
  <1>13. ASSUME MailStep PROVE run'[k].jobs = {} \/ run'[k] = run[k]
    <2>1. PICK w \in Work : /\ run' = [run EXCEPT !["request"] = w]
                            /\ w.jobs \subseteq run["request"].jobs /\ run["request"].pc # "cleanup"
      BY <1>13, MailRun
    <2>2. w.jobs = {}
      BY <2>1 DEF InHand, Handlers
    <2> QED BY <2>1, <2>2 DEF TypeOK
  <1>14. ASSUME AlarmFires PROVE run'[k].jobs = {} \/ run'[k] = run[k]
    <2>1. \E rows, full : run' = [run EXCEPT !["alarm"] = [Idle EXCEPT
                                     !.pc = "mirror", !.rows = rows, !.full = full]]
      BY <1>14 DEF AlarmFires
    <2> QED BY <2>1 DEF TypeOK, Idle
  <1> QED BY <1>1, <1>2, <1>3, <1>4, <1>5, <1>6, <1>7, <1>8, <1>9, <1>10, <1>11, <1>12, <1>13,
             <1>14, Frame DEF Works

\* What names a file's bytes gives way only to something else that does, or goes
\* after the bytes.
LEMMA NamedStep ==
  ASSUME TypeOK, Uploading, Leaving, InTodo, BlobIsNamed, [Next]_vars
  PROVE  BlobIsNamed'
  <1> DEFINE Named(f) == \/ f \in Rows \/ upload[f] = "stored"
                         \/ \E a \in job : f \in owed[a]
  <1> SUFFICES ASSUME NEW f \in Files, f \in blob', f \notin cut'
               PROVE  Named(f)'
    BY TypeStep DEF BlobIsNamed, TypeOK
  <1>1. CASE PutChecked(f)
    BY <1>1 DEF PutChecked, TypeOK
  <1>2. CASE ~PutChecked(f)
    <2>1. f \in blob /\ f \notin cut
      BY <1>2, Frame DEF PutChecked, Restart, Tick, DeleteAccount, PutInserted, GetMissing, SweepRow,
                         PutFails, SweepDone, lost
    <2>2. CASE f \in Rows
      <3>1. ASSUME NEW a \in Accounts, DeleteAccount(a) PROVE Named(f)'
        <4>1. CASE OwnerOf[f] = a
          BY <2>2, <3>1, <4>1 DEF DeleteAccount, OwedBy, TypeOK
        <4>2. CASE OwnerOf[f] # a
          BY <2>2, <3>1, <4>2 DEF DeleteAccount, Rows
        <4> QED BY <4>1, <4>2
      <3>2. ASSUME NEW g \in Files, PutInserted(g) \/ GetMissing(g) \/ SweepRow(g) \/ PutFails(g)
            PROVE  f \in Rows'
        BY <2>1, <2>2, <3>2 DEF PutInserted, GetMissing, SweepRow, PutFails, Rows, TypeOK, NoRow
      <3>3. CASE Tick \/ Restart
        BY <2>2, <3>3 DEF Tick, Restart, Rows, Pass, NoRow, TypeOK
      <3>4. CASE SweepDone
        BY <2>2, <3>4 DEF SweepDone, stored, Rows
      <3> QED BY <2>2, <3>1, <3>2, <3>3, <3>4, Frame DEF Rows
    <2>3. CASE upload[f] = "stored"
      <3>2. ~Restart /\ ~PutFails(f) /\ ~PutArmed(f)
        BY <2>3 DEF Restart, PutFails, PutArmed
      <3>3. CASE PutInserted(f)
        BY <3>3 DEF PutInserted, Rows, NoRow, TypeOK
      <3>4. CASE ~PutInserted(f)
        BY <1>2, <2>3, <3>2, <3>4, Frame
           DEF PutChecked, PutInserted, PutArmed, PutFails, TypeOK
      <3> QED BY <3>3, <3>4
    <2>4. ASSUME NEW a \in job, f \in owed[a] PROVE Named(f)'
      <3>1. a \in Accounts /\ OwnerOf[f] = a
        BY <2>4 DEF TypeOK, Leaving
      <3>2. ASSUME NEW h \in Handlers, FinishJob(h, a) PROVE FALSE
        <4>1. a \in run[h].jobs /\ ~\E g \in run[h].todo : OwnerOf[g] = a
          BY <3>2 DEF FinishJob
        <4> QED BY <2>1, <2>4, <3>1, <4>1 DEF InTodo
      <3>3. ASSUME NEW h \in Handlers, NEW b \in Accounts, FinishJob(h, b) PROVE Named(f)'
        <4>1. a # b
          BY <3>2, <3>3
        <4> QED BY <2>4, <3>1, <3>3, <4>1 DEF FinishJob, Finished, TypeOK
      <3>4. ASSUME NEW b \in Accounts, DeleteAccount(b) PROVE Named(f)'
        <4>1. a # b
          BY <2>4, <3>4 DEF DeleteAccount, Leaving
        <4> QED BY <2>4, <3>1, <3>4, <4>1 DEF DeleteAccount, TypeOK
      <3> QED BY <2>4, <3>3, <3>4, Frame DEF Signup
    <2> QED BY <2>1, <2>2, <2>3, <2>4 DEF BlobIsNamed
  <1> QED BY <1>1, <1>2

-----------------------------------------------------------------------------
(* The theorems.                                                           *)

LEMMA IInit == Init => IInv
  <1> SUFFICES ASSUME Init PROVE IInv
    OBVIOUS
  <1>1. TypeOK
    BY TypeInit
  <1>2. InHand /\ BatchComplete /\ OnItsWay /\ Uploading /\ Leaving /\ InTodo
    BY DEF Init, InHand, BatchComplete, OnItsWay, Uploading, Leaving, InTodo, Idle, Handlers
  <1>3. AlarmCoversWork /\ BlobIsNamed
    BY DEF Init, AlarmCoversWork, RowsCovered, JobsCovered, PurgeCovered, MirrorCovered, BlobIsNamed, Rows
  <1> QED BY <1>1, <1>2, <1>3 DEF IInv

LEMMA IStep == IInv /\ [Next]_vars => IInv'
  BY TypeStep, RowsStep, JobsStep, PurgeStep, MirrorStep, BatchStep, OnItsWayStep, InHandStep, UploadingStep,
     LeavingStep, InTodoStep, NamedStep DEF IInv, AlarmCoversWork

\* The inductive invariant of the platform's deferred work.
THEOREM Invariance == Spec => []IInv
  BY IInit, IStep, PTL DEF Spec

\* Every state the jobs reach is well typed: no deadline outlives its longest life.
THEOREM TypeCorrect == Spec => []TypeOK
  <1>1. IInv => TypeOK
    BY DEF IInv
  <1> QED BY <1>1, Invariance, PTL

\* None of the jobs that share the one alarm waits without a wake-up early enough for
\* it, however the requests, alarm() and the restarts interleave.  AlarmCoversWork
\* names the two that do: a row whose upload was killed before it armed the alarm, and
\* what a mail request stores after alarm() slipped in and left no alarm.
THEOREM AlarmCovers == Spec => []AlarmCoversWork
  <1>1. IInv => AlarmCoversWork
    BY DEF IInv
  <1> QED BY <1>1, Invariance, PTL

\* Whatever fails or is interrupted, bytes in R2 are named by a row, by an upload in
\* progress or by a queued clean-up, but for an upload that was cut.
THEOREM BytesAreNamed == Spec => []BlobIsNamed
  <1>1. IInv => BlobIsNamed
    BY DEF IInv
  <1> QED BY <1>1, Invariance, PTL
=============================================================================
