--------------------- MODULE StoryMapRepository_proofs ---------------------
(* Proofs about the durable repository under its most general client.      *)
EXTENDS StoryMapRepositorySpec, SequenceTheorems, TLAPS

-----------------------------------------------------------------------------
(* Rows. *)

\* The latest attempt of an attempted job is one of its rows.
LEMMA LatestTyped ==
    ASSUME attempts \in [Jobs -> Seq(AttemptRow)], NEW j \in Jobs, Attempted(j)
    PROVE  /\ Len(attempts[j]) \in Nat \ {0}
           /\ Len(attempts[j]) \in DOMAIN attempts[j]
           /\ DOMAIN attempts[j] = 1..Len(attempts[j])
           /\ Latest(j) \in AttemptRow
BY DEF Attempted, Latest

\* Replacing the latest attempt by a row changes nothing else.
LEMMA WithLatestTyped ==
    ASSUME attempts \in [Jobs -> Seq(AttemptRow)], NEW j \in Jobs, Attempted(j),
           NEW row \in AttemptRow
    PROVE  WithLatest(j, row) \in [Jobs -> Seq(AttemptRow)]
<1>1. Len(attempts[j]) \in 1..Len(attempts[j])
    BY LatestTyped
<1>2. [attempts[j] EXCEPT ![Len(attempts[j])] = row] \in Seq(AttemptRow)
    BY <1>1, ExceptSeq
<1> QED
    BY <1>2 DEF WithLatest

\* The derived run status is one of the run statuses.
LEMMA RunStatusForTyped ==
    ASSUME NEW r, NEW rows, NEW cancel
    PROVE  RunStatusFor(r, rows, cancel) \in RunStatus
BY DEF RunStatusFor, RunStatus

\* Refreshing a run from its jobs yields run rows.
LEMMA RefreshedTyped ==
    ASSUME run \in [Runs -> RunRow], NEW r, NEW rows
    PROVE  Refreshed(r, rows) \in [Runs -> RunRow]
BY RunStatusForTyped DEF Refreshed, RunRow

\* So does refreshing a set of runs.
LEMMA RunsAfterTyped ==
    ASSUME run \in [Runs -> RunRow], NEW touched, NEW rows
    PROVE  RunsAfter(touched, rows) \in [Runs -> RunRow]
BY RunStatusForTyped DEF RunsAfter, RunRow

\* Giving up the lease keeps a job row typed.
LEMMA UnleasedTyped ==
    ASSUME NEW row \in JobRow
    PROVE  Unleased(row) \in JobRow
BY DEF Unleased, JobRow

\* Moving a job to another status, with a result or a resolution, keeps its row typed.
LEMMA StatusTyped ==
    ASSUME NEW row \in JobRow, NEW s \in JobStatus
    PROVE  /\ [row EXCEPT !.status = s] \in JobRow
           /\ \A x \in Results \cup {NoResult} :
                 [row EXCEPT !.status = s, !.result = x] \in JobRow
           /\ \A x \in Resolution \cup {"none"} :
                 [row EXCEPT !.status = s, !.resolution = x] \in JobRow
BY DEF JobRow

\* Recording a validated result keeps a job row typed.
LEMMA ValidatedTyped ==
    ASSUME NEW row \in JobRow, NEW result \in Results, NEW k \in Keys
    PROVE  [row EXCEPT !.status = "validated", !.result = result, !.key = k] \in JobRow
BY DEF JobRow, JobStatus

\* What lease recovery makes of a job and of its attempts.
LEMMA RecoveredJobTyped ==
    ASSUME job \in [Jobs -> JobRow], NEW j \in Jobs
    PROVE  RecoveredJob(j) \in JobRow
BY UnleasedTyped, StatusTyped DEF RecoveredJob, JobStatus

\* What lease recovery makes of an attempt row is an attempt row.
LEMMA RecoveredRowTyped ==
    ASSUME NEW row \in AttemptRow
    PROVE  /\ [row EXCEPT !.status = "indeterminate",
                          !.disposition = "indeterminate"] \in AttemptRow
           /\ [row EXCEPT !.status = "not_transmitted",
                          !.disposition = "definitely_not_transmitted",
                          !.calls = 0, !.units = 0] \in AttemptRow
<1>1. /\ {"indeterminate", "not_transmitted"} \subseteq AttemptStatus
      /\ {"indeterminate", "definitely_not_transmitted"} \subseteq Disposition
    BY DEF AttemptStatus, Disposition
<1>2. [row EXCEPT !.status = "indeterminate", !.disposition = "indeterminate"] \in AttemptRow
    BY <1>1 DEF AttemptRow
<1>3. [row EXCEPT !.status = "not_transmitted", !.disposition = "definitely_not_transmitted",
                  !.calls = 0, !.units = 0] \in AttemptRow
    BY <1>1 DEF AttemptRow
<1> QED
    BY <1>2, <1>3

\* Lease recovery keeps the attempts of a job a sequence of rows.
LEMMA RecoveredAttemptsTyped ==
    ASSUME attempts \in [Jobs -> Seq(AttemptRow)], NEW j \in Jobs
    PROVE  RecoveredAttempts(j) \in Seq(AttemptRow)
<1>1. ASSUME Attempted(j), NEW row \in AttemptRow
      PROVE  [attempts[j] EXCEPT ![Len(attempts[j])] = row] \in Seq(AttemptRow)
    BY <1>1, LatestTyped, ExceptSeq
<1>2. Attempted(j) => LET n == Len(attempts[j]) IN
        /\ [attempts[j][n] EXCEPT !.status = "indeterminate",
                                  !.disposition = "indeterminate"] \in AttemptRow
        /\ [attempts[j][n] EXCEPT !.status = "not_transmitted",
                                  !.disposition = "definitely_not_transmitted",
                                  !.calls = 0, !.units = 0] \in AttemptRow
    BY LatestTyped, RecoveredRowTyped DEF Latest
<1> QED
    BY <1>1, <1>2, LatestTyped DEF RecoveredAttempts, LatestIs, AttemptStatus, Disposition

\* Recovering a set of jobs keeps both tables typed.
LEMMA AfterTyped ==
    ASSUME RepoTypeOK, NEW due
    PROVE  /\ JobsAfter(due) \in [Jobs -> JobRow]
           /\ AttemptsAfter(due) \in [Jobs -> Seq(AttemptRow)]
BY RecoveredJobTyped, RecoveredAttemptsTyped DEF JobsAfter, AttemptsAfter, RepoTypeOK

\* Turning cached pending jobs into cache hits keeps the job rows typed.
LEMMA MaterializedTyped ==
    ASSUME RepoTypeOK, NEW rows \in [Jobs -> JobRow]
    PROVE  Materialized(rows) \in [Jobs -> JobRow]
<1>1. \A j \in Jobs : cache[CacheKey[j]] \in Results \cup {NoResult}
    BY RepositoryAssumption DEF RepoTypeOK
<1> QED
    BY <1>1, StatusTyped DEF Materialized, JobStatus

\* What claim_next_job starts from.
LEMMA BeforeClaimTyped ==
    ASSUME RepoTypeOK, NEW hits
    PROVE  /\ JobsBeforeClaim(hits) \in [Jobs -> JobRow]
           /\ RunsBeforeClaim(hits) \in [Runs -> RunRow]
BY AfterTyped, MaterializedTyped, RunsAfterTyped
   DEF JobsBeforeClaim, RunsBeforeClaim, RepoTypeOK

-----------------------------------------------------------------------------
(* Type correctness. *)

\* The created runs have typed rows.
LEMMA InitTyped == RepoInit => RepoTypeOK
<1> SUFFICES ASSUME RepoInit PROVE RepoTypeOK
    OBVIOUS
<1>1. run \in [Runs -> RunRow]
    BY DEF RepoInit, RunRow, RunStatus
<1>2. \A st \in {"absent", "pending"} : FreshJob(st) \in JobRow
    BY DEF FreshJob, JobRow, JobStatus
<1>3. job \in [Jobs -> JobRow]
    BY <1>2 DEF RepoInit
<1> QED
    BY <1>1, <1>3 DEF RepoInit, RepoTypeOK

\* Approval, cancellation and the recovery of a run write typed rows.
LEMMA RunStepTyped ==
    ASSUME RepoTypeOK, NEW r \in Runs, RunStep(r)
    PROVE  RepoTypeOK'
<1>1. CASE StoreRunApproval(r)
    BY <1>1 DEF StoreRunApproval, RepoTypeOK, RunRow
<1>2. CASE CancelRun(r)
    <2>1. job' \in [Jobs -> JobRow]
        BY <1>2, UnleasedTyped, StatusTyped DEF CancelRun, CancelFlag, RepoTypeOK, JobStatus
    <2>2. PICK st \in RunStatus, c \in BOOLEAN :
             run' = [run EXCEPT ![r].cancel = c, ![r].status = st]
        <3>1. (run[r].cancel \/ run[r].status \in {"prepared", "running"}) \in BOOLEAN
            OBVIOUS
        <3> QED
            BY <1>2, <3>1, RunStatusForTyped DEF CancelRun, CancelFlag
    <2>3. run' \in [Runs -> RunRow]
        BY <2>2 DEF RepoTypeOK, RunRow
    <2> QED
        BY <1>2, <2>1, <2>3 DEF CancelRun, CancelFlag, RepoTypeOK
<1>3. CASE RecoverRun(r)
    <2>1. job' \in [Jobs -> JobRow]
        BY <1>3, AfterTyped, UnleasedTyped, StatusTyped DEF RecoverRun, RepoTypeOK, JobStatus
    <2>2. ASSUME NEW j \in Jobs, Attempted(j)
          PROVE  [attempts[j] EXCEPT ![Len(attempts[j])] =
                    [@ EXCEPT !.status = "indeterminate", !.disposition = "indeterminate"]]
                 \in Seq(AttemptRow)
        <3>1. [Latest(j) EXCEPT !.status = "indeterminate", !.disposition = "indeterminate"]
              \in AttemptRow
            BY <2>2, LatestTyped DEF RepoTypeOK, AttemptRow, AttemptStatus, Disposition
        <3> QED
            BY <2>2, <3>1, LatestTyped, ExceptSeq DEF RepoTypeOK, Latest
    <2>3. attempts' \in [Jobs -> Seq(AttemptRow)]
        BY <1>3, <2>2, AfterTyped DEF RecoverRun
    <2>4. run' \in [Runs -> RunRow]
        BY <1>3, RunsAfterTyped DEF RecoverRun, RepoTypeOK
    <2> QED
        BY <1>3, <2>1, <2>3, <2>4 DEF RecoverRun, RepoTypeOK
<1>4. CASE ActivateResumableJobs(r)
    <2>1. job' \in [Jobs -> JobRow]
        BY <1>4, StatusTyped DEF ActivateResumableJobs, RepoTypeOK, JobStatus
    <2>2. run' \in [Runs -> RunRow]
        BY <1>4, RefreshedTyped DEF ActivateResumableJobs, RepoTypeOK
    <2> QED
        BY <1>4, <2>1, <2>2 DEF ActivateResumableJobs, RepoTypeOK
<1> QED
    BY <1>1, <1>2, <1>3, <1>4 DEF RunStep

\* The transactions on a job without a lease write typed rows.
LEMMA JobStepTyped ==
    ASSUME RepoTypeOK, NEW j \in Jobs, JobStep(j)
    PROVE  RepoTypeOK'
<1> USE DEF RepoTypeOK
<1>1. CASE StoreRetryApproval(j)
    <2>1. [Latest(j) EXCEPT !.approval = "open"] \in AttemptRow
        BY <1>1, LatestTyped DEF StoreRetryApproval, LatestIs, AttemptRow
    <2>2. attempts' \in [Jobs -> Seq(AttemptRow)]
        BY <1>1, <2>1, WithLatestTyped DEF StoreRetryApproval, LatestIs
    <2>3. job' \in [Jobs -> JobRow]
        BY <1>1, StatusTyped DEF StoreRetryApproval, JobStatus
    <2>4. run' \in [Runs -> RunRow]
        BY <1>1 DEF StoreRetryApproval, RunRow, RunStatus
    <2> QED
        BY <1>1, <2>2, <2>3, <2>4 DEF StoreRetryApproval
<1>2. CASE RegisterJob(j)
    <2>1. FreshJob("pending") \in JobRow
        BY DEF FreshJob, JobRow, JobStatus
    <2> QED
        BY <1>2, <2>1, RefreshedTyped DEF RegisterJob
<1>3. CASE ExpireLease(j)
    <2>1. [job[j] EXCEPT !.expired = TRUE] \in JobRow
        BY DEF JobRow
    <2> QED
        BY <1>3, <2>1 DEF ExpireLease
<1>4. CASE StoreCache(j)
    <2>1. job' \in [Jobs -> JobRow]
        BY <1>4, StatusTyped DEF StoreCache, JobStatus
    <2>2. cache' \in [Keys -> Results \cup {NoResult}]
        BY <1>4 DEF StoreCache, JobRow
    <2> QED
        BY <1>4, <2>1, <2>2 DEF StoreCache
<1>5. CASE DeferResumableJob(j)
    <2>1. job' \in [Jobs -> JobRow]
        BY <1>5, StatusTyped DEF DeferResumableJob, JobStatus, Resolution
    <2> QED
        BY <1>5, <2>1, RefreshedTyped DEF DeferResumableJob
<1>6. ASSUME NEW res \in Resolution, FinalizeJob(j, res)
      PROVE  RepoTypeOK'
    <2>1. FinalizedStatus(res) \in JobStatus
        BY DEF FinalizedStatus, Resolution, JobStatus
    <2>2. job' \in [Jobs -> JobRow]
        BY <1>6, <2>1, UnleasedTyped, StatusTyped DEF FinalizeJob
    <2> QED
        BY <1>6, <2>2, RefreshedTyped DEF FinalizeJob
<1>7. ASSUME NEW c \in {"complete"} \cup ContinuationKinds, RecordContinuation(j, c)
      PROVE  RepoTypeOK'
    <2>1. Len(attempts[j]) \in Nat
        OBVIOUS
    <2>2. [job[j] EXCEPT !.cont = c, !.contAt = Len(attempts[j])] \in JobRow
        BY <2>1 DEF JobRow
    <2>3. job' \in [Jobs -> JobRow]
        BY <1>7, <2>2 DEF RecordContinuation
    <2> QED
        BY <1>7, <2>3 DEF RecordContinuation
<1>8. ASSUME NEW result \in Results \cup {Structural}, PublishJob(j, result)
      PROVE  RepoTypeOK'
    <2>1. job' \in [Jobs -> JobRow]
        BY <1>8, StatusTyped DEF PublishJob, JobStatus
    <2>2. published' \in [Jobs -> Results \cup {NoResult, Structural}]
        BY <1>8 DEF PublishJob
    <2> QED
        BY <1>8, <2>1, <2>2, RefreshedTyped DEF PublishJob
<1>9. ASSUME NEW o \in {0, Len(attempts[j])}, NEW result \in Results, NEW k \in Keys,
             RecordValidated(j, o, result, k)
      PROVE  RepoTypeOK'
    <2>1. [job[j] EXCEPT !.status = "validated", !.result = result, !.key = k] \in JobRow
        BY ValidatedTyped
    <2>2. job' \in [Jobs -> JobRow]
        BY <1>9, <2>1 DEF RecordValidated
    <2>3. attempts' \in [Jobs -> Seq(AttemptRow)]
        <3>1. CASE o = 0
            BY <1>9, <3>1 DEF RecordValidated
        <3>2. CASE o # 0
            <4>1. Attempted(j)
                BY <1>9, <3>2 DEF RecordValidated, MayRecord, LatestIs
            <4>2. [Latest(j) EXCEPT !.validated = result] \in AttemptRow
                BY <4>1, LatestTyped DEF AttemptRow
            <4> QED
                BY <1>9, <3>2, <4>1, <4>2, WithLatestTyped DEF RecordValidated
        <3> QED
            BY <3>1, <3>2
    <2> QED
        BY <1>9, <2>2, <2>3 DEF RecordValidated
<1> QED
    BY <1>1, <1>2, <1>3, <1>4, <1>5, <1>6, <1>7, <1>8, <1>9 DEF JobStep

\* A settled attempt is a row again.
LEMMA SettledTyped ==
    ASSUME attempts \in [Jobs -> Seq(AttemptRow)], NEW j \in Jobs, Attempted(j),
           NEW d \in Disposition, NEW st \in AttemptStatus, NEW c \in {0, 1}, NEW u \in Nat
    PROVE  Settled(j, d, st, c, u) \in [Jobs -> Seq(AttemptRow)]
<1>1. [Latest(j) EXCEPT !.status = st, !.disposition = d, !.calls = c, !.units = u]
      \in AttemptRow
    BY LatestTyped DEF AttemptRow
<1> QED
    BY <1>1, WithLatestTyped DEF Settled

\* Every disposition of a completed call has an attempt status.
LEMMA SettledStatusTyped ==
    ASSUME NEW d \in Disposition \ {"not_started"}, NEW response \in BOOLEAN
    PROVE  SettledStatus(d, response) \in AttemptStatus
BY DEF SettledStatus, Disposition, AttemptStatus

\* A reservation appends a row to attempts of the same number.
LEMMA ReservedTyped ==
    ASSUME attempts \in [Jobs -> Seq(AttemptRow)], NEW j \in Jobs, NEW kind \in Kinds
    PROVE  /\ Reserved(j, kind) \in AttemptRow
           /\ Consumed(j, kind) \in Seq(AttemptRow)
           /\ Len(Consumed(j, kind)) = Len(attempts[j])
<1>1. RetryOf(j, kind) \in Nat
    <2>1. ResendsUnsent(j, kind) => Latest(j).retryOf \in Nat
        BY LatestTyped DEF ResendsUnsent, AttemptRow
    <2>2. Len(attempts[j]) \in Nat
        OBVIOUS
    <2> QED
        BY <2>1, <2>2 DEF RetryOf
<1>2. NeedsSupplement(j, kind) \in BOOLEAN
    BY DEF NeedsSupplement
<1>3. Reserved(j, kind) \in AttemptRow
    BY <1>1, <1>2 DEF Reserved, AttemptRow, AttemptStatus, Disposition
<1>4. CASE ResendsUncertain(j, kind)
    <2>1. Spent(Latest(j)) \in AttemptRow
        BY <1>4, LatestTyped DEF ResendsUncertain, Spent, AttemptRow
    <2>2. Len(attempts[j]) \in 1..Len(attempts[j])
        BY <1>4, LatestTyped DEF ResendsUncertain
    <2> QED
        BY <1>3, <1>4, <2>1, <2>2, ExceptSeq DEF Consumed, Latest
<1>5. CASE ~ResendsUncertain(j, kind)
    BY <1>3, <1>5 DEF Consumed
<1> QED
    BY <1>4, <1>5

\* The transactions of a claim holder write typed rows.
LEMMA LeaseStepTyped ==
    ASSUME RepoTypeOK, NEW w \in Tokens, NEW j \in Jobs, Units \subseteq Nat, LeaseStep(w, j)
    PROVE  RepoTypeOK'
<1> USE DEF RepoTypeOK
<1>1. CASE ReclaimJob(w, j)
    <2>1. Leased(job[j], w) \in JobRow
        BY DEF Leased, JobRow
    <2> QED
        BY <1>1, <2>1 DEF ReclaimJob
<1>2. CASE ReleaseClaim(w, j)
    <2>1. Released(job[j]) \in JobRow
        <3> DEFINE st == IF job[j].status = "claimed" THEN "pending" ELSE job[j].status
        <3>1. st \in JobStatus
            BY DEF JobRow, JobStatus
        <3> HIDE DEF st
        <3>2. [Unleased(job[j]) EXCEPT !.status = st] \in JobRow
            BY <3>1, UnleasedTyped, StatusTyped
        <3> QED
            BY <3>2 DEF Released, st
    <2> QED
        BY <1>2, <2>1, RefreshedTyped DEF ReleaseClaim
<1>3. CASE MarkTransmitting(w, j)
    <2>1. Attempted(j)
        BY <1>3 DEF MarkTransmitting, MayMark, LatestIs
    <2>2. [Latest(j) EXCEPT !.status = "transmitting", !.disposition = "indeterminate"]
          \in AttemptRow
        BY <2>1, LatestTyped DEF AttemptRow, AttemptStatus, Disposition
    <2>3. attempts' \in [Jobs -> Seq(AttemptRow)]
        BY <1>3, <2>1, <2>2, WithLatestTyped DEF MarkTransmitting
    <2>4. job' \in [Jobs -> JobRow]
        BY <1>3, StatusTyped DEF MarkTransmitting, JobStatus
    <2> QED
        BY <1>3, <2>3, <2>4 DEF MarkTransmitting
<1>4. ASSUME NEW kind \in Kinds, ReserveAttempt(w, j, kind)
      PROVE  RepoTypeOK'
    <2>1. Append(Consumed(j, kind), Reserved(j, kind)) \in Seq(AttemptRow)
        BY ReservedTyped, AppendProperties
    <2>2. attempts' \in [Jobs -> Seq(AttemptRow)]
        BY <1>4, <2>1 DEF ReserveAttempt
    <2>3. job' \in [Jobs -> JobRow]
        BY <1>4, StatusTyped DEF ReserveAttempt, JobStatus
    <2> QED
        BY <1>4, <2>2, <2>3 DEF ReserveAttempt
<1>5. ASSUME NEW d \in Disposition \ {"not_started"}, NEW response \in BOOLEAN,
             NEW defer \in BOOLEAN, NEW calls \in {0, 1}, NEW u \in Units,
             CompleteAttempt(w, j, d, response, calls, u, defer)
      PROVE  RepoTypeOK'
    <2>1. Attempted(j)
        BY <1>5 DEF CompleteAttempt, Completable, LatestIs
    <2>2. attempts' \in [Jobs -> Seq(AttemptRow)]
        BY <1>5, <2>1, SettledStatusTyped, SettledTyped DEF CompleteAttempt
    <2>3. PICK st \in {"cancelled", "finalized", "pending", "indeterminate", "returned"},
               res \in {"resumable", "none"} :
             \/ job' = [job EXCEPT ![j] = [@ EXCEPT !.status = st]]
             \/ job' = [job EXCEPT ![j] = [Unleased(@) EXCEPT !.status = st,
                                                              !.resolution = res]]
        BY <1>5, Zenon DEF CompleteAttempt
    <2>4. job' \in [Jobs -> JobRow]
        <3>1. st \in JobStatus /\ res \in Resolution \cup {"none"}
            BY DEF JobStatus, Resolution
        <3>2. /\ [job[j] EXCEPT !.status = st] \in JobRow
              /\ [Unleased(job[j]) EXCEPT !.status = st, !.resolution = res] \in JobRow
            BY <3>1, UnleasedTyped, StatusTyped
        <3> QED
            BY <2>3, <3>2
    <2>5. run' \in [Runs -> RunRow]
        BY <1>5, RefreshedTyped DEF CompleteAttempt
    <2> QED
        BY <1>5, <2>2, <2>4, <2>5 DEF CompleteAttempt
<1>6. ASSUME NEW result \in Results, NEW u \in Units, FinalizeSuccess(w, j, result, u)
      PROVE  RepoTypeOK'
    <2>1. attempts' \in [Jobs -> Seq(AttemptRow)]
        BY <1>6, SettledTyped DEF FinalizeSuccess, LatestIs, Disposition, AttemptStatus
    <2>2. job' \in [Jobs -> JobRow]
        BY <1>6, UnleasedTyped, StatusTyped DEF FinalizeSuccess, JobStatus
    <2>3. run' \in [Runs -> RunRow]
        BY <1>6, RefreshedTyped DEF FinalizeSuccess
    <2> QED
        BY <1>6, <2>1, <2>2, <2>3 DEF FinalizeSuccess
<1>7. ASSUME NEW d \in Disposition \ {"not_started"}, NEW calls \in {0, 1}, NEW u \in Units,
             FinalizeFailure(w, j, d, calls, u)
      PROVE  RepoTypeOK'
    <2>1. Attempted(j)
        BY <1>7 DEF FinalizeFailure, Completable, LatestIs
    <2>2. attempts' \in [Jobs -> Seq(AttemptRow)]
        BY <1>7, <2>1, SettledStatusTyped, SettledTyped DEF FinalizeFailure
    <2>3. PICK st \in {"cancelled", "pending", "indeterminate", "failed"} :
             job' = [job EXCEPT ![j] = [Unleased(@) EXCEPT !.status = st]]
        BY <1>7, Zenon DEF FinalizeFailure
    <2>4. job' \in [Jobs -> JobRow]
        BY <2>3, UnleasedTyped, StatusTyped DEF JobStatus
    <2>5. run' \in [Runs -> RunRow]
        BY <1>7, RefreshedTyped DEF FinalizeFailure
    <2> QED
        BY <1>7, <2>2, <2>4, <2>5 DEF FinalizeFailure
<1> QED
    BY <1>1, <1>2, <1>3, <1>4, <1>5, <1>6, <1>7 DEF LeaseStep

\* Claiming, with the recovery and the cache hits it starts with, writes typed rows.
LEMMA ClaimStepTyped ==
    ASSUME RepoTypeOK, NEW r \in Runs, NEW hits \in BOOLEAN, ClaimStep(r, hits)
    PROVE  RepoTypeOK'
<1>1. CASE ClaimNothing(r, hits)
    BY <1>1, AfterTyped, BeforeClaimTyped DEF ClaimNothing, RepoTypeOK
<1>2. ASSUME NEW w \in Tokens, NEW j \in Jobs, ClaimNextJob(w, r, hits, j)
      PROVE  RepoTypeOK'
    <2> DEFINE rows == JobsBeforeClaim(hits)
               runs == RunsBeforeClaim(hits)
    <2>1. /\ rows \in [Jobs -> JobRow]
          /\ runs \in [Runs -> RunRow]
          /\ attempts' \in [Jobs -> Seq(AttemptRow)]
        BY <1>2, AfterTyped, BeforeClaimTyped DEF ClaimNextJob
    <2>2. Leased(rows[j], w) \in JobRow
        BY <2>1 DEF Leased, JobRow
    <2>3. [Leased(rows[j], w) EXCEPT !.status = "claimed"] \in JobRow
        BY <2>2, StatusTyped DEF JobStatus
    <2>4. \/ job' = [rows EXCEPT ![j] = Leased(rows[j], w)] /\ run' = runs
          \/ /\ job' = [rows EXCEPT ![j] = [Leased(rows[j], w) EXCEPT !.status = "claimed"]]
             /\ run' = [runs EXCEPT ![r].status = "running"]
        BY <1>2 DEF ClaimNextJob
    <2>5. job' \in [Jobs -> JobRow]
        BY <2>1, <2>2, <2>3, <2>4
    <2>6. run' \in [Runs -> RunRow]
        <3>1. [runs[r] EXCEPT !.status = "running"] \in RunRow
            BY <2>1 DEF RunRow, RunStatus
        <3> QED
            BY <2>1, <2>4, <3>1
    <2>7. cache' = cache /\ published' = published
        BY <1>2 DEF ClaimNextJob
    <2> QED
        BY <2>1, <2>5, <2>6, <2>7 DEF RepoTypeOK
<1> QED
    BY <1>1, <1>2 DEF ClaimStep

\* Type correctness is inductive.
LEMMA NextTyped == RepoTypeOK /\ [RepoNext]_repoVars => RepoTypeOK'
<1> SUFFICES ASSUME RepoTypeOK, [RepoNext]_repoVars PROVE RepoTypeOK'
    OBVIOUS
<1>1. CASE RecoverExpiredLeases
    BY <1>1, AfterTyped, RunsAfterTyped DEF RecoverExpiredLeases, RepoTypeOK
<1>2. CASE UNCHANGED repoVars
    BY <1>2 DEF repoVars, RepoTypeOK
<1> QED
    BY <1>1, <1>2, RunStepTyped, JobStepTyped, LeaseStepTyped, ClaimStepTyped,
       RepositoryAssumption DEF RepoNext

\* Type correctness: every row every transaction writes has the shape of its columns.
THEOREM TypeCorrect == RepoSpec => []RepoTypeOK
<1> QED
    BY InitTyped, NextTyped, PTL DEF RepoSpec

-----------------------------------------------------------------------------
(* What a step may do to the attempts of a job: at most rewrite the latest row,  *)
(* which keeps its kind, its lineage and its approval, or append one row.        *)

KeepsRow(a, b) == /\ b.kind = a.kind /\ b.retryOf = a.retryOf
                  /\ b.approval = a.approval \/ (a.approval = "none" /\ b.approval = "open")
                  /\ \/ b.disposition # "not_started"
                     \/ b.disposition = a.disposition /\ b.status = a.status

KeepsRows(k) ==
    /\ Len(attempts'[k]) = Len(attempts[k])
    /\ \A o \in DOMAIN attempts[k] :
          /\ o < Len(attempts[k]) => attempts'[k][o] = attempts[k][o]
          /\ KeepsRow(attempts[k][o], attempts'[k][o])

AppendsRow(k) ==
    \E kind \in Kinds :
        /\ ~Cancelled(k) /\ KindAllowed(k, kind) /\ WithinLimits(k, kind)
        /\ job[k].status \in {"claimed", "returned", "validated"}
        /\ attempts'[k] = Append(Consumed(k, kind), Reserved(k, kind))

\* Attempts that stand still keep their rows.
LEMMA SameKeeps ==
    ASSUME RepoTypeOK, NEW k \in Jobs, attempts'[k] = attempts[k]
    PROVE  KeepsRows(k)
BY DEF KeepsRows, KeepsRow

\* Replacing the latest row by one that keeps its identity keeps all rows.
LEMMA LastKeeps ==
    ASSUME RepoTypeOK, NEW k \in Jobs, Attempted(k),
           NEW row, KeepsRow(Latest(k), row),
           attempts'[k] = [attempts[k] EXCEPT ![Len(attempts[k])] = row]
    PROVE  KeepsRows(k)
<1>1. Len(attempts[k]) \in Nat \ {0} /\ DOMAIN attempts[k] = 1..Len(attempts[k])
    BY LatestTyped DEF RepoTypeOK
<1>2. Len(attempts'[k]) = Len(attempts[k])
    BY <1>1 DEF RepoTypeOK
<1>3. \A o \in DOMAIN attempts[k] :
         attempts'[k][o] = IF o = Len(attempts[k]) THEN row ELSE attempts[k][o]
    BY <1>1 DEF RepoTypeOK
<1> QED
    BY <1>1, <1>2, <1>3 DEF KeepsRows, KeepsRow, Latest

\* WithLatest does so for one job and leaves the others alone.
LEMMA WithLatestKeeps ==
    ASSUME RepoTypeOK, NEW j \in Jobs, Attempted(j),
           NEW row, KeepsRow(Latest(j), row), attempts' = WithLatest(j, row)
    PROVE  \A k \in Jobs : KeepsRows(k)
<1> TAKE k \in Jobs
<1>1. CASE k = j
    BY <1>1, LastKeeps DEF WithLatest, RepoTypeOK
<1>2. CASE k # j
    BY <1>2, SameKeeps DEF WithLatest, RepoTypeOK
<1> QED
    BY <1>1, <1>2

\* Recovery rewrites the latest attempt only.
LEMMA RecoveryKeeps ==
    ASSUME RepoTypeOK, NEW k \in Jobs, attempts'[k] = RecoveredAttempts(k)
    PROVE  KeepsRows(k)
<1>1. CASE attempts'[k] = attempts[k]
    BY <1>1, SameKeeps
<1>2. CASE attempts'[k] # attempts[k]
    <2>1. Attempted(k)
        BY <1>2 DEF RecoveredAttempts, LatestIs
    <2>2. Latest(k) \in AttemptRow
        BY <2>1, LatestTyped DEF RepoTypeOK
    <2> DEFINE uncertain == [Latest(k) EXCEPT !.status = "indeterminate",
                                              !.disposition = "indeterminate"]
               unsent == [Latest(k) EXCEPT !.status = "not_transmitted",
                                           !.disposition = "definitely_not_transmitted",
                                           !.calls = 0, !.units = 0]
    <2>3. KeepsRow(Latest(k), uncertain) /\ KeepsRow(Latest(k), unsent)
        BY <2>2 DEF KeepsRow, AttemptRow
    <2>4. \/ attempts'[k] = [attempts[k] EXCEPT ![Len(attempts[k])] = uncertain]
          \/ attempts'[k] = [attempts[k] EXCEPT ![Len(attempts[k])] = unsent]
        BY <1>2 DEF RecoveredAttempts, Latest
    <2> HIDE DEF uncertain, unsent
    <2> QED
        BY <2>1, <2>3, <2>4, LastKeeps
<1> QED
    BY <1>1, <1>2

\* The recovery of a set of jobs keeps the rows of all.
LEMMA AfterKeeps ==
    ASSUME RepoTypeOK, NEW due, attempts' = AttemptsAfter(due)
    PROVE  \A k \in Jobs : KeepsRows(k)
BY RecoveryKeeps, SameKeeps DEF AttemptsAfter

\* The transactions on a run keep all rows.
LEMMA RunStepShape ==
    ASSUME RepoTypeOK, NEW r \in Runs, RunStep(r), NEW k \in Jobs
    PROVE  KeepsRows(k)
<1>1. CASE RecoverRun(r)
    <2>1. CASE k \in Lost(r) /\ Attempted(k)
        <3>1. Latest(k) \in AttemptRow
            BY <2>1, LatestTyped DEF RepoTypeOK
        <3> DEFINE row == [Latest(k) EXCEPT !.status = "indeterminate",
                                            !.disposition = "indeterminate"]
        <3>2. KeepsRow(Latest(k), row)
            BY <3>1 DEF KeepsRow, AttemptRow
        <3>3. attempts'[k] = [attempts[k] EXCEPT ![Len(attempts[k])] = row]
            BY <1>1, <2>1 DEF RecoverRun, Latest
        <3> HIDE DEF row
        <3> QED
            BY <2>1, <3>2, <3>3, LastKeeps
    <2>2. CASE ~(k \in Lost(r) /\ Attempted(k))
        <3>1. attempts'[k] = AttemptsAfter(DueInRun(r))[k]
            BY <1>1, <2>2 DEF RecoverRun
        <3>2. attempts'[k] \in {attempts[k], RecoveredAttempts(k)}
            BY <3>1 DEF AttemptsAfter
        <3> QED
            BY <3>2, SameKeeps, RecoveryKeeps
    <2> QED
        BY <2>1, <2>2
<1>2. CASE ~RecoverRun(r)
    <2>1. UNCHANGED attempts
        BY <1>2 DEF RunStep, StoreRunApproval, CancelRun, CancelFlag, ActivateResumableJobs
    <2> QED
        BY <2>1, SameKeeps
<1> QED
    BY <1>1, <1>2

\* The transactions on a job without a lease keep all rows.
LEMMA JobStepShape ==
    ASSUME RepoTypeOK, NEW j \in Jobs, JobStep(j), NEW k \in Jobs
    PROVE  KeepsRows(k)
<1>1. CASE StoreRetryApproval(j)
    <2>1. Attempted(j) /\ attempts' = WithLatest(j, [Latest(j) EXCEPT !.approval = "open"])
        BY <1>1 DEF StoreRetryApproval, LatestIs
    <2>2. Latest(j) \in AttemptRow /\ Latest(j).approval = "none"
        BY <1>1, <2>1, LatestTyped DEF StoreRetryApproval, RepoTypeOK, Latest
    <2>3. KeepsRow(Latest(j), [Latest(j) EXCEPT !.approval = "open"])
        BY <2>2 DEF KeepsRow, AttemptRow
    <2> QED
        BY <2>1, <2>3, WithLatestKeeps
<1>2. ASSUME NEW o \in {0, Len(attempts[j])}, NEW result \in Results, NEW key \in Keys,
             RecordValidated(j, o, result, key)
      PROVE  KeepsRows(k)
    <2>1. CASE o = 0
        BY <1>2, <2>1, SameKeeps DEF RecordValidated
    <2>2. CASE o # 0
        <3>1. Attempted(j) /\ attempts' = WithLatest(j, [Latest(j) EXCEPT !.validated = result])
            BY <1>2, <2>2 DEF RecordValidated, MayRecord, LatestIs
        <3>2. KeepsRow(Latest(j), [Latest(j) EXCEPT !.validated = result])
            BY <3>1, LatestTyped DEF KeepsRow, RepoTypeOK, AttemptRow
        <3> QED
            BY <3>1, <3>2, WithLatestKeeps
    <2> QED
        BY <2>1, <2>2
<1>3. ASSUME ~StoreRetryApproval(j),
             ~\E o \in {0, Len(attempts[j])}, result \in Results, key \in Keys :
                  RecordValidated(j, o, result, key)
      PROVE  KeepsRows(k)
    <2>1. UNCHANGED attempts
        BY <1>3 DEF JobStep, RegisterJob, ExpireLease, StoreCache, DeferResumableJob,
                    FinalizeJob, RecordContinuation, PublishJob
    <2> QED
        BY <2>1, SameKeeps
<1> QED
    BY <1>1, <1>2, <1>3

\* A settled attempt keeps its kind, lineage and approval.
LEMMA SettledKeeps ==
    ASSUME RepoTypeOK, NEW j \in Jobs, Attempted(j), NEW d, NEW st, NEW c, NEW u,
           d # "not_started", attempts' = Settled(j, d, st, c, u)
    PROVE  \A k \in Jobs : KeepsRows(k)
<1>1. KeepsRow(Latest(j), [Latest(j) EXCEPT !.status = st, !.disposition = d,
                                            !.calls = c, !.units = u])
    BY LatestTyped DEF KeepsRow, RepoTypeOK, AttemptRow
<1> QED
    BY <1>1, WithLatestKeeps DEF Settled

\* A claim holder keeps all rows, or appends one by reserving an attempt.
LEMMA LeaseStepShape ==
    ASSUME RepoTypeOK, NEW w \in Tokens, NEW j \in Jobs, LeaseStep(w, j), NEW k \in Jobs
    PROVE  KeepsRows(k) \/ AppendsRow(k)
<1>1. CASE ReclaimJob(w, j) \/ ReleaseClaim(w, j)
    BY <1>1, SameKeeps DEF ReclaimJob, ReleaseClaim
<1>2. CASE MarkTransmitting(w, j)
    <2>1. Attempted(j)
        BY <1>2 DEF MarkTransmitting, MayMark, LatestIs
    <2>2. KeepsRow(Latest(j), [Latest(j) EXCEPT !.status = "transmitting",
                                                !.disposition = "indeterminate"])
        BY <2>1, LatestTyped DEF KeepsRow, RepoTypeOK, AttemptRow
    <2> QED
        BY <1>2, <2>1, <2>2, WithLatestKeeps DEF MarkTransmitting
<1>3. ASSUME NEW kind \in Kinds, ReserveAttempt(w, j, kind)
      PROVE  KeepsRows(k) \/ AppendsRow(k)
    <2>1. CASE k = j
        BY <1>3, <2>1 DEF ReserveAttempt, CanReserve, HoldsClaim, AppendsRow, RepoTypeOK
    <2>2. CASE k # j
        BY <1>3, <2>2, SameKeeps DEF ReserveAttempt, RepoTypeOK
    <2> QED
        BY <2>1, <2>2
<1>4. ASSUME NEW d \in Disposition \ {"not_started"}, NEW response, NEW defer, NEW calls, NEW u,
             CompleteAttempt(w, j, d, response, calls, u, defer)
      PROVE  KeepsRows(k)
    BY <1>4, SettledKeeps DEF CompleteAttempt, Completable, LatestIs
<1>5. ASSUME NEW result, NEW u, FinalizeSuccess(w, j, result, u)
      PROVE  KeepsRows(k)
    BY <1>5, SettledKeeps DEF FinalizeSuccess, LatestIs
<1>6. ASSUME NEW d \in Disposition \ {"not_started"}, NEW calls, NEW u, FinalizeFailure(w, j, d, calls, u)
      PROVE  KeepsRows(k)
    BY <1>6, SettledKeeps DEF FinalizeFailure, Completable, LatestIs
<1> QED
    BY <1>1, <1>2, <1>3, <1>4, <1>5, <1>6 DEF LeaseStep

\* Every step of the repository keeps the rows of a job or appends one.
LEMMA StepShape ==
    ASSUME RepoTypeOK, [RepoNext]_repoVars, NEW k \in Jobs
    PROVE  KeepsRows(k) \/ AppendsRow(k)
<1>1. CASE UNCHANGED repoVars
    BY <1>1, SameKeeps DEF repoVars
<1>2. CASE RecoverExpiredLeases
    BY <1>2, AfterKeeps DEF RecoverExpiredLeases
<1>3. ASSUME NEW r \in Runs, NEW hits \in BOOLEAN, ClaimStep(r, hits)
      PROVE  KeepsRows(k)
    BY <1>3, AfterKeeps DEF ClaimStep, ClaimNothing, ClaimNextJob
<1> QED
    BY <1>1, <1>2, <1>3, RunStepShape, JobStepShape, LeaseStepShape DEF RepoNext

-----------------------------------------------------------------------------
(* The status of a job and the status of its latest attempt. *)

OpenStatus == {"reserved", "submitting"}
OpenRow == {"reserved", "transmitting"}

\* AttemptMatchesJob for one job, as a relation of its status and its attempts.
Fits(st, rows) ==
    /\ st = "reserved" <=> rows # <<>> /\ rows[Len(rows)].status = "reserved"
    /\ st = "submitting" <=> rows # <<>> /\ rows[Len(rows)].status = "transmitting"
    /\ \A o \in DOMAIN rows : o < Len(rows) => rows[o].status \notin OpenRow

\* AttemptMatchesJob, one job at a time.
LEMMA MatchesAsFits ==
    AttemptMatchesJob <=> \A j \in Jobs : Fits(job[j].status, attempts[j])
BY DEF AttemptMatchesJob, Fits, LatestIs, Latest, Attempted, OpenRow

\* A job that is nowhere near a call may change its status freely.
LEMMA FitsQuietly ==
    ASSUME NEW st, NEW st2, NEW rows, Fits(st, rows),
           st2 = st \/ (st \notin OpenStatus /\ st2 \notin OpenStatus)
    PROVE  Fits(st2, rows)
BY DEF Fits, OpenStatus

\* A latest attempt that is settled fits every status of its job outside a call.
LEMMA FitsSettled ==
    ASSUME NEW rows \in Seq(AttemptRow), rows # <<>>, NEW st, NEW st2, Fits(st, rows),
           st2 \notin OpenStatus,
           NEW row \in AttemptRow, row.status \notin OpenRow
    PROVE  Fits(st2, [rows EXCEPT ![Len(rows)] = row])
<1> DEFINE new == [rows EXCEPT ![Len(rows)] = row]
<1>1. Len(rows) \in 1..Len(rows) /\ DOMAIN rows = 1..Len(rows)
    OBVIOUS
<1>2. /\ Len(new) = Len(rows) /\ new \in Seq(AttemptRow)
      /\ \A o \in 1..Len(rows) : new[o] = IF o = Len(rows) THEN row ELSE rows[o]
    BY <1>1, ExceptSeq
<1>3. DOMAIN new = 1..Len(rows)
    BY <1>1
<1> HIDE DEF new
<1>4. new[Len(new)].status \notin OpenRow
    BY <1>1, <1>2
<1>5. \A o \in DOMAIN new : o < Len(new) => new[o].status \notin OpenRow
    BY <1>1, <1>2, <1>3 DEF Fits
<1> QED
    BY <1>4, <1>5 DEF Fits, OpenStatus, OpenRow, new

\* Lease recovery settles what it interrupts.
LEMMA RecoveredFits ==
    ASSUME RepoTypeOK, NEW j \in Jobs, job[j].status \in SlotStatus,
           Fits(job[j].status, attempts[j])
    PROVE  Fits(RecoveredJob(j).status, RecoveredAttempts(j))
<1>1. RecoveredJob(j).status \notin OpenStatus
    BY DEF RecoveredJob, Unleased, RepoTypeOK, JobRow, OpenStatus
<1>2. CASE RecoveredAttempts(j) = attempts[j]
    <2>1. job[j].status \notin OpenStatus
        <3>1. CASE job[j].status = "reserved"
            <4>1. Attempted(j) /\ LatestIs(j, "reserved") /\ ~MaybeSent(j)
                BY <3>1 DEF Fits, Attempted, LatestIs, Latest, MaybeSent
            <4>2. [Latest(j) EXCEPT !.status = "not_transmitted",
                                    !.disposition = "definitely_not_transmitted",
                                    !.calls = 0, !.units = 0].status = "not_transmitted"
                BY <4>1, LatestTyped DEF RepoTypeOK, AttemptRow
            <4>3. RecoveredAttempts(j)[Len(attempts[j])].status = "not_transmitted"
                BY <3>1, <4>1, <4>2, LatestTyped DEF RecoveredAttempts, Latest, RepoTypeOK
            <4> QED
                BY <1>2, <4>1, <4>3 DEF LatestIs, Latest
        <3>2. CASE job[j].status = "submitting"
            <4>1. Attempted(j) /\ LatestIs(j, "transmitting") /\ MaybeSent(j)
                BY <3>2 DEF Fits, Attempted, LatestIs, Latest, MaybeSent
            <4>2. [Latest(j) EXCEPT !.status = "indeterminate",
                                    !.disposition = "indeterminate"].status = "indeterminate"
                BY <4>1, LatestTyped DEF RepoTypeOK, AttemptRow
            <4>3. RecoveredAttempts(j)[Len(attempts[j])].status = "indeterminate"
                BY <4>1, <4>2, LatestTyped DEF RecoveredAttempts, Latest, RepoTypeOK
            <4> QED
                BY <1>2, <4>1, <4>3 DEF LatestIs, Latest
        <3> QED
            BY <3>1, <3>2 DEF OpenStatus
    <2> QED
        BY <1>1, <1>2, <2>1, FitsQuietly
<1>3. CASE RecoveredAttempts(j) # attempts[j]
    <2>1. Attempted(j)
        BY <1>3 DEF RecoveredAttempts, LatestIs
    <2>2. Latest(j) \in AttemptRow
        BY <2>1, LatestTyped DEF RepoTypeOK
    <2> DEFINE uncertain == [Latest(j) EXCEPT !.status = "indeterminate",
                                              !.disposition = "indeterminate"]
               unsent == [Latest(j) EXCEPT !.status = "not_transmitted",
                                           !.disposition = "definitely_not_transmitted",
                                           !.calls = 0, !.units = 0]
    <2>3. /\ uncertain \in AttemptRow /\ uncertain.status \notin OpenRow
          /\ unsent \in AttemptRow /\ unsent.status \notin OpenRow
        BY <2>2 DEF AttemptRow, AttemptStatus, Disposition, OpenRow
    <2>4. \/ RecoveredAttempts(j) = [attempts[j] EXCEPT ![Len(attempts[j])] = uncertain]
          \/ RecoveredAttempts(j) = [attempts[j] EXCEPT ![Len(attempts[j])] = unsent]
        BY <1>3 DEF RecoveredAttempts, Latest
    <2>5. attempts[j] \in Seq(AttemptRow) /\ attempts[j] # <<>>
        BY <2>1 DEF RepoTypeOK, Attempted
    <2> HIDE DEF uncertain, unsent
    <2> QED
        BY <1>1, <2>3, <2>4, <2>5, FitsSettled
<1> QED
    BY <1>2, <1>3

\* The recovery of a set of slots leaves the rows of every job fitting its status.
LEMMA AfterFits ==
    ASSUME RepoTypeOK, AttemptMatchesJob, NEW j \in Jobs,
           NEW due, \A k \in due : job[k].status \in SlotStatus
    PROVE  Fits(JobsAfter(due)[j].status, AttemptsAfter(due)[j])
BY RecoveredFits, MatchesAsFits DEF JobsAfter, AttemptsAfter

\* Job k's attempts stand still and its status moves, if at all, outside a call.
Quiet(k) ==
    /\ attempts'[k] = attempts[k]
    /\ \/ job'[k].status = job[k].status
       \/ job[k].status \notin OpenStatus /\ job'[k].status \notin OpenStatus

\* A quiet job keeps fitting.
LEMMA QuietFits ==
    ASSUME AttemptMatchesJob, NEW k \in Jobs, Quiet(k)
    PROVE  Fits(job'[k].status, attempts'[k])
BY MatchesAsFits, FitsQuietly DEF Quiet

\* The transactions on a run keep every job fitting.
LEMMA RunStepFits ==
    ASSUME RepoTypeOK, AttemptMatchesJob, NEW r \in Runs, RunStep(r), NEW k \in Jobs
    PROVE  Fits(job'[k].status, attempts'[k])
<1>1. CASE StoreRunApproval(r)
    BY <1>1, QuietFits DEF StoreRunApproval, Quiet
<1>2. CASE CancelRun(r)
    <2>1. job[k].status \in {"pending", "claimed"} =>
             [Unleased(job[k]) EXCEPT !.status = "cancelled"].status = "cancelled"
        BY DEF RepoTypeOK, JobRow, Unleased
    <2>2. Quiet(k)
        BY <1>2, <2>1 DEF CancelRun, CancelFlag, Quiet, OpenStatus
    <2> QED
        BY <2>2, QuietFits
<1>3. CASE ActivateResumableJobs(r)
    <2>1. job[k].status = "finalized" =>
             [job[k] EXCEPT !.status = "pending", !.resolution = "none"].status = "pending"
        BY DEF RepoTypeOK, JobRow
    <2>2. Quiet(k)
        BY <1>3, <2>1 DEF ActivateResumableJobs, Quiet, OpenStatus
    <2> QED
        BY <2>2, QuietFits
<1>4. CASE RecoverRun(r)
    <2>1. \A j \in DueInRun(r) : job[j].status \in SlotStatus
        BY DEF DueInRun, DueNow
    <2>2. CASE k \notin Lost(r)
        BY <1>4, <2>1, <2>2, AfterFits DEF RecoverRun
    <2>3. CASE k \in Lost(r) /\ ~Attempted(k)
        <3>1. [Unleased(job[k]) EXCEPT !.status = "indeterminate"].status = "indeterminate"
            BY DEF RepoTypeOK, JobRow, Unleased
        <3>2. attempts'[k] = attempts[k]
            BY <1>4, <2>3 DEF RecoverRun, AttemptsAfter, RecoveredAttempts, LatestIs
        <3>3. Quiet(k)
            BY <1>4, <2>3, <3>1, <3>2 DEF RecoverRun, Lost, Quiet, OpenStatus
        <3> QED
            BY <3>3, QuietFits
    <2>4. CASE k \in Lost(r) /\ Attempted(k)
        <3> DEFINE row == [Latest(k) EXCEPT !.status = "indeterminate",
                                            !.disposition = "indeterminate"]
        <3>1. row \in AttemptRow /\ row.status \notin OpenRow
            BY <2>4, LatestTyped DEF RepoTypeOK, AttemptRow, AttemptStatus, Disposition, OpenRow
        <3>2. attempts'[k] = [attempts[k] EXCEPT ![Len(attempts[k])] = row]
            BY <1>4, <2>4 DEF RecoverRun, Latest
        <3>3. job'[k].status = "indeterminate"
            BY <1>4, <2>4 DEF RecoverRun, RepoTypeOK, JobRow, Unleased
        <3>4. attempts[k] \in Seq(AttemptRow) /\ attempts[k] # <<>>
            BY <2>4 DEF RepoTypeOK, Attempted
        <3>5. Fits(job[k].status, attempts[k])
            BY MatchesAsFits
        <3>6. "indeterminate" \notin OpenStatus
            BY DEF OpenStatus
        <3> HIDE DEF row
        <3>7. Fits("indeterminate", [attempts[k] EXCEPT ![Len(attempts[k])] = row])
            BY <3>1, <3>4, <3>5, <3>6, FitsSettled
        <3> QED
            BY <3>2, <3>3, <3>7
    <2> QED
        BY <2>2, <2>3, <2>4
<1> QED
    BY <1>1, <1>2, <1>3, <1>4 DEF RunStep

\* The transactions on a job without a lease keep every job fitting.
LEMMA JobStepFits ==
    ASSUME RepoTypeOK, AttemptMatchesJob, NEW j \in Jobs, JobStep(j), NEW k \in Jobs
    PROVE  Fits(job'[k].status, attempts'[k])
<1> USE DEF Quiet, OpenStatus
<1>1. CASE StoreRetryApproval(j)
    <2>1. Attempted(j) /\ attempts' = WithLatest(j, [Latest(j) EXCEPT !.approval = "open"])
        BY <1>1 DEF StoreRetryApproval, LatestIs
    <2>2. [Latest(j) EXCEPT !.approval = "open"] \in AttemptRow
        BY <2>1, LatestTyped DEF RepoTypeOK, AttemptRow
    <2>3. [Latest(j) EXCEPT !.approval = "open"].status \notin OpenRow
        BY <1>1, <2>1, LatestTyped DEF StoreRetryApproval, LatestIs, RepoTypeOK, AttemptRow, OpenRow
    <2>4. CASE k = j
        <3>1. job'[k].status = "pending"
            <4>1. [job[j] EXCEPT !.status = "pending", !.resolution = "none"].status = "pending"
                BY DEF RepoTypeOK, JobRow
            <4> QED
                BY <1>1, <2>4, <4>1 DEF StoreRetryApproval, RepoTypeOK
        <3>2. attempts'[k] = [attempts[k] EXCEPT ![Len(attempts[k])] =
                                [Latest(j) EXCEPT !.approval = "open"]]
            BY <2>1, <2>4 DEF WithLatest, RepoTypeOK
        <3> DEFINE row == [Latest(j) EXCEPT !.approval = "open"]
        <3>3. attempts[k] \in Seq(AttemptRow) /\ attempts[k] # <<>>
            BY <2>1, <2>4 DEF RepoTypeOK, Attempted
        <3>4. row \in AttemptRow /\ row.status \notin OpenRow
            BY <2>2, <2>3
        <3>5. Fits(job[k].status, attempts[k]) /\ "pending" \notin OpenStatus
            BY MatchesAsFits
        <3> HIDE DEF row
        <3>6. Fits("pending", [attempts[k] EXCEPT ![Len(attempts[k])] = row])
            BY <3>3, <3>4, <3>5, FitsSettled
        <3> QED
            BY <3>1, <3>2, <3>6 DEF row
    <2>5. CASE k # j
        <3>1. Quiet(k)
            BY <1>1, <2>1, <2>5 DEF StoreRetryApproval, WithLatest, RepoTypeOK
        <3> QED
            BY <3>1, QuietFits
    <2> QED
        BY <2>4, <2>5
<1>2. CASE RegisterJob(j)
    <2>1. Quiet(k)
        BY <1>2 DEF RegisterJob, FreshJob, RepoTypeOK
    <2> QED
        BY <2>1, QuietFits
<1>3. CASE ExpireLease(j)
    <2>1. Quiet(k)
        BY <1>3 DEF ExpireLease, RepoTypeOK, JobRow
    <2> QED
        BY <2>1, QuietFits
<1>4. CASE StoreCache(j)
    <2>1. Quiet(k)
        BY <1>4 DEF StoreCache, MayStore, RepoTypeOK, JobRow
    <2> QED
        BY <2>1, QuietFits
<1>5. CASE DeferResumableJob(j)
    <2>1. Quiet(k)
        BY <1>5 DEF DeferResumableJob, MayDefer, RepoTypeOK, JobRow
    <2> QED
        BY <2>1, QuietFits
<1>6. ASSUME NEW res \in Resolution, FinalizeJob(j, res)
      PROVE  Fits(job'[k].status, attempts'[k])
    <2>1. FinalizedStatus(res) \in {"indeterminate", "cancelled", "finalized"}
        BY DEF FinalizedStatus, Resolution
    <2>2. job[j].status \notin OpenStatus
        BY <1>6 DEF FinalizeJob, MayFinalize
    <2>3. [Unleased(job[j]) EXCEPT !.status = FinalizedStatus(res), !.resolution = res].status
             = FinalizedStatus(res)
        BY DEF Unleased, RepoTypeOK, JobRow
    <2>4. Quiet(k)
        BY <1>6, <2>1, <2>2, <2>3 DEF FinalizeJob, RepoTypeOK
    <2> QED
        BY <2>4, QuietFits
<1>7. ASSUME NEW c, RecordContinuation(j, c)
      PROVE  Fits(job'[k].status, attempts'[k])
    <2>1. Quiet(k)
        BY <1>7 DEF RecordContinuation, RepoTypeOK, JobRow
    <2> QED
        BY <2>1, QuietFits
<1>8. ASSUME NEW result, PublishJob(j, result)
      PROVE  Fits(job'[k].status, attempts'[k])
    <2>1. Quiet(k)
        BY <1>8 DEF PublishJob, MayPublish, RepoTypeOK, JobRow
    <2> QED
        BY <2>1, QuietFits
<1>9. ASSUME NEW o \in {0, Len(attempts[j])}, NEW result \in Results, NEW key \in Keys,
             RecordValidated(j, o, result, key)
      PROVE  Fits(job'[k].status, attempts'[k])
    <2>1. \/ job'[k].status = job[k].status
          \/ job[k].status \notin OpenStatus /\ job'[k].status \notin OpenStatus
        BY <1>9 DEF RecordValidated, RepoTypeOK, JobRow
    <2>2. CASE o = 0 \/ k # j
        <3>1. Quiet(k)
            BY <1>9, <2>1, <2>2 DEF RecordValidated, WithLatest, RepoTypeOK
        <3> QED
            BY <3>1, QuietFits
    <2>3. CASE o # 0 /\ k = j
        <3>1. Attempted(j) /\ Latest(j).status = "returned"
            BY <1>9, <2>3 DEF RecordValidated, MayRecord, LatestIs
        <3> DEFINE row == [Latest(j) EXCEPT !.validated = result]
        <3>2. row \in AttemptRow /\ row.status \notin OpenRow
            BY <3>1, LatestTyped DEF RepoTypeOK, AttemptRow, OpenRow
        <3>3. attempts'[k] = [attempts[k] EXCEPT ![Len(attempts[k])] = row]
            BY <1>9, <2>3 DEF RecordValidated, WithLatest, RepoTypeOK
        <3>4. job'[k].status \notin OpenStatus
            <4>1. job[k].status \notin OpenStatus
                BY <2>3, <3>1, MatchesAsFits DEF Fits, Attempted, Latest
            <4> QED
                BY <2>1, <4>1
        <3> HIDE DEF row
        <3>5. Fits(job'[k].status, [attempts[k] EXCEPT ![Len(attempts[k])] = row])
            BY <2>3, <3>1, <3>2, <3>4, FitsSettled, MatchesAsFits DEF RepoTypeOK, Attempted
        <3> QED
            BY <3>3, <3>5
    <2> QED
        BY <2>2, <2>3
<1> QED
    BY <1>1, <1>2, <1>3, <1>4, <1>5, <1>6, <1>7, <1>8, <1>9 DEF JobStep

\* Completing a call settles its attempt and takes the job out of the call.
LEMMA SettledFits ==
    ASSUME RepoTypeOK, AttemptMatchesJob, NEW j \in Jobs, Attempted(j),
           NEW d, NEW st, NEW c, NEW u, st \notin OpenRow, job'[j].status \notin OpenStatus,
           Settled(j, d, st, c, u) \in [Jobs -> Seq(AttemptRow)],
           attempts' = Settled(j, d, st, c, u)
    PROVE  Fits(job'[j].status, attempts'[j])
<1>1. attempts[j] \in Seq(AttemptRow) /\ attempts[j] # <<>> /\ Latest(j) \in AttemptRow
    BY LatestTyped DEF RepoTypeOK, Attempted
<1>2. Len(attempts[j]) \in 1..Len(attempts[j]) /\ Len(attempts[j]) \in DOMAIN attempts[j]
    BY <1>1
<1> DEFINE row == [Latest(j) EXCEPT !.status = st, !.disposition = d,
                                    !.calls = c, !.units = u]
<1>3. attempts'[j] = [attempts[j] EXCEPT ![Len(attempts[j])] = row]
    BY DEF Settled, WithLatest, RepoTypeOK
<1>4. row.status = st
    BY <1>1 DEF AttemptRow
<1>5. row \in AttemptRow
    <2>1. attempts'[j][Len(attempts[j])] = row
        BY <1>2, <1>3
    <2>2. attempts'[j] \in Seq(AttemptRow)
        BY Zenon
    <2>3. Len(attempts[j]) \in DOMAIN attempts'[j]
        BY <1>2, <1>3
    <2> HIDE DEF row
    <2>4. attempts'[j][Len(attempts[j])] \in AttemptRow
        BY <1>2, <2>2, <2>3
    <2> QED
        BY <2>1, <2>4
<1> HIDE DEF row
<1> QED
    BY <1>1, <1>3, <1>4, <1>5, FitsSettled, MatchesAsFits

\* A reservation makes the job reserved and its new latest attempt open.
LEMMA ReserveFits ==
    ASSUME RepoTypeOK, AttemptMatchesJob, NEW w \in Tokens, NEW j \in Jobs,
           NEW kind \in Kinds, ReserveAttempt(w, j, kind)
    PROVE  Fits(job'[j].status, attempts'[j])
<1>1. job'[j].status = "reserved"
    BY DEF ReserveAttempt, RepoTypeOK, JobRow
<1> DEFINE old == Consumed(j, kind)
           row == Reserved(j, kind)
<1>2. /\ old \in Seq(AttemptRow) /\ row \in AttemptRow /\ Len(old) = Len(attempts[j])
      /\ row.status = "reserved"
    BY ReservedTyped DEF RepoTypeOK, Reserved
<1>3. \A o \in DOMAIN attempts[j] : attempts[j][o].status \notin OpenRow
    <2>1. job[j].status \in {"claimed", "returned", "validated"}
        BY DEF ReserveAttempt, CanReserve, HoldsClaim
    <2>2. Fits(job[j].status, attempts[j]) /\ attempts[j] \in Seq(AttemptRow)
        BY MatchesAsFits DEF RepoTypeOK
    <2>3. attempts[j] # <<>> => attempts[j][Len(attempts[j])].status \notin OpenRow
        BY <2>1, <2>2 DEF Fits, OpenRow
    <2> QED
        BY <2>2, <2>3 DEF Fits
<1>4. \A o \in DOMAIN old : old[o].status = attempts[j][o].status
    <2>1. CASE ResendsUncertain(j, kind)
        <3>1. Attempted(j) /\ Spent(Latest(j)).status = Latest(j).status
            BY <2>1, LatestTyped DEF ResendsUncertain, Spent, RepoTypeOK, AttemptRow
        <3> QED
            BY <2>1, <3>1 DEF Consumed, Latest
    <2>2. CASE ~ResendsUncertain(j, kind)
        BY <2>2 DEF Consumed
    <2> QED
        BY <2>1, <2>2
<1>5. attempts'[j] = Append(old, row)
    BY DEF ReserveAttempt, RepoTypeOK
<1>6. \A o \in DOMAIN old : old[o].status \notin OpenRow
    <2>1. DOMAIN old = DOMAIN attempts[j]
        BY <1>2 DEF RepoTypeOK
    <2> QED
        BY <1>3, <1>4, <2>1
<1> HIDE DEF old, row
<1>7. /\ Len(Append(old, row)) = Len(old) + 1 /\ Append(old, row)[Len(old) + 1] = row
      /\ \A o \in DOMAIN old : Append(old, row)[o] = old[o]
      /\ DOMAIN old = 1..Len(old) /\ DOMAIN Append(old, row) = 1..(Len(old) + 1)
      /\ Append(old, row) # <<>>
    BY <1>2
<1> QED
    BY <1>1, <1>2, <1>5, <1>6, <1>7 DEF Fits, OpenRow

\* The transactions of a claim holder keep every job fitting.
LEMMA LeaseStepFits ==
    ASSUME RepoTypeOK, AttemptMatchesJob, RepoTypeOK', NEW w \in Tokens, NEW j \in Jobs,
           LeaseStep(w, j), NEW k \in Jobs
    PROVE  Fits(job'[k].status, attempts'[k])
<1>1. CASE ReclaimJob(w, j)
    <2>1. Quiet(k)
        BY <1>1 DEF ReclaimJob, Leased, Quiet, RepoTypeOK, JobRow
    <2> QED
        BY <2>1, QuietFits
<1>2. CASE ReleaseClaim(w, j)
    <2>1. Released(job[j]).status =
             IF job[j].status = "claimed" THEN "pending" ELSE job[j].status
        BY DEF Released, Unleased, RepoTypeOK, JobRow
    <2>2. Quiet(k)
        BY <1>2, <2>1 DEF ReleaseClaim, Quiet, RepoTypeOK, OpenStatus
    <2> QED
        BY <2>2, QuietFits
<1>3. CASE MarkTransmitting(w, j)
    <2> DEFINE row == [Latest(j) EXCEPT !.status = "transmitting",
                                        !.disposition = "indeterminate"]
    <2>1. Attempted(j)
        BY <1>3 DEF MarkTransmitting, MayMark, LatestIs
    <2>2. row.status = "transmitting"
        BY <2>1, LatestTyped DEF RepoTypeOK, AttemptRow
    <2>3. attempts' = [attempts EXCEPT ![j] = [@ EXCEPT ![Len(attempts[j])] = row]]
        BY <1>3 DEF MarkTransmitting, WithLatest
    <2>4. CASE k # j
        <3>1. Quiet(k)
            BY <1>3, <2>3, <2>4 DEF MarkTransmitting, Quiet, RepoTypeOK
        <3> QED
            BY <3>1, QuietFits
    <2>5. CASE k = j
        <3>1. job'[j].status = "submitting"
            BY <1>3 DEF MarkTransmitting, RepoTypeOK, JobRow
        <3>2. attempts'[j] = [attempts[j] EXCEPT ![Len(attempts[j])] = row]
            BY <2>3 DEF RepoTypeOK
        <3>3. /\ Len(attempts[j]) \in 1..Len(attempts[j])
              /\ DOMAIN attempts[j] = 1..Len(attempts[j])
              /\ attempts[j] \in Seq(AttemptRow) /\ attempts'[j] \in Seq(AttemptRow)
            BY <2>1, LatestTyped DEF RepoTypeOK
        <3>4. /\ Len(attempts'[j]) = Len(attempts[j])
              /\ DOMAIN attempts'[j] = DOMAIN attempts[j]
              /\ \A o \in DOMAIN attempts[j] :
                    attempts'[j][o] = IF o = Len(attempts[j]) THEN row ELSE attempts[j][o]
            BY <3>2, <3>3
        <3>5. Fits(job[j].status, attempts[j])
            BY MatchesAsFits
        <3> HIDE DEF row
        <3>6. attempts'[j][Len(attempts'[j])].status = "transmitting" /\ attempts'[j] # <<>>
            BY <2>2, <3>3, <3>4
        <3>7. \A o \in DOMAIN attempts'[j] : o < Len(attempts'[j]) =>
                 attempts'[j][o].status \notin OpenRow
            BY <3>3, <3>4, <3>5 DEF Fits
        <3> QED
            BY <2>5, <3>1, <3>6, <3>7 DEF Fits
    <2> QED
        BY <2>4, <2>5
<1>4. ASSUME NEW kind \in Kinds, ReserveAttempt(w, j, kind)
      PROVE  Fits(job'[k].status, attempts'[k])
    <2>1. CASE k = j
        BY <1>4, <2>1, ReserveFits
    <2>2. CASE k # j
        <3>1. Quiet(k)
            BY <1>4, <2>2 DEF ReserveAttempt, Quiet, RepoTypeOK
        <3> QED
            BY <3>1, QuietFits
    <2> QED
        BY <2>1, <2>2
<1>5. ASSUME Attempted(j), NEW d, NEW st, NEW c, NEW u, st \notin OpenRow,
             attempts' = Settled(j, d, st, c, u), job'[j].status \notin OpenStatus,
             k # j => job'[k] = job[k]
      PROVE  Fits(job'[k].status, attempts'[k])
    <2>1. CASE k = j
        <3>1. Settled(j, d, st, c, u) \in [Jobs -> Seq(AttemptRow)]
            BY <1>5 DEF RepoTypeOK
        <3> QED
            BY <1>5, <2>1, <3>1, SettledFits
    <2>2. CASE k # j
        <3>1. Quiet(k)
            BY <1>5, <2>2 DEF Settled, WithLatest, Quiet, RepoTypeOK
        <3> QED
            BY <3>1, QuietFits
    <2> QED
        BY <2>1, <2>2
<1>6. ASSUME NEW d \in Disposition \ {"not_started"}, NEW response
      PROVE  SettledStatus(d, response) \notin OpenRow
    BY DEF SettledStatus, Disposition, OpenRow
<1>7. ASSUME NEW s
      PROVE  /\ [job[j] EXCEPT !.status = s].status = s
             /\ [Unleased(job[j]) EXCEPT !.status = s].status = s
             /\ \A x : [Unleased(job[j]) EXCEPT !.status = s, !.resolution = x].status = s
             /\ \A x : [Unleased(job[j]) EXCEPT !.status = s, !.result = x].status = s
    BY DEF Unleased, RepoTypeOK, JobRow
<1>8. ASSUME NEW d \in Disposition \ {"not_started"}, NEW response, NEW defer,
             NEW calls, NEW u, CompleteAttempt(w, j, d, response, calls, u, defer)
      PROVE  Fits(job'[k].status, attempts'[k])
    <2>1. Attempted(j) /\ attempts' = Settled(j, d, SettledStatus(d, response), calls, u)
        BY <1>8 DEF CompleteAttempt, Completable, LatestIs
    <2>2. PICK st \in {"cancelled", "finalized", "pending", "indeterminate", "returned"},
               res \in {"resumable", "none"} :
             \/ job' = [job EXCEPT ![j] = [@ EXCEPT !.status = st]]
             \/ job' = [job EXCEPT ![j] = [Unleased(@) EXCEPT !.status = st,
                                                              !.resolution = res]]
        BY <1>8, Zenon DEF CompleteAttempt
    <2>3. job'[j].status = st /\ (k # j => job'[k] = job[k])
        <3>1. /\ [job[j] EXCEPT !.status = st].status = st
              /\ [Unleased(job[j]) EXCEPT !.status = st, !.resolution = res].status = st
            BY <1>7
        <3>2. CASE job' = [job EXCEPT ![j] = [@ EXCEPT !.status = st]]
            BY <3>1, <3>2 DEF RepoTypeOK
        <3>3. CASE job' = [job EXCEPT ![j] = [Unleased(@) EXCEPT !.status = st,
                                                                 !.resolution = res]]
            BY <3>1, <3>3 DEF RepoTypeOK
        <3> QED
            BY <2>2, <3>2, <3>3
    <2>4. job'[j].status \notin OpenStatus
        BY <2>3 DEF OpenStatus
    <2> QED
        BY <1>5, <1>6, <2>1, <2>3, <2>4
<1>9. ASSUME NEW result, NEW u, FinalizeSuccess(w, j, result, u)
      PROVE  Fits(job'[k].status, attempts'[k])
    <2>1. Attempted(j) /\ attempts' = Settled(j, "transmitted", "succeeded", 1, u)
        BY <1>9 DEF FinalizeSuccess, LatestIs
    <2>2. job'[j].status = "succeeded" /\ (k # j => job'[k] = job[k])
        BY <1>9, <1>7 DEF FinalizeSuccess, RepoTypeOK
    <2>3. "succeeded" \notin OpenRow /\ job'[j].status \notin OpenStatus
        BY <2>2 DEF OpenRow, OpenStatus
    <2> QED
        BY <1>5, <2>1, <2>2, <2>3
<1>10. ASSUME NEW d \in Disposition \ {"not_started"}, NEW calls, NEW u,
              FinalizeFailure(w, j, d, calls, u)
       PROVE  Fits(job'[k].status, attempts'[k])
    <2>1. Attempted(j) /\ attempts' = Settled(j, d, SettledStatus(d, FALSE), calls, u)
        BY <1>10 DEF FinalizeFailure, Completable, LatestIs
    <2>2. PICK st \in {"cancelled", "pending", "indeterminate", "failed"} :
             job' = [job EXCEPT ![j] = [Unleased(@) EXCEPT !.status = st]]
        BY <1>10, Zenon DEF FinalizeFailure
    <2>3. job'[j].status = st /\ (k # j => job'[k] = job[k])
        BY <2>2, <1>7 DEF RepoTypeOK
    <2>4. job'[j].status \notin OpenStatus
        BY <2>3 DEF OpenStatus
    <2> QED
        BY <1>5, <1>6, <2>1, <2>3, <2>4
<1> QED
    BY <1>1, <1>2, <1>3, <1>4, <1>8, <1>9, <1>10 DEF LeaseStep

\* A claim is a recovery, then cache hits of pending jobs, then a lease: only the
\* recovery touches a call.
LEMMA ClaimStepFits ==
    ASSUME RepoTypeOK, AttemptMatchesJob, NEW r \in Runs, NEW hits \in BOOLEAN,
           ClaimStep(r, hits), NEW k \in Jobs
    PROVE  Fits(job'[k].status, attempts'[k])
<1> DEFINE rows == JobsBeforeClaim(hits)
<1>1. Fits(JobsAfter(DueNow)[k].status, AttemptsAfter(DueNow)[k])
    BY AfterFits DEF DueNow
<1>2. rows \in [Jobs -> JobRow] /\ JobsAfter(DueNow) \in [Jobs -> JobRow]
    BY AfterTyped, BeforeClaimTyped
<1>3. Fits(rows[k].status, AttemptsAfter(DueNow)[k])
    <2>1. CASE k \in CacheHits(JobsAfter(DueNow)) /\ hits
        <3>1. JobsAfter(DueNow)[k].status = "pending" /\ rows[k].status = "cached"
            BY <1>2, <2>1 DEF CacheHits, JobsBeforeClaim, Materialized, JobRow
        <3> HIDE DEF rows
        <3> QED
            BY <1>1, <3>1, FitsQuietly DEF OpenStatus
    <2>2. CASE ~(k \in CacheHits(JobsAfter(DueNow)) /\ hits)
        <3>1. rows[k] = JobsAfter(DueNow)[k]
            BY <2>2 DEF JobsBeforeClaim, Materialized
        <3> QED
            BY <1>1, <3>1
    <2> QED
        BY <2>1, <2>2
<1> HIDE DEF rows
<1>4. attempts' = AttemptsAfter(DueNow)
    BY DEF ClaimStep, ClaimNothing, ClaimNextJob
<1>5. \/ job'[k].status = rows[k].status
      \/ rows[k].status \notin OpenStatus /\ job'[k].status \notin OpenStatus
    <2>1. CASE ClaimNothing(r, hits)
        BY <2>1 DEF ClaimNothing, rows
    <2>2. ASSUME NEW w \in Tokens, NEW j \in Jobs, ClaimNextJob(w, r, hits, j)
          PROVE  \/ job'[k].status = rows[k].status
                 \/ rows[k].status \notin OpenStatus /\ job'[k].status \notin OpenStatus
        <3>1. \/ job' = [rows EXCEPT ![j] = Leased(rows[j], w)]
              \/ /\ job' = [rows EXCEPT ![j] = [Leased(rows[j], w) EXCEPT !.status = "claimed"]]
                 /\ rows[j].status = "pending"
            BY <2>2, Zenon DEF ClaimNextJob, First, Startable, rows
        <3>2. /\ Leased(rows[j], w).status = rows[j].status
              /\ [Leased(rows[j], w) EXCEPT !.status = "claimed"].status = "claimed"
            BY <1>2 DEF Leased, JobRow
        <3>3. CASE k = j
            BY <1>2, <3>1, <3>2, <3>3 DEF OpenStatus
        <3>4. CASE k # j
            BY <1>2, <3>1, <3>4
        <3> QED
            BY <3>3, <3>4
    <2> QED
        BY <2>1, <2>2 DEF ClaimStep
<1> QED
    BY <1>3, <1>4, <1>5, FitsQuietly

\* AttemptMatchesJob is inductive relative to type correctness.
LEMMA NextMatches ==
    RepoTypeOK /\ RepoTypeOK' /\ AttemptMatchesJob /\ [RepoNext]_repoVars => AttemptMatchesJob'
<1> SUFFICES ASSUME RepoTypeOK, RepoTypeOK', AttemptMatchesJob, [RepoNext]_repoVars,
                    NEW k \in Jobs
             PROVE  Fits(job'[k].status, attempts'[k])
    BY MatchesAsFits DEF AttemptMatchesJob, Fits, LatestIs, Latest, Attempted, OpenRow
<1>1. CASE RecoverExpiredLeases
    BY <1>1, AfterFits DEF RecoverExpiredLeases, DueNow
<1>2. CASE UNCHANGED repoVars
    BY <1>2, MatchesAsFits DEF repoVars
<1> QED
    BY <1>1, <1>2, RunStepFits, JobStepFits, LeaseStepFits, ClaimStepFits DEF RepoNext

\* No created job has an attempt.
LEMMA InitMatches == RepoInit => AttemptMatchesJob
BY DEF RepoInit, FreshJob, AttemptMatchesJob, LatestIs, Attempted

\* The job row and the row of its latest attempt, which different statements of the
\* repository's transactions write, agree after every transaction.
THEOREM AttemptsMatch == RepoSpec => []AttemptMatchesJob
<1>1. RepoInit => RepoTypeOK /\ AttemptMatchesJob
    BY InitTyped, InitMatches
<1>2. RepoTypeOK /\ AttemptMatchesJob /\ [RepoNext]_repoVars
         => (RepoTypeOK /\ AttemptMatchesJob)'
    BY NextTyped, NextMatches
<1> QED
    BY <1>1, <1>2, PTL DEF RepoSpec

-----------------------------------------------------------------------------
(* No silent resend.  The invariant needs two more facts of a job's attempts:      *)
(* only a reserved one is not started, and once a review or a fallback was         *)
(* attempted nothing else follows it.                                              *)

NotStartedIsReserved(rows) ==
    \A o \in DOMAIN rows : rows[o].disposition = "not_started" => rows[o].status = "reserved"

ContinuationsStay(rows) ==
    \A b \in DOMAIN rows : \A a \in 1..(b - 1) :
        rows[a].kind \in ContinuationKinds => rows[b].kind \in ContinuationKinds

\* NoSilentResend for the attempts of one job.
ResendsApproved(rows) ==
    \A b \in DOMAIN rows : \A a \in 1..(b - 1) :
        MaybeTransmitted(rows[a]) /\ rows[a].kind = rows[b].kind
          => /\ rows[b].retryOf \in a..(b - 1)
             /\ rows[rows[b].retryOf].approval = "consumed"

Accounted(rows) ==
    NotStartedIsReserved(rows) /\ ContinuationsStay(rows) /\ ResendsApproved(rows)

\* A step that rewrites the latest row at most cannot unsettle an earlier one.
LEMMA KeepingAccounts ==
    ASSUME RepoTypeOK, RepoTypeOK', NEW k \in Jobs, KeepsRows(k), Accounted(attempts[k])
    PROVE  Accounted(attempts'[k])
<1> DEFINE old == attempts[k]
           new == attempts'[k]
           n == Len(attempts[k])
<1>1. /\ old \in Seq(AttemptRow) /\ new \in Seq(AttemptRow)
      /\ n \in Nat /\ DOMAIN old = 1..n /\ DOMAIN new = 1..n
    BY DEF RepoTypeOK, KeepsRows
<1>2. \A o \in 1..n : /\ o < n => new[o] = old[o]
                      /\ KeepsRow(old[o], new[o])
    BY <1>1 DEF KeepsRows
<1> HIDE DEF old, new, n
<1>3. NotStartedIsReserved(new)
    BY <1>1, <1>2 DEF KeepsRow, Accounted, NotStartedIsReserved, old
<1>4. ContinuationsStay(new)
    BY <1>1, <1>2 DEF KeepsRow, Accounted, ContinuationsStay, old
<1>5. ASSUME NEW b \in 1..n, NEW a \in 1..(b - 1),
             MaybeTransmitted(new[a]), new[a].kind = new[b].kind
      PROVE  new[b].retryOf \in a..(b - 1) /\ new[new[b].retryOf].approval = "consumed"
    <2>1. a \in 1..n /\ a < n /\ new[a] = old[a] /\ old[a].kind = old[b].kind
        BY <1>1, <1>2, <1>5 DEF KeepsRow
    <2>2. old[b].retryOf \in a..(b - 1) /\ old[old[b].retryOf].approval = "consumed"
        BY <1>1, <1>5, <2>1 DEF Accounted, ResendsApproved, old
    <2>3. new[b].retryOf = old[b].retryOf
        BY <1>2 DEF KeepsRow
    <2>4. old[b].retryOf \in 1..n /\ old[b].retryOf < n
        BY <1>1, <2>2
    <2> QED
        BY <1>2, <2>2, <2>3, <2>4
<1> QED
    BY <1>1, <1>3, <1>4, <1>5 DEF Accounted, ResendsApproved, new

\* Spending an approval changes nothing else of the attempts before the new one.
LEMMA ConsumedRows ==
    ASSUME RepoTypeOK, NEW k \in Jobs, NEW kind \in Kinds
    PROVE  /\ DOMAIN Consumed(k, kind) = DOMAIN attempts[k]
           /\ \A o \in DOMAIN attempts[k] :
                 /\ Consumed(k, kind)[o].kind = attempts[k][o].kind
                 /\ Consumed(k, kind)[o].status = attempts[k][o].status
                 /\ Consumed(k, kind)[o].disposition = attempts[k][o].disposition
                 /\ Consumed(k, kind)[o].retryOf = attempts[k][o].retryOf
                 /\ attempts[k][o].approval = "consumed" =>
                       Consumed(k, kind)[o].approval = "consumed"
           /\ ResendsUncertain(k, kind) =>
                 Consumed(k, kind)[Len(attempts[k])].approval = "consumed"
<1>1. CASE ResendsUncertain(k, kind)
    <2>1. Attempted(k) /\ Latest(k) \in AttemptRow /\ Latest(k).approval = "open"
        BY <1>1, LatestTyped DEF ResendsUncertain, RepoTypeOK
    <2> DEFINE row == Spent(Latest(k))
    <2>2. /\ row.kind = Latest(k).kind /\ row.status = Latest(k).status
          /\ row.disposition = Latest(k).disposition /\ row.retryOf = Latest(k).retryOf
          /\ row.approval = "consumed"
        BY <2>1 DEF Spent, AttemptRow
    <2>3. Consumed(k, kind) = [attempts[k] EXCEPT ![Len(attempts[k])] = row]
        BY <1>1 DEF Consumed, Latest
    <2>4. Len(attempts[k]) \in DOMAIN attempts[k]
        BY <2>1, LatestTyped DEF RepoTypeOK
    <2> HIDE DEF row
    <2> QED
        BY <2>2, <2>3, <2>4 DEF Latest
<1>2. CASE ~ResendsUncertain(k, kind)
    BY <1>2 DEF Consumed
<1> QED
    BY <1>1, <1>2

\* The attempt a step appends is a first call, or repeats what was not sent, or repeats
\* what was perhaps sent and spends its approval, or is the one continuation.
LEMMA AppendingAccounts ==
    ASSUME RepoTypeOK, RepoTypeOK', AttemptMatchesJob,
           NEW k \in Jobs, AppendsRow(k), Accounted(attempts[k])
    PROVE  Accounted(attempts'[k])
<1> PICK kind \in Kinds : /\ KindAllowed(k, kind)
                          /\ job[k].status \in {"claimed", "returned", "validated"}
                          /\ attempts'[k] = Append(Consumed(k, kind), Reserved(k, kind))
    BY DEF AppendsRow
<1> DEFINE old == attempts[k]
           new == attempts'[k]
           n == Len(attempts[k])
<1>1. /\ old \in Seq(AttemptRow) /\ n \in Nat /\ DOMAIN old = 1..n
      /\ Len(Consumed(k, kind)) = n /\ Consumed(k, kind) \in Seq(AttemptRow)
    BY ReservedTyped DEF RepoTypeOK
<1>2. /\ DOMAIN new = 1..(n + 1) /\ new[n + 1] = Reserved(k, kind)
      /\ \A o \in 1..n : new[o] = Consumed(k, kind)[o]
    BY <1>1
<1>3. \A o \in 1..n : /\ new[o].kind = old[o].kind
                      /\ new[o].status = old[o].status
                      /\ new[o].disposition = old[o].disposition
                      /\ new[o].retryOf = old[o].retryOf
                      /\ old[o].approval = "consumed" => new[o].approval = "consumed"
    BY <1>1, <1>2, ConsumedRows
<1>4. /\ new[n + 1].kind = kind /\ new[n + 1].status = "reserved"
      /\ new[n + 1].retryOf = RetryOf(k, kind)
    BY <1>2 DEF Reserved
<1>5. /\ NotStartedIsReserved(old) /\ ContinuationsStay(old) /\ ResendsApproved(old)
    BY DEF Accounted
<1>6. n # 0 => Latest(k) = old[n]
    BY DEF Latest
<1>7. Attempted(k) <=> n # 0
    BY <1>1 DEF Attempted
<1>8. n # 0 => old[n].status # "reserved"
    BY <1>7 DEF AttemptMatchesJob, LatestIs, Latest
<1>9. ResendsUncertain(k, kind) => new[n].approval = "consumed" /\ n # 0
    BY <1>1, <1>2, <1>7, ConsumedRows DEF ResendsUncertain
<1> HIDE DEF old, new, n
<1>10. NotStartedIsReserved(new)
    BY <1>1, <1>2, <1>3, <1>4, <1>5 DEF NotStartedIsReserved
<1>11. ASSUME NEW a \in 1..n, old[a].kind \in ContinuationKinds
       PROVE  old[n].kind \in ContinuationKinds /\ kind \in ContinuationKinds
    <2>1. n # 0 /\ n \in 1..n
        BY <1>1
    <2>2. old[n].kind \in ContinuationKinds
        BY <1>1, <1>5, <1>11, <2>1 DEF ContinuationsStay
    <2>3. kind = old[n].kind \/ kind \in ContinuationKinds
        BY <1>6, <1>7, <2>1 DEF KindAllowed, FirstCall, ResendsUnsent, ResendsUncertain, Continues
    <2> QED
        BY <2>2, <2>3
<1>12. ContinuationsStay(new)
    <2> SUFFICES ASSUME NEW b \in 1..(n + 1), NEW a \in 1..(b - 1),
                        new[a].kind \in ContinuationKinds
                 PROVE  new[b].kind \in ContinuationKinds
        BY <1>2 DEF ContinuationsStay
    <2>1. a \in 1..n /\ old[a].kind \in ContinuationKinds
        BY <1>1, <1>3
    <2>2. CASE b = n + 1
        BY <1>4, <1>11, <2>1, <2>2
    <2>3. CASE b # n + 1
        <3>1. b \in 1..n
            BY <1>1, <2>3
        <3>2. old[b].kind \in ContinuationKinds
            BY <1>1, <1>5, <2>1, <3>1 DEF ContinuationsStay
        <3> QED
            BY <1>3, <3>1, <3>2
    <2> QED
        BY <2>2, <2>3
<1>13. ASSUME NEW a \in 1..n, MaybeTransmitted(old[a]), old[a].kind = kind
       PROVE  new[n + 1].retryOf \in a..n /\ new[new[n + 1].retryOf].approval = "consumed"
    <2>1. n # 0 /\ n \in 1..n /\ Latest(k) = old[n] /\ Attempted(k)
        BY <1>1, <1>6, <1>7
    <2>2. CASE ResendsUnsent(k, kind)
        <3>1. old[n].disposition = "definitely_not_transmitted" /\ old[n].kind = kind
            BY <2>1, <2>2 DEF ResendsUnsent
        <3>2. a # n
            BY <1>13, <3>1 DEF MaybeTransmitted
        <3>3. a \in 1..(n - 1)
            BY <1>1, <3>2
        <3>4. old[n].retryOf \in a..(n - 1) /\ old[old[n].retryOf].approval = "consumed"
            BY <1>1, <1>5, <1>13, <2>1, <3>1, <3>3 DEF ResendsApproved
        <3>5. new[n + 1].retryOf = old[n].retryOf
            BY <1>4, <2>1, <2>2 DEF RetryOf
        <3>6. old[n].retryOf \in 1..n
            BY <1>1, <3>4
        <3> QED
            BY <1>1, <1>3, <3>4, <3>5, <3>6
    <2>3. CASE ResendsUncertain(k, kind)
        <3>1. new[n + 1].retryOf = n
            BY <1>4, <2>3 DEF RetryOf, ResendsUnsent, ResendsUncertain, n
        <3> QED
            BY <1>1, <1>9, <2>3, <3>1
    <2>4. CASE Continues(k, kind)
        <3>1. /\ old[n].disposition \notin {"definitely_not_transmitted", "indeterminate"}
              /\ kind \in ContinuationKinds
              /\ ~(old[n].kind \in ContinuationKinds /\ Transmitted(old[n]))
            BY <1>1, <2>1, <2>4 DEF Continues, Uncertain, old
        <3>2. old[n].disposition = "transmitted"
            <4>1. old[n].disposition \in Disposition
                <5>1. Latest(k) \in AttemptRow
                    BY <2>1, LatestTyped DEF RepoTypeOK
                <5> QED
                    BY <2>1, <5>1 DEF AttemptRow
            <4>2. old[n].disposition # "not_started"
                BY <1>1, <1>5, <1>8, <2>1 DEF NotStartedIsReserved
            <4> QED
                BY <3>1, <4>1, <4>2 DEF Disposition
        <3>3. old[n].kind \notin ContinuationKinds
            BY <3>1, <3>2 DEF Transmitted
        <3> QED
            BY <1>11, <1>13, <3>1, <3>3
    <2> QED
        BY <2>1, <2>2, <2>3, <2>4 DEF KindAllowed, FirstCall
<1>14. ResendsApproved(new)
    <2> SUFFICES ASSUME NEW b \in 1..(n + 1), NEW a \in 1..(b - 1),
                        MaybeTransmitted(new[a]), new[a].kind = new[b].kind
                 PROVE  /\ new[b].retryOf \in a..(b - 1)
                        /\ new[new[b].retryOf].approval = "consumed"
        BY <1>2 DEF ResendsApproved
    <2>1. a \in 1..n /\ MaybeTransmitted(old[a]) /\ old[a].kind = new[b].kind
        BY <1>1, <1>3 DEF MaybeTransmitted
    <2>2. CASE b = n + 1
        BY <1>1, <1>4, <1>13, <2>1, <2>2
    <2>3. CASE b # n + 1
        <3>1. b \in 1..n
            BY <1>1, <2>3
        <3>2. old[b].retryOf \in a..(b - 1) /\ old[old[b].retryOf].approval = "consumed"
            BY <1>1, <1>3, <1>5, <2>1, <3>1 DEF ResendsApproved
        <3>3. old[b].retryOf \in 1..n
            BY <1>1, <3>1, <3>2
        <3> QED
            BY <1>3, <3>1, <3>2, <3>3
    <2> QED
        BY <2>2, <2>3
<1> QED
    BY <1>10, <1>12, <1>14 DEF Accounted, new

\* The inductive invariant.
AccountInv == /\ RepoTypeOK
              /\ AttemptMatchesJob
              /\ \A k \in Jobs : Accounted(attempts[k])

\* The created jobs, without attempts, are accounted for.
LEMMA InitAccounts == RepoInit => AccountInv
<1> SUFFICES ASSUME RepoInit PROVE \A k \in Jobs : Accounted(attempts[k])
    BY InitTyped, InitMatches DEF AccountInv
<1> QED
    BY DEF RepoInit, Accounted, NotStartedIsReserved, ContinuationsStay, ResendsApproved

\* The strengthened invariant is inductive.
LEMMA NextAccounts == AccountInv /\ [RepoNext]_repoVars => AccountInv'
<1> SUFFICES ASSUME AccountInv, [RepoNext]_repoVars PROVE AccountInv'
    OBVIOUS
<1>1. RepoTypeOK /\ RepoTypeOK' /\ AttemptMatchesJob /\ AttemptMatchesJob'
    BY NextTyped, NextMatches DEF AccountInv
<1>2. ASSUME NEW k \in Jobs PROVE Accounted(attempts'[k])
    BY <1>1, StepShape, KeepingAccounts, AppendingAccounts DEF AccountInv
<1> QED
    BY <1>1, <1>2 DEF AccountInv

\* A call that was or may have been transmitted is repeated only under a spent retry
\* approval, whatever calls the repository's clients make and in whatever order.
THEOREM ResendsAreApproved == RepoSpec => []NoSilentResend
<1>1. AccountInv => NoSilentResend
    BY DEF AccountInv, Accounted, ResendsApproved, NoSilentResend
<1> QED
    BY <1>1, InitAccounts, NextAccounts, PTL DEF RepoSpec
=============================================================================
