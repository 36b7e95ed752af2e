----------------------- MODULE StoryMapLedger_proofs -----------------------
(***************************************************************************)
(* More proofs about the durable repository under its most general client. *)
(*                                                                         *)
(* A step moves each job row in one of a few ways (Moves) and adds at most *)
(* one attempt (AppendsRow, in StoryMapRepository_proofs).  From that      *)
(* follow, in this order: cancellation is final; accepted results are the  *)
(* cached ones; approvals are spent once; reservations stay within the     *)
(* ceilings; claimed slots stay within the limit; the status of a run is   *)
(* the one its jobs imply; and the repository implements CallLedger.       *)
(***************************************************************************)
EXTENDS StoryMapRepository_proofs, FiniteSetTheorems

-----------------------------------------------------------------------------
(* The ways a job row moves.  Every transaction moves the row of every job in one  *)
(* of them; lease, continuation and attempts are left open.                        *)

SameOutcome(a, b) == b.resolution = a.resolution /\ b.result = a.result /\ b.key = a.key

Stays(a, b) == b.status = a.status /\ SameOutcome(a, b)

\* Work that goes on, is given up, is repeated or is answered from the cache.
Working == {"pending", "claimed", "reserved", "submitting", "failed", "cancelled",
            "indeterminate", "cached"}
Works(a, b, open) ==
    /\ a.status \notin {"finalized", "published"} /\ b.status \in Working
    /\ b.resolution \in {a.resolution, "none"}
    /\ b.status = "submitting" => open \/ a.status = "submitting"

\* The answer of the call on the wire.
Returns(k, a, b) == /\ a.status = "submitting" /\ b.status = "returned"
                    /\ SameOutcome(a, b)
                    /\ attempts'[k][Len(attempts[k])].disposition = "transmitted"

Reopens(a, b) == /\ a.status = "finalized" /\ a.resolution = "resumable"
                 /\ b.status = "pending" /\ b.resolution = "none"

Defers(a, b) == /\ a.status \in {"pending", "reserved", "submitting"}
                /\ b.status = "finalized" /\ b.resolution = "resumable"

Validates(a, b, open) == /\ open
                         /\ a.status \in {"claimed", "returned", "validated"}
                         /\ b.status = "validated" /\ b.resolution = a.resolution
                         /\ b.result \in Results /\ b.key \in Keys

Stores(a, b, open) == /\ open
                      /\ a.status \in {"validated", "cache_stored"}
                      /\ b.status = "cache_stored" /\ SameOutcome(a, b)
                      /\ cache' = [cache EXCEPT ![a.key] = a.result]

Finalizes(a, b) == /\ b.result = a.result /\ b.key = a.key
                   /\ a.status \in {"claimed", "returned", "validated", "cache_stored",
                                    "indeterminate", "cancelled"}
                   /\ b.status \in {"finalized", "indeterminate", "cancelled"}
                   /\ b.resolution = "accepted" =>
                         a.status = "cache_stored" /\ b.status = "finalized"

Publishes(k, a, b, open) == /\ open
                            /\ a.status \in {"finalized", "published"}
                            /\ a.resolution \in {"accepted", "structural"}
                            /\ b.status = "published" /\ SameOutcome(a, b)
                            /\ published[k] \in {NoResult, published'[k]}
                            /\ a.resolution = "accepted" => published'[k] = a.result

Succeeds(a, b, open) == /\ open
                        /\ a.status = "submitting" /\ b.status = "succeeded"
                        /\ b.resolution = a.resolution

RowMoves(k, a, b, open) ==
    \/ /\ published'[k] = published[k]
       /\ \/ Stays(a, b) \/ Works(a, b, open) \/ Returns(k, a, b)
          \/ Reopens(a, b) \/ Defers(a, b)
          \/ Validates(a, b, open) \/ Stores(a, b, open) \/ Finalizes(a, b)
          \/ Succeeds(a, b, open)
    \/ Publishes(k, a, b, open)

Moves(k) == RowMoves(k, job[k], job'[k], ~Cancelled(k))

\* A row that stands still stays.
LEMMA SameStays ==
    ASSUME NEW k \in Jobs, job'[k] = job[k], published'[k] = published[k]
    PROVE  Moves(k)
BY DEF Moves, RowMoves, Stays, SameOutcome

\* The fields of a row that is moved to another status.
LEMMA MovedRow ==
    ASSUME NEW row \in JobRow, NEW s
    PROVE  /\ [row EXCEPT !.status = s].status = s
           /\ SameOutcome(row, [row EXCEPT !.status = s])
           /\ [Unleased(row) EXCEPT !.status = s].status = s
           /\ SameOutcome(row, [Unleased(row) EXCEPT !.status = s])
           /\ \A x : /\ [Unleased(row) EXCEPT !.status = s, !.resolution = x].status = s
                     /\ [Unleased(row) EXCEPT !.status = s, !.resolution = x].resolution = x
                     /\ [Unleased(row) EXCEPT !.status = s, !.resolution = x].result = row.result
                     /\ [Unleased(row) EXCEPT !.status = s, !.resolution = x].key = row.key
                     /\ [row EXCEPT !.status = s, !.resolution = x].status = s
                     /\ [row EXCEPT !.status = s, !.resolution = x].resolution = x
                     /\ [row EXCEPT !.status = s, !.resolution = x].result = row.result
                     /\ [row EXCEPT !.status = s, !.resolution = x].key = row.key
           /\ \A x : /\ [Unleased(row) EXCEPT !.status = s, !.result = x].status = s
                     /\ [Unleased(row) EXCEPT !.status = s, !.result = x].resolution
                           = row.resolution
                     /\ [row EXCEPT !.status = s, !.result = x].status = s
                     /\ [row EXCEPT !.status = s, !.result = x].resolution = row.resolution
BY DEF SameOutcome, Unleased, JobRow

\* A job is moved by the row it gets.
LEMMA RowsMove ==
    ASSUME NEW k \in Jobs, NEW row, job'[k] = row, published'[k] = published[k],
           \/ Stays(job[k], row) \/ Works(job[k], row, ~Cancelled(k))
           \/ Returns(k, job[k], row) \/ Reopens(job[k], row) \/ Defers(job[k], row)
           \/ Validates(job[k], row, ~Cancelled(k))
           \/ Stores(job[k], row, ~Cancelled(k)) \/ Finalizes(job[k], row)
           \/ Succeeds(job[k], row, ~Cancelled(k))
    PROVE  Moves(k)
BY DEF Moves, RowMoves

\* A step that writes one row moves that row and leaves the others.
LEMMA OneRowMoves ==
    ASSUME job \in [Jobs -> JobRow], NEW j \in Jobs, NEW k \in Jobs,
           NEW row, job' = [job EXCEPT ![j] = row], published' = published,
           \/ Stays(job[j], row) \/ Works(job[j], row, ~Cancelled(j))
           \/ Returns(j, job[j], row) \/ Reopens(job[j], row) \/ Defers(job[j], row)
           \/ Validates(job[j], row, ~Cancelled(j))
           \/ Stores(job[j], row, ~Cancelled(j)) \/ Finalizes(job[j], row)
           \/ Succeeds(job[j], row, ~Cancelled(j))
    PROVE  Moves(k)
<1>1. CASE k # j
    BY <1>1, SameStays
<1>2. CASE k = j
    BY <1>2, RowsMove
<1> QED
    BY <1>1, <1>2

\* A recovered slot is work that is given up or starts again.
LEMMA RecoveredWorks ==
    ASSUME RepoTypeOK, NEW k \in Jobs, NEW due, \A j \in due : job[j].status \in SlotStatus
    PROVE  \/ JobsAfter(due)[k] = job[k]
           \/ /\ job[k].status \in SlotStatus
              /\ JobsAfter(due)[k].status \in {"pending", "cancelled", "indeterminate"}
              /\ SameOutcome(job[k], JobsAfter(due)[k])
<1>1. job[k] \in JobRow
    BY DEF RepoTypeOK
<1>2. PICK st \in {"pending", "cancelled", "indeterminate"} :
         RecoveredJob(k) = [Unleased(job[k]) EXCEPT !.status = st]
    BY Zenon DEF RecoveredJob
<1>3. /\ RecoveredJob(k).status = st
      /\ SameOutcome(job[k], RecoveredJob(k))
    BY <1>1, <1>2, MovedRow DEF SameOutcome, Unleased, JobRow
<1> QED
    BY <1>3 DEF JobsAfter

\* The transactions on a run move rows.
LEMMA RunStepMoves ==
    ASSUME RepoTypeOK, NEW r \in Runs, RunStep(r), NEW k \in Jobs
    PROVE  Moves(k)
<1>1. job[k] \in JobRow
    BY DEF RepoTypeOK
<1>2. published' = published
    BY DEF RunStep, StoreRunApproval, CancelRun, RecoverRun, ActivateResumableJobs
<1>3. CASE StoreRunApproval(r)
    BY <1>2, <1>3, SameStays DEF StoreRunApproval
<1>4. CASE CancelRun(r)
    <2>1. \/ job'[k] = job[k]
          \/ /\ job[k].status \in {"pending", "claimed"}
             /\ job'[k] = [Unleased(job[k]) EXCEPT !.status = "cancelled"]
        BY <1>4 DEF CancelRun
    <2>2. job[k].status \in {"pending", "claimed"} =>
             Works(job[k], [Unleased(job[k]) EXCEPT !.status = "cancelled"], ~Cancelled(k))
        BY <1>1, MovedRow DEF Works, Working, SameOutcome
    <2> QED
        BY <1>2, <2>1, <2>2, SameStays, RowsMove
<1>5. CASE RecoverRun(r)
    <2>1. CASE k \in Lost(r)
        <3>1. /\ job[k].status = "returned"
              /\ job'[k] = [Unleased(job[k]) EXCEPT !.status = "indeterminate"]
            BY <1>5, <2>1 DEF RecoverRun, Lost
        <3>2. Works(job[k], [Unleased(job[k]) EXCEPT !.status = "indeterminate"],
                    ~Cancelled(k))
            BY <1>1, <3>1, MovedRow DEF Works, Working, SameOutcome
        <3> QED
            BY <1>2, <3>1, <3>2, RowsMove
    <2>2. CASE k \notin Lost(r)
        <3>1. job'[k] = JobsAfter(DueInRun(r))[k]
            BY <1>5, <2>2 DEF RecoverRun
        <3>2. \A j \in DueInRun(r) : job[j].status \in SlotStatus
            BY DEF DueInRun, DueNow
        <3>3. job'[k] = job[k] \/ Works(job[k], job'[k], ~Cancelled(k))
            BY <3>1, <3>2, RecoveredWorks DEF Works, Working, SameOutcome, SlotStatus
        <3> QED
            BY <1>2, <3>3, RowsMove, SameStays
    <2> QED
        BY <2>1, <2>2
<1>6. CASE ActivateResumableJobs(r)
    <2>1. \/ job'[k] = job[k]
          \/ /\ job[k].status = "finalized" /\ job[k].resolution = "resumable"
             /\ job'[k] = [job[k] EXCEPT !.status = "pending", !.resolution = "none"]
        BY <1>6 DEF ActivateResumableJobs
    <2>2. [job[k] EXCEPT !.status = "pending", !.resolution = "none"].status = "pending"
        BY <1>1 DEF JobRow
    <2>3. [job[k] EXCEPT !.status = "pending", !.resolution = "none"].resolution = "none"
        BY <1>1 DEF JobRow
    <2> QED
        BY <1>2, <2>1, <2>2, <2>3, SameStays, RowsMove DEF Reopens
<1> QED
    BY <1>3, <1>4, <1>5, <1>6 DEF RunStep

\* The transactions on a job without a lease move rows.
LEMMA JobStepMoves ==
    ASSUME RepoTypeOK, NEW j \in Jobs, JobStep(j), NEW k \in Jobs
    PROVE  Moves(k)
<1>1. job[j] \in JobRow /\ job \in [Jobs -> JobRow]
    BY DEF RepoTypeOK
<1>3. CASE StoreRetryApproval(j)
    <2>1. /\ published' = published /\ job[j].status = "indeterminate"
          /\ job' = [job EXCEPT ![j] = [job[j] EXCEPT !.status = "pending",
                                                      !.resolution = "none"]]
        BY <1>1, <1>3 DEF StoreRetryApproval
    <2>2. Works(job[j], [job[j] EXCEPT !.status = "pending", !.resolution = "none"],
                ~Cancelled(j))
        BY <1>1, <2>1, MovedRow DEF Works, Working
    <2> QED
        BY <1>1, <2>1, <2>2, OneRowMoves
<1>4. CASE RegisterJob(j)
    <2>1. /\ published' = published /\ job[j].status = "absent"
          /\ job' = [job EXCEPT ![j] = FreshJob("pending")]
        BY <1>4 DEF RegisterJob
    <2>2. Works(job[j], FreshJob("pending"), ~Cancelled(j))
        BY <2>1 DEF Works, Working, FreshJob
    <2> QED
        BY <1>1, <2>1, <2>2, OneRowMoves
<1>5. CASE ExpireLease(j)
    <2>1. /\ published' = published
          /\ job' = [job EXCEPT ![j] = [job[j] EXCEPT !.expired = TRUE]]
        BY <1>5 DEF ExpireLease
    <2>2. Stays(job[j], [job[j] EXCEPT !.expired = TRUE])
        BY <1>1 DEF Stays, SameOutcome, JobRow
    <2> QED
        BY <1>1, <2>1, <2>2, OneRowMoves
<1>6. CASE StoreCache(j)
    <2>1. /\ published' = published /\ ~Cancelled(j)
          /\ job[j].status \in {"validated", "cache_stored"}
          /\ cache' = [cache EXCEPT ![job[j].key] = job[j].result]
          /\ job' = [job EXCEPT ![j] = [job[j] EXCEPT !.status = "cache_stored"]]
        BY <1>6 DEF StoreCache, MayStore
    <2>2. Stores(job[j], [job[j] EXCEPT !.status = "cache_stored"], ~Cancelled(j))
        BY <1>1, <2>1, MovedRow DEF Stores, SameOutcome, JobRow
    <2> QED
        BY <1>1, <2>1, <2>2, OneRowMoves
<1>7. CASE DeferResumableJob(j)
    <2>1. /\ published' = published /\ job[j].status = "pending"
          /\ job' = [job EXCEPT ![j] = [job[j] EXCEPT !.status = "finalized",
                                                      !.resolution = "resumable"]]
        BY <1>7 DEF DeferResumableJob, MayDefer
    <2>2. Defers(job[j], [job[j] EXCEPT !.status = "finalized", !.resolution = "resumable"])
        BY <1>1, <2>1, MovedRow DEF Defers
    <2> QED
        BY <1>1, <2>1, <2>2, OneRowMoves
<1>8. ASSUME NEW res \in Resolution, FinalizeJob(j, res)
      PROVE  Moves(k)
    <2> DEFINE st == FinalizedStatus(res)
               row == [Unleased(job[j]) EXCEPT !.status = st, !.resolution = res]
    <2>1. /\ published' = published
          /\ job[j].status \in {"claimed", "returned", "validated", "cache_stored",
                                "indeterminate", "cancelled"}
          /\ res = "accepted" => job[j].status = "cache_stored"
          /\ job' = [job EXCEPT ![j] = row]
        BY <1>8 DEF FinalizeJob, MayFinalize
    <2>2. /\ st \in {"finalized", "indeterminate", "cancelled"}
          /\ res = "accepted" => st = "finalized"
        BY DEF FinalizedStatus, Resolution
    <2> HIDE DEF st
    <2>3. row.status = st /\ row.resolution = res /\ row.result = job[j].result
          /\ row.key = job[j].key
        BY <1>1 DEF Unleased, JobRow
    <2> HIDE DEF row
    <2>4. Finalizes(job[j], row)
        BY <2>1, <2>2, <2>3 DEF Finalizes
    <2> QED
        BY <1>1, <2>1, <2>4, OneRowMoves
<1>9. ASSUME NEW c, RecordContinuation(j, c)
      PROVE  Moves(k)
    <2> DEFINE row == [job[j] EXCEPT !.cont = c, !.contAt = Len(attempts[j])]
    <2>1. published' = published /\ job' = [job EXCEPT ![j] = row]
        BY <1>9, <1>1 DEF RecordContinuation
    <2>2. Stays(job[j], row)
        BY <1>1 DEF Stays, SameOutcome, JobRow
    <2> QED
        BY <1>1, <2>1, <2>2, OneRowMoves
<1>10. ASSUME NEW result, PublishJob(j, result)
       PROVE  Moves(k)
    <2>1. /\ ~Cancelled(j) /\ job[j].status \in {"finalized", "published"}
          /\ job[j].resolution \in {"accepted", "structural"}
          /\ job[j].resolution = "accepted" => job[j].result = result
          /\ published[j] \in {NoResult, result}
          /\ published' = [published EXCEPT ![j] = result]
          /\ job' = [job EXCEPT ![j] = [job[j] EXCEPT !.status = "published"]]
        BY <1>10 DEF PublishJob, MayPublish
    <2>2. CASE k # j
        BY <1>1, <2>1, <2>2, SameStays
    <2>3. CASE k = j
        <3>1. published'[j] = result /\ job'[j] = [job[j] EXCEPT !.status = "published"]
            BY <1>1, <2>1 DEF RepoTypeOK
        <3>2. job'[j].status = "published" /\ SameOutcome(job[j], job'[j])
            BY <1>1, <3>1, MovedRow DEF SameOutcome, JobRow
        <3>3. Publishes(j, job[j], job'[j], ~Cancelled(j))
            BY <2>1, <3>1, <3>2 DEF Publishes
        <3> QED
            BY <2>3, <3>3 DEF Moves, RowMoves
    <2> QED
        BY <2>2, <2>3
<1>11. ASSUME NEW o, NEW result \in Results, NEW key \in Keys,
              RecordValidated(j, o, result, key)
       PROVE  Moves(k)
    <2> DEFINE row == [job[j] EXCEPT !.status = "validated", !.result = result, !.key = key]
    <2>1. /\ published' = published /\ ~Cancelled(j)
          /\ \/ /\ job[j].status \in {"claimed", "returned", "validated"}
                /\ job' = [job EXCEPT ![j] = row]
             \/ job' = [job EXCEPT ![j] = job[j]]
        BY <1>11 DEF RecordValidated, MayRecord
    <2>2. job[j].status \in {"claimed", "returned", "validated"} =>
             Validates(job[j], row, ~Cancelled(j))
        BY <1>1, <2>1 DEF Validates, JobRow
    <2>3. Stays(job[j], job[j])
        BY DEF Stays, SameOutcome
    <2> HIDE DEF row
    <2> QED
        BY <1>1, <2>1, <2>2, <2>3, OneRowMoves
<1> QED
    BY <1>3, <1>4, <1>5, <1>6, <1>7, <1>8, <1>9, <1>10, <1>11 DEF JobStep

\* The transactions of a claim holder move rows.
LEMMA LeaseStepMoves ==
    ASSUME RepoTypeOK, NEW w \in Tokens, NEW j \in Jobs, LeaseStep(w, j), NEW k \in Jobs
    PROVE  Moves(k)
<1>1. job[j] \in JobRow /\ job \in [Jobs -> JobRow]
    BY DEF RepoTypeOK
<1>2. published' = published
    BY DEF LeaseStep, ReclaimJob, ReleaseClaim, MarkTransmitting, ReserveAttempt,
           CompleteAttempt, FinalizeSuccess, FinalizeFailure
<1>3. CASE ReclaimJob(w, j)
    <2>1. job' = [job EXCEPT ![j] = Leased(job[j], w)]
        BY <1>3 DEF ReclaimJob
    <2>2. Stays(job[j], Leased(job[j], w))
        BY <1>1 DEF Stays, SameOutcome, Leased, JobRow
    <2> QED
        BY <1>1, <1>2, <2>1, <2>2, OneRowMoves
<1>4. CASE ReleaseClaim(w, j)
    <2>1. job' = [job EXCEPT ![j] = Released(job[j])]
        BY <1>4 DEF ReleaseClaim
    <2>2. CASE job[j].status = "claimed"
        <3>1. Released(job[j]) = [Unleased(job[j]) EXCEPT !.status = "pending"]
            BY <2>2 DEF Released
        <3>2. Works(job[j], Released(job[j]), ~Cancelled(j))
            BY <1>1, <2>2, <3>1, MovedRow DEF Works, Working, SameOutcome
        <3> QED
            BY <1>1, <1>2, <2>1, <3>2, OneRowMoves
    <2>3. CASE job[j].status # "claimed"
        <3>1. Released(job[j]) = [Unleased(job[j]) EXCEPT !.status = job[j].status]
            BY <2>3 DEF Released
        <3>2. Stays(job[j], Released(job[j]))
            BY <1>1, <3>1, MovedRow DEF Stays, SameOutcome, Unleased, JobRow
        <3> QED
            BY <1>1, <1>2, <2>1, <3>2, OneRowMoves
    <2> QED
        BY <2>2, <2>3
<1>5. CASE MarkTransmitting(w, j)
    <2>1. /\ job' = [job EXCEPT ![j] = [job[j] EXCEPT !.status = "submitting"]]
          /\ ~Cancelled(j) /\ job[j].status = "reserved"
        BY <1>5 DEF MarkTransmitting, MayMark, HoldsClaim
    <2>2. Works(job[j], [job[j] EXCEPT !.status = "submitting"], ~Cancelled(j))
        BY <1>1, <2>1, MovedRow DEF Works, Working, SameOutcome
    <2> QED
        BY <1>1, <1>2, <2>1, <2>2, OneRowMoves
<1>6. ASSUME NEW kind, ReserveAttempt(w, j, kind)
      PROVE  Moves(k)
    <2>1. /\ job' = [job EXCEPT ![j] = [job[j] EXCEPT !.status = "reserved"]]
          /\ job[j].status \in {"claimed", "returned", "validated"}
        BY <1>6 DEF ReserveAttempt, CanReserve, HoldsClaim
    <2>2. Works(job[j], [job[j] EXCEPT !.status = "reserved"], ~Cancelled(j))
        BY <1>1, <2>1, MovedRow DEF Works, Working, SameOutcome
    <2> QED
        BY <1>1, <1>2, <2>1, <2>2, OneRowMoves
<1>7. ASSUME NEW d \in Disposition \ {"not_started"}, NEW response, NEW defer,
             NEW calls, NEW u, CompleteAttempt(w, j, d, response, calls, u, defer)
      PROVE  Moves(k)
    <2>1. /\ job[j].status \in {"reserved", "submitting"} /\ Attempted(j)
          /\ d \in Disposition \ {"not_started"}
          /\ d # "definitely_not_transmitted" => job[j].status = "submitting"
          /\ attempts' = Settled(j, d, SettledStatus(d, response), calls, u)
        BY <1>7 DEF CompleteAttempt, Completable, LatestIs
    <2>2. PICK st \in {"cancelled", "finalized", "pending", "indeterminate", "returned"} :
             \/ /\ st = "returned" /\ d \notin {"definitely_not_transmitted", "indeterminate"}
                /\ job' = [job EXCEPT ![j] = [@ EXCEPT !.status = st]]
             \/ /\ st = "finalized"
                /\ job' = [job EXCEPT ![j] = [Unleased(@) EXCEPT !.status = st,
                                                                 !.resolution = "resumable"]]
             \/ /\ st \in {"cancelled", "pending", "indeterminate"}
                /\ job' = [job EXCEPT ![j] = [Unleased(@) EXCEPT !.status = st,
                                                                 !.resolution = "none"]]
        BY <1>7, Zenon DEF CompleteAttempt
    <2>3. d = "transmitted" =>
             Returns(j, job[j], [job[j] EXCEPT !.status = "returned"])
        <3>1. Latest(j) \in AttemptRow /\ Len(attempts[j]) \in DOMAIN attempts[j]
            BY <2>1, LatestTyped DEF RepoTypeOK
        <3>2. attempts'[j][Len(attempts[j])].disposition = d
            BY <2>1, <3>1 DEF Settled, WithLatest, AttemptRow, RepoTypeOK
        <3> QED
            BY <1>1, <2>1, <3>2, MovedRow DEF Returns, SameOutcome, JobRow
    <2>4. Defers(job[j], [Unleased(job[j]) EXCEPT !.status = "finalized",
                                                  !.resolution = "resumable"])
        BY <1>1, <2>1, MovedRow DEF Defers
    <2>5. st \in {"cancelled", "pending", "indeterminate"} =>
             Works(job[j], [Unleased(job[j]) EXCEPT !.status = st, !.resolution = "none"],
                   ~Cancelled(j))
        BY <1>1, <2>1, MovedRow DEF Works, Working
    <2>6. d \notin {"definitely_not_transmitted", "indeterminate"} => d = "transmitted"
        BY <2>1 DEF Disposition
    <2>7. \E row : /\ job' = [job EXCEPT ![j] = row]
                   /\ \/ Works(job[j], row, ~Cancelled(j)) \/ Defers(job[j], row)
                      \/ Returns(j, job[j], row)
        BY <2>2, <2>3, <2>4, <2>5, <2>6, <1>1
    <2> QED
        BY <1>1, <1>2, <2>7, OneRowMoves
<1>8. ASSUME NEW result, NEW u, FinalizeSuccess(w, j, result, u)
      PROVE  Moves(k)
    <2>1. /\ ~Cancelled(j) /\ job[j].status = "submitting"
          /\ job' = [job EXCEPT ![j] = [Unleased(job[j]) EXCEPT !.status = "succeeded",
                                                                !.result = result]]
        BY <1>8 DEF FinalizeSuccess, HoldsClaim
    <2>2. Succeeds(job[j], [Unleased(job[j]) EXCEPT !.status = "succeeded",
                                                    !.result = result], ~Cancelled(j))
        BY <1>1, <2>1, MovedRow DEF Succeeds, Unleased, JobRow
    <2> QED
        BY <1>1, <1>2, <2>1, <2>2, OneRowMoves
<1>9. ASSUME NEW d, NEW calls, NEW u, FinalizeFailure(w, j, d, calls, u)
      PROVE  Moves(k)
    <2>1. job[j].status \in {"reserved", "submitting"}
        BY <1>9 DEF FinalizeFailure, Completable
    <2>2. PICK st \in {"cancelled", "pending", "indeterminate", "failed"} :
             job' = [job EXCEPT ![j] = [Unleased(@) EXCEPT !.status = st]]
        BY <1>9, Zenon DEF FinalizeFailure
    <2>3. Works(job[j], [Unleased(job[j]) EXCEPT !.status = st], ~Cancelled(j))
        BY <1>1, <2>1, MovedRow DEF Works, Working, SameOutcome
    <2> QED
        BY <1>1, <1>2, <2>2, <2>3, OneRowMoves
<1> QED
    BY <1>3, <1>4, <1>5, <1>6, <1>7, <1>8, <1>9 DEF LeaseStep

\* A claim moves rows: recovered, answered from the cache, or leased.
LEMMA ClaimStepMoves ==
    ASSUME RepoTypeOK, NEW r \in Runs, NEW hits \in BOOLEAN, ClaimStep(r, hits), NEW k \in Jobs
    PROVE  Moves(k)
<1> DEFINE rows == JobsBeforeClaim(hits)
           open == ~Cancelled(k)
<1>1. /\ job \in [Jobs -> JobRow] /\ rows \in [Jobs -> JobRow]
      /\ JobsAfter(DueNow) \in [Jobs -> JobRow]
    BY AfterTyped, BeforeClaimTyped DEF RepoTypeOK
<1>2. published' = published
    BY DEF ClaimStep, ClaimNothing, ClaimNextJob
<1>3. \/ JobsAfter(DueNow)[k] = job[k]
      \/ /\ job[k].status \in SlotStatus
         /\ JobsAfter(DueNow)[k].status \in {"pending", "cancelled", "indeterminate"}
         /\ SameOutcome(job[k], JobsAfter(DueNow)[k])
    BY RecoveredWorks DEF DueNow
<1>4. \/ rows[k] = JobsAfter(DueNow)[k]
      \/ /\ JobsAfter(DueNow)[k].status = "pending"
         /\ rows[k].status = "cached" /\ rows[k].resolution = JobsAfter(DueNow)[k].resolution
    BY <1>1 DEF JobRow, JobsBeforeClaim, Materialized, CacheHits
<1> HIDE DEF rows
<1>5. rows[k] = job[k] \/ Works(job[k], rows[k], open)
    BY <1>3, <1>4 DEF Works, Working, SameOutcome, SlotStatus
<1>6. CASE ClaimNothing(r, hits)
    BY <1>2, <1>5, <1>6, SameStays, RowsMove DEF ClaimNothing, rows
<1>7. ASSUME NEW w \in Tokens, NEW j \in Jobs, ClaimNextJob(w, r, hits, j)
      PROVE  Moves(k)
    <2>1. \/ job' = [rows EXCEPT ![j] = Leased(rows[j], w)]
          \/ /\ job' = [rows EXCEPT ![j] = [Leased(rows[j], w) EXCEPT !.status = "claimed"]]
             /\ rows[j].status = "pending"
        BY <1>7, Zenon DEF ClaimNextJob, First, Startable, rows
    <2>2. /\ Leased(rows[j], w).status = rows[j].status
          /\ SameOutcome(rows[j], Leased(rows[j], w))
          /\ [Leased(rows[j], w) EXCEPT !.status = "claimed"].status = "claimed"
          /\ SameOutcome(rows[j], [Leased(rows[j], w) EXCEPT !.status = "claimed"])
        BY <1>1 DEF Leased, JobRow, SameOutcome
    <2>3. \/ job'[k] = rows[k]
          \/ job'[k].status = rows[k].status /\ SameOutcome(rows[k], job'[k])
          \/ /\ job'[k].status = "claimed" /\ rows[k].status = "pending"
             /\ SameOutcome(rows[k], job'[k])
        BY <1>1, <2>1, <2>2
    <2>4. Stays(job[k], job'[k]) \/ Works(job[k], job'[k], open)
        BY <1>5, <2>3 DEF Stays, Works, Working, SameOutcome
    <2> QED
        BY <1>2, <2>4, RowsMove
<1> QED
    BY <1>6, <1>7 DEF ClaimStep

\* Every step of the repository moves every row in one of the ways above.
LEMMA EveryRowMoves ==
    ASSUME RepoTypeOK, [RepoNext]_repoVars, NEW k \in Jobs
    PROVE  Moves(k)
<1>1. CASE RecoverExpiredLeases
    <2>1. /\ job'[k] = JobsAfter(DueNow)[k] /\ published' = published
          /\ \A j \in DueNow : job[j].status \in SlotStatus
        BY <1>1 DEF RecoverExpiredLeases, DueNow
    <2>2. job'[k] = job[k] \/ Works(job[k], job'[k], ~Cancelled(k))
        BY <2>1, RecoveredWorks DEF Works, Working, SameOutcome, SlotStatus
    <2> QED
        BY <2>1, <2>2, RowsMove, SameStays
<1>2. CASE UNCHANGED repoVars
    BY <1>2, SameStays DEF repoVars
<1> QED
    BY <1>1, <1>2, RunStepMoves, JobStepMoves, LeaseStepMoves, ClaimStepMoves DEF RepoNext

-----------------------------------------------------------------------------
(* Cancellation. *)

\* Deriving the status of runs leaves their cancellation alone.
LEMMA RefreshKeepsCancel ==
    ASSUME RepoTypeOK, NEW q \in Runs, NEW r \in Runs, NEW rows, NEW touched
    PROVE  /\ Refreshed(r, rows)[q].cancel = run[q].cancel
           /\ RunsAfter(touched, rows)[q].cancel = run[q].cancel
BY DEF Refreshed, RunsAfter, RepoTypeOK, RunRow

\* No transaction but cancel_run touches a run's cancellation, and that one only sets it.
LEMMA CancelStays ==
    ASSUME RepoTypeOK, [RepoNext]_repoVars, NEW q \in Runs
    PROVE  \/ run'[q].cancel = run[q].cancel
           \/ CancelRun(q) /\ run'[q].cancel = CancelFlag(q)
<1>1. RunOf \in [Jobs -> Runs] /\ run \in [Runs -> RunRow]
    BY RepositoryAssumption DEF RepoTypeOK
<1>2. ASSUME NEW r \in Runs, RunStep(r)
      PROVE  \/ run'[q].cancel = run[q].cancel
             \/ CancelRun(q) /\ run'[q].cancel = CancelFlag(q)
    <2>1. CASE StoreRunApproval(r)
        BY <1>1, <2>1 DEF StoreRunApproval, RunRow
    <2>2. CASE RecoverRun(r)
        BY <2>2, RefreshKeepsCancel DEF RecoverRun
    <2>3. CASE ActivateResumableJobs(r)
        BY <2>3, RefreshKeepsCancel DEF ActivateResumableJobs
    <2>4. CASE CancelRun(r)
        <3>1. PICK st : run' = [run EXCEPT ![r].cancel = CancelFlag(r), ![r].status = st]
            BY <2>4 DEF CancelRun
        <3>2. run' = [run EXCEPT ![r] = [run[r] EXCEPT !.cancel = CancelFlag(r), !.status = st]]
            BY <1>1, <3>1
        <3>3. CASE q = r
            BY <1>1, <2>4, <3>2, <3>3 DEF RunRow
        <3>4. CASE q # r
            BY <1>1, <3>2, <3>4
        <3> QED
            BY <3>3, <3>4
    <2> QED
        BY <1>2, <2>1, <2>2, <2>3, <2>4 DEF RunStep
<1>3. ASSUME NEW j \in Jobs, JobStep(j)
      PROVE  run'[q].cancel = run[q].cancel
    <2>1. CASE StoreRetryApproval(j)
        <3>1. run' = [run EXCEPT ![RunOf[j]] = [run[RunOf[j]] EXCEPT !.status = "running"]]
            BY <1>1, <2>1 DEF StoreRetryApproval
        <3> QED
            BY <1>1, <3>1 DEF RunRow
    <2>2. CASE ~StoreRetryApproval(j)
        <3>1. \/ run' = run
              \/ \E rows : run' = Refreshed(RunOf[j], rows)
            BY <1>3, <2>2 DEF JobStep, RegisterJob, ExpireLease, StoreCache, DeferResumableJob,
                  FinalizeJob, RecordContinuation, PublishJob, RecordValidated
        <3> QED
            BY <1>1, <3>1, RefreshKeepsCancel
    <2> QED
        BY <2>1, <2>2
<1>4. ASSUME NEW w \in Tokens, NEW j \in Jobs, LeaseStep(w, j)
      PROVE  run'[q].cancel = run[q].cancel
    <2>1. \/ run' = run
          \/ \E rows : run' = Refreshed(RunOf[j], rows)
        <3>1. ASSUME NEW d, NEW response, NEW calls, NEW u, NEW defer,
                     CompleteAttempt(w, j, d, response, calls, u, defer)
              PROVE  \/ run' = run
                     \/ \E rows : run' = Refreshed(RunOf[j], rows)
            BY <3>1 DEF CompleteAttempt
        <3>2. ASSUME NEW d, NEW calls, NEW u, FinalizeFailure(w, j, d, calls, u)
              PROVE  \E rows : run' = Refreshed(RunOf[j], rows)
            BY <3>2 DEF FinalizeFailure
        <3>3. ASSUME NEW result, NEW u, FinalizeSuccess(w, j, result, u)
              PROVE  \E rows : run' = Refreshed(RunOf[j], rows)
            BY <3>3 DEF FinalizeSuccess
        <3> QED
            BY <1>4, <3>1, <3>2, <3>3
               DEF LeaseStep, ReclaimJob, ReleaseClaim, MarkTransmitting, ReserveAttempt
    <2> QED
        BY <1>1, <2>1, RefreshKeepsCancel
<1>5. ASSUME NEW r \in Runs, NEW hits \in BOOLEAN, ClaimStep(r, hits)
      PROVE  run'[q].cancel = run[q].cancel
    <2> DEFINE runs == RunsBeforeClaim(hits)
    <2>1. runs \in [Runs -> RunRow] /\ runs[q].cancel = run[q].cancel
        BY BeforeClaimTyped, RefreshKeepsCancel DEF RunsBeforeClaim
    <2> HIDE DEF runs
    <2>2. \/ run' = runs
          \/ run' = [runs EXCEPT ![r].status = "running"]
        BY <1>5, Zenon DEF ClaimStep, ClaimNothing, ClaimNextJob, runs
    <2>3. [runs[r] EXCEPT !.status = "running"].cancel = runs[r].cancel
        BY <2>1 DEF RunRow
    <2> QED
        BY <2>1, <2>2, <2>3
<1>6. CASE RecoverExpiredLeases
    BY <1>6, RefreshKeepsCancel DEF RecoverExpiredLeases
<1>7. CASE UNCHANGED repoVars
    BY <1>7 DEF repoVars
<1> QED
    BY <1>2, <1>3, <1>4, <1>5, <1>6, <1>7 DEF RepoNext

\* What a step does to a cancelled run and its jobs.
LEMMA NextInert == RepoTypeOK /\ RepoTypeOK' /\ [RepoNext]_repoVars => CancelledIsInert
<1> SUFFICES ASSUME RepoTypeOK, RepoTypeOK', [RepoNext]_repoVars, NEW r \in Runs, run[r].cancel
             PROVE  /\ run'[r].cancel
                    /\ \A j \in JobsOf(r) :
                          /\ Len(attempts'[j]) = Len(attempts[j])
                          /\ job'[j].status = "submitting" => job[j].status = "submitting"
                          /\ job'[j].status \in {"cache_stored", "published", "succeeded"}
                                => job'[j].status = job[j].status
    BY DEF CancelledIsInert
<1>1. run'[r].cancel
    BY CancelStays DEF CancelFlag
<1>2. ASSUME NEW j \in JobsOf(r)
      PROVE  Len(attempts'[j]) = Len(attempts[j])
    <2>1. j \in Jobs /\ Cancelled(j)
        BY <1>2 DEF JobsOf, Cancelled
    <2> QED
        BY <2>1, StepShape DEF KeepsRows, AppendsRow
<1>3. ASSUME NEW j \in JobsOf(r)
      PROVE  /\ job'[j].status = "submitting" => job[j].status = "submitting"
             /\ job'[j].status \in {"cache_stored", "published", "succeeded"}
                   => job'[j].status = job[j].status
    <2>1. j \in Jobs /\ Cancelled(j)
        BY <1>3 DEF JobsOf, Cancelled
    <2>2. Moves(j)
        BY <2>1, EveryRowMoves
    <2> QED
        BY <2>1, <2>2 DEF Moves, RowMoves, Stays, Works, Working, Returns, Reopens, Defers, Validates,
              Stores, Finalizes, Publishes, Succeeds
<1> QED
    BY <1>1, <1>2, <1>3

\* Cancellation is irreversible, and no transaction of the repository makes a call,
\* fills the cache or publishes anything for a cancelled run.
THEOREM CancellationIsFinal == RepoSpec => CancellationHolds
<1>1. RepoTypeOK /\ RepoTypeOK' /\ [RepoNext]_repoVars => [CancelledIsInert]_repoVars
    BY NextInert
<1> QED
    BY <1>1, TypeCorrect, PTL DEF RepoSpec, CancellationHolds

-----------------------------------------------------------------------------
(* The cache.  An accepted job has its result in the cache because the cache never  *)
(* changes an entry, and because a job is accepted only from the status that its     *)
(* result was stored under; the invariant says so of the statuses on the way there.  *)

CacheSafe(row, store, pub) ==
    /\ row.status \in {"validated", "cache_stored"} =>
          row.result \in Results /\ row.key \in Keys
    /\ row.status = "cache_stored" => store[row.key] = row.result
    /\ row.resolution = "accepted" =>
          /\ row.status \in {"finalized", "published"}
          /\ row.result \in Results /\ row.key \in Keys
          /\ store[row.key] = row.result
          /\ row.status = "published" => pub = row.result

CacheInv == /\ RepoTypeOK
            /\ \A k \in Jobs : CacheSafe(job[k], cache, published[k])

\* An entry of the cache is never replaced.
LEMMA CacheOnlyGrows ==
    ASSUME RepoTypeOK, [RepoNext]_repoVars, NEW key \in Keys, cache[key] # NoResult
    PROVE  cache'[key] = cache[key]
<1>1. cache \in [Keys -> Results \cup {NoResult}]
    BY DEF RepoTypeOK
<1>2. \/ cache' = cache
      \/ \E i, x : CacheAccepts(i, x) /\ cache' = [cache EXCEPT ![i] = x]
    <2>1. ASSUME NEW r \in Runs, RunStep(r) PROVE cache' = cache
        BY <2>1 DEF RunStep, StoreRunApproval, CancelRun, RecoverRun, ActivateResumableJobs
    <2>2. ASSUME NEW j \in Jobs, JobStep(j), ~StoreCache(j) PROVE cache' = cache
        BY <2>2 DEF JobStep, StoreRetryApproval, RegisterJob, ExpireLease, DeferResumableJob,
              FinalizeJob, RecordContinuation, PublishJob, RecordValidated
    <2>3. ASSUME NEW j \in Jobs, StoreCache(j)
          PROVE  \E i, x : CacheAccepts(i, x) /\ cache' = [cache EXCEPT ![i] = x]
        BY <2>3 DEF StoreCache, MayStore
    <2>4. ASSUME NEW w \in Tokens, NEW j \in Jobs, LeaseStep(w, j)
          PROVE  \/ cache' = cache
                 \/ \E i, x : CacheAccepts(i, x) /\ cache' = [cache EXCEPT ![i] = x]
        BY <2>4 DEF LeaseStep, ReclaimJob, ReleaseClaim, MarkTransmitting, ReserveAttempt,
              CompleteAttempt, FinalizeSuccess, FinalizeFailure
    <2>5. ASSUME NEW r \in Runs, NEW hits \in BOOLEAN, ClaimStep(r, hits) PROVE cache' = cache
        BY <2>5 DEF ClaimStep, ClaimNothing, ClaimNextJob
    <2> QED
        BY <2>1, <2>2, <2>3, <2>4, <2>5 DEF RepoNext, RecoverExpiredLeases, repoVars
<1> QED
    BY <1>1, <1>2 DEF CacheAccepts

\* CacheSafe survives every way a row moves.
LEMMA NextCaches == CacheInv /\ [RepoNext]_repoVars => CacheInv'
<1> SUFFICES ASSUME CacheInv, [RepoNext]_repoVars PROVE CacheInv'
    OBVIOUS
<1>1. RepoTypeOK /\ RepoTypeOK'
    BY NextTyped DEF CacheInv
<1>2. ASSUME NEW k \in Jobs PROVE CacheSafe(job'[k], cache', published'[k])
    <2> PICK a : a = job[k]
        OBVIOUS
    <2> PICK b : b = job'[k]
        OBVIOUS
    <2>1. /\ CacheSafe(a, cache, published[k]) /\ RowMoves(k, a, b, ~Cancelled(k))
          /\ cache \in [Keys -> Results \cup {NoResult}]
          /\ NoResult \notin Results
        BY <1>1, EveryRowMoves, RepositoryAssumption DEF CacheInv, Moves, RepoTypeOK
    <2>2. a.key \in Keys /\ cache[a.key] \in Results => cache'[a.key] = cache[a.key]
        BY <1>1, <2>1, CacheOnlyGrows
    <2>3. CASE Publishes(k, a, b, ~Cancelled(k))
        BY <2>1, <2>2, <2>3 DEF Publishes, CacheSafe, SameOutcome
    <2>4. ASSUME published'[k] = published[k], Stays(a, b)
          PROVE  CacheSafe(b, cache', published'[k])
        BY <2>1, <2>2, <2>4 DEF Stays, CacheSafe, SameOutcome
    <2>5. ASSUME Works(a, b, ~Cancelled(k)) \/ Returns(k, a, b) \/ Reopens(a, b)
                   \/ Defers(a, b) \/ Succeeds(a, b, ~Cancelled(k))
          PROVE  CacheSafe(b, cache', published'[k])
        BY <2>1, <2>2, <2>5 DEF Works, Working, Returns, Reopens, Defers, Succeeds,
              SameOutcome, CacheSafe
    <2>6. ASSUME Validates(a, b, ~Cancelled(k))
          PROVE  CacheSafe(b, cache', published'[k])
        BY <2>1, <2>6 DEF Validates, CacheSafe
    <2>7. ASSUME Stores(a, b, ~Cancelled(k))
          PROVE  CacheSafe(b, cache', published'[k])
        BY <2>1, <2>7 DEF Stores, CacheSafe, SameOutcome
    <2>8. ASSUME Finalizes(a, b)
          PROVE  CacheSafe(b, cache', published'[k])
        BY <2>1, <2>2, <2>8 DEF Finalizes, CacheSafe
    <2> QED
        BY <2>1, <2>3, <2>4, <2>5, <2>6, <2>7, <2>8 DEF RowMoves
<1> QED
    BY <1>1, <1>2 DEF CacheInv

\* What was accepted, and what was published for it, is what the immutable cache holds,
\* although validating, caching, accepting and publishing are four transactions that
\* name the job without its lease.
THEOREM AcceptedStaysCached == RepoSpec => []AcceptedIsCached
<1>1. RepoInit => CacheInv
    BY InitTyped DEF RepoInit, FreshJob, CacheInv, CacheSafe
<1>2. CacheInv => AcceptedIsCached
    BY RepositoryAssumption DEF CacheInv, CacheSafe, AcceptedIsCached
<1> QED
    BY <1>1, <1>2, NextCaches, PTL DEF RepoSpec

-----------------------------------------------------------------------------
(* Retry approvals.  An attempt repeats an earlier one, and whatever was attempted    *)
(* under the same approval before the latest such attempt did not leave the program.  *)

RetriesBefore(rows) == \A b \in DOMAIN rows : rows[b].retryOf < b

SpentOnce(rows) ==
    \A b \in DOMAIN rows : \A a \in 1..(b - 1) :
        rows[a].retryOf # 0 /\ rows[a].retryOf = rows[b].retryOf
          => rows[a].disposition = "definitely_not_transmitted"

ApprovalInv == RepoTypeOK /\ \A k \in Jobs : RetriesBefore(attempts[k]) /\ SpentOnce(attempts[k])

\* Rewriting the latest row cannot unsettle it.
LEMMA KeepingApprovals ==
    ASSUME RepoTypeOK, RepoTypeOK', NEW k \in Jobs, KeepsRows(k),
           RetriesBefore(attempts[k]), SpentOnce(attempts[k])
    PROVE  RetriesBefore(attempts'[k]) /\ SpentOnce(attempts'[k])
<1> DEFINE old == attempts[k]
           new == attempts'[k]
           n == Len(attempts[k])
<1>1. n \in Nat /\ DOMAIN old = 1..n /\ DOMAIN new = 1..n
    BY DEF RepoTypeOK, KeepsRows
<1>2. \A o \in 1..n : /\ o < n => new[o] = old[o]
                      /\ new[o].retryOf = old[o].retryOf
    BY <1>1 DEF KeepsRows, KeepsRow
<1>3. RetriesBefore(old) /\ SpentOnce(old)
    OBVIOUS
<1> HIDE DEF old, new, n
<1>4. RetriesBefore(new)
    BY <1>1, <1>2, <1>3 DEF RetriesBefore
<1>5. SpentOnce(new)
    <2> SUFFICES ASSUME NEW b \in 1..n, NEW a \in 1..(b - 1), new[a].retryOf # 0,
                        new[a].retryOf = new[b].retryOf
                 PROVE  new[a].disposition = "definitely_not_transmitted"
        BY <1>1 DEF SpentOnce
    <2>1. a \in 1..n /\ a < n
        BY <1>1
    <2> QED
        BY <1>1, <1>2, <1>3, <2>1 DEF SpentOnce
<1> QED
    BY <1>4, <1>5 DEF new

\* A new attempt repeats an unsent one under its approval, or spends a fresh one.
LEMMA AppendingApprovals ==
    ASSUME RepoTypeOK, RepoTypeOK', NEW k \in Jobs, AppendsRow(k),
           RetriesBefore(attempts[k]), SpentOnce(attempts[k])
    PROVE  RetriesBefore(attempts'[k]) /\ SpentOnce(attempts'[k])
<1> PICK kind \in Kinds : attempts'[k] = Append(Consumed(k, kind), Reserved(k, kind))
    BY DEF AppendsRow
<1> DEFINE old == attempts[k]
           new == attempts'[k]
           n == Len(attempts[k])
<1>1. /\ old \in Seq(AttemptRow) /\ n \in Nat /\ DOMAIN old = 1..n
      /\ Len(Consumed(k, kind)) = n /\ Consumed(k, kind) \in Seq(AttemptRow)
    BY ReservedTyped DEF RepoTypeOK
<1>2. /\ DOMAIN new = 1..(n + 1) /\ new[n + 1] = Reserved(k, kind)
      /\ \A o \in 1..n : new[o] = Consumed(k, kind)[o]
    BY <1>1
<1>3. \A o \in 1..n : /\ new[o].disposition = old[o].disposition
                      /\ new[o].retryOf = old[o].retryOf
    BY <1>1, <1>2, ConsumedRows
<1>4. RetriesBefore(old) /\ SpentOnce(old)
    OBVIOUS
<1>5. new[n + 1].retryOf = RetryOf(k, kind)
    BY <1>2 DEF Reserved
<1>6. \A o \in 1..n : old[o].retryOf \in Nat
    <2>1. \A o \in 1..n : old[o] \in AttemptRow
        BY <1>1
    <2> QED
        BY <2>1 DEF AttemptRow
<1>7. \/ /\ n # 0 /\ old[n].disposition = "definitely_not_transmitted"
         /\ RetryOf(k, kind) = old[n].retryOf
      \/ n # 0 /\ RetryOf(k, kind) = n
      \/ RetryOf(k, kind) = 0
    BY <1>1 DEF RetryOf, ResendsUnsent, ResendsUncertain, Attempted, Latest
<1> HIDE DEF old, new, n
<1>8. RetriesBefore(new)
    <2>1. new[n + 1].retryOf < n + 1
        BY <1>1, <1>4, <1>5, <1>6, <1>7 DEF RetriesBefore
    <2> QED
        BY <1>1, <1>2, <1>3, <1>4, <2>1 DEF RetriesBefore
<1>9. SpentOnce(new)
    <2> SUFFICES ASSUME NEW b \in 1..(n + 1), NEW a \in 1..(b - 1), new[a].retryOf # 0,
                        new[a].retryOf = new[b].retryOf
                 PROVE  new[a].disposition = "definitely_not_transmitted"
        BY <1>2 DEF SpentOnce
    <2>1. a \in 1..n /\ old[a].retryOf # 0 /\ old[a].retryOf = new[b].retryOf
        BY <1>1, <1>3
    <2>2. CASE b # n + 1
        BY <1>1, <1>3, <1>4, <2>1, <2>2 DEF SpentOnce
    <2>3. CASE b = n + 1
        <3>1. old[a].retryOf < a
            BY <1>1, <1>4, <2>1 DEF RetriesBefore
        <3>2. n # 0 /\ n \in 1..n /\ old[n].disposition = "definitely_not_transmitted"
                    /\ old[a].retryOf = old[n].retryOf
            BY <1>1, <1>5, <1>6, <1>7, <2>1, <2>3, <3>1
        <3>3. old[a].disposition = "definitely_not_transmitted"
            <4>1. CASE a = n
                BY <3>2, <4>1
            <4>2. CASE a # n
                BY <1>1, <1>4, <2>1, <3>2, <4>2 DEF SpentOnce
            <4> QED
                BY <4>1, <4>2
        <3> QED
            BY <1>3, <2>1, <3>3
    <2> QED
        BY <2>2, <2>3
<1> QED
    BY <1>8, <1>9 DEF new

\* ApprovalInv is inductive.
LEMMA NextApproves == ApprovalInv /\ [RepoNext]_repoVars => ApprovalInv'
BY NextTyped, StepShape, KeepingApprovals, AppendingApprovals DEF ApprovalInv

\* No two attempts that left the program, or may have, were made under one approval.
THEOREM ApprovalsAreSpentOnce == RepoSpec => []ApprovalSpentOnce
<1>1. RepoInit => ApprovalInv
    BY InitTyped DEF RepoInit, ApprovalInv, RetriesBefore, SpentOnce
<1>2. ApprovalInv => ApprovalSpentOnce
    <2> SUFFICES ASSUME ApprovalInv, NEW j \in Jobs,
                        NEW a \in DOMAIN attempts[j], NEW b \in DOMAIN attempts[j],
                        attempts[j][a].retryOf # 0, a # b,
                        attempts[j][a].retryOf = attempts[j][b].retryOf
                 PROVE  "definitely_not_transmitted"
                           \in {attempts[j][a].disposition, attempts[j][b].disposition}
        BY DEF ApprovalSpentOnce
    <2>1. a \in 1..(b - 1) \/ b \in 1..(a - 1)
        BY DEF ApprovalInv, RepoTypeOK
    <2> QED
        BY <2>1 DEF ApprovalInv, SpentOnce
<1> QED
    BY <1>1, <1>2, NextApproves, PTL DEF RepoSpec

-----------------------------------------------------------------------------
(* The fate of an attempt.  Status, disposition and reported calls of a row are       *)
(* written together and always tell one story; a job that is returned has an answer.  *)

Unsent(row) == /\ row.status = "not_transmitted"
               /\ row.disposition = "definitely_not_transmitted" /\ row.calls = 0
Unresolved(row) == row.status = "indeterminate" /\ row.disposition = "indeterminate"
Answered(row) == /\ row.status \in {"returned", "failed", "succeeded"}
                 /\ row.disposition = "transmitted"
Over(row) == Unsent(row) \/ Unresolved(row) \/ Answered(row)

Consistent(row) ==
    \/ row.status = "reserved" /\ row.disposition = "not_started"
    \/ row.status = "transmitting" /\ row.disposition = "indeterminate"
    \/ Over(row)

\* What a step may make of the latest attempt of job k: leave its fate as it is, send
\* it, settle it, or lose the answer when the job is given up; only store_retry_approval
\* approves its repetition.
SameFate(a, b) == b.status = a.status /\ b.disposition = a.disposition /\ b.calls = a.calls
Sends(a, b) == /\ a.status = "reserved" /\ b.status = "transmitting"
               /\ b.disposition = "indeterminate"
Settles(a, b) == a.status \in OpenRow /\ Over(b)
Loses(k, a, b) == /\ a.disposition = "transmitted" /\ a.status \notin OpenRow
                  /\ Unresolved(b) /\ b.calls = a.calls /\ job'[k].status # "returned"

RowChanges(k, a, b) ==
    /\ b.kind = a.kind /\ b.retryOf = a.retryOf /\ b.supplemental = a.supplemental
    /\ b.approval = a.approval \/ StoreRetryApproval(k)
    /\ SameFate(a, b) \/ Sends(a, b) \/ Settles(a, b) \/ Loses(k, a, b)

Rewrites(k) ==
    /\ attempts'[k] \in Seq(AttemptRow) /\ Len(attempts'[k]) = Len(attempts[k])
    /\ \A o \in DOMAIN attempts[k] : o < Len(attempts[k]) => attempts'[k][o] = attempts[k][o]
    /\ Attempted(k) => RowChanges(k, Latest(k), Latest(k)')

ReturnedIsAnswered(k) ==
    job[k].status = "returned" => Attempted(k) /\ Latest(k).disposition = "transmitted"

FateInv ==
    /\ RepoTypeOK /\ AttemptMatchesJob
    /\ \A k \in Jobs : /\ \A o \in DOMAIN attempts[k] : Consistent(attempts[k][o])
                       /\ ReturnedIsAnswered(k)

\* Attempts that stand still are rewritten by themselves.
LEMMA SameRewrites ==
    ASSUME RepoTypeOK, NEW k \in Jobs, attempts'[k] = attempts[k]
    PROVE  Rewrites(k)
BY DEF Rewrites, RowChanges, SameFate, Latest, RepoTypeOK

\* So is the replacement of the latest row.
LEMMA LastRewrites ==
    ASSUME RepoTypeOK, NEW k \in Jobs, Attempted(k), NEW row \in AttemptRow,
           RowChanges(k, Latest(k), row),
           attempts'[k] = [attempts[k] EXCEPT ![Len(attempts[k])] = row]
    PROVE  Rewrites(k)
<1>1. Len(attempts[k]) \in Nat \ {0} /\ DOMAIN attempts[k] = 1..Len(attempts[k])
    BY LatestTyped DEF RepoTypeOK
<1>2. Len(attempts'[k]) = Len(attempts[k]) /\ attempts'[k] \in Seq(AttemptRow)
    BY <1>1, ExceptSeq DEF RepoTypeOK
<1>3. \A o \in DOMAIN attempts[k] :
         attempts'[k][o] = IF o = Len(attempts[k]) THEN row ELSE attempts[k][o]
    BY <1>1 DEF RepoTypeOK
<1>4. Latest(k)' = row
    BY <1>1, <1>2, <1>3 DEF Latest
<1> QED
    BY <1>1, <1>2, <1>3, <1>4 DEF Rewrites

\* WithLatest rewrites the attempts of one job.
LEMMA WithLatestRewrites ==
    ASSUME RepoTypeOK, NEW j \in Jobs, Attempted(j), NEW row \in AttemptRow,
           RowChanges(j, Latest(j), row), attempts' = WithLatest(j, row)
    PROVE  \A k \in Jobs : Rewrites(k)
<1> TAKE k \in Jobs
<1>1. CASE k = j
    BY <1>1, LastRewrites DEF WithLatest, RepoTypeOK
<1>2. CASE k # j
    BY <1>2, SameRewrites DEF WithLatest, RepoTypeOK
<1> QED
    BY <1>1, <1>2

\* An interrupted call is settled by recovery.
LEMMA RecoveryRewrites ==
    ASSUME RepoTypeOK, AttemptMatchesJob, NEW k \in Jobs, attempts'[k] = RecoveredAttempts(k)
    PROVE  Rewrites(k)
<1>1. CASE attempts'[k] = attempts[k]
    BY <1>1, SameRewrites
<1>2. CASE attempts'[k] # attempts[k]
    <2>1. Attempted(k)
        BY <1>2 DEF RecoveredAttempts, LatestIs
    <2>2. Latest(k) \in AttemptRow
        BY <2>1, LatestTyped DEF RepoTypeOK
    <2>3. Latest(k).status \in OpenRow
        BY <1>2, <2>1 DEF RecoveredAttempts, MaybeSent, AttemptMatchesJob, LatestIs, OpenRow
    <2> DEFINE uncertain == [Latest(k) EXCEPT !.status = "indeterminate",
                                              !.disposition = "indeterminate"]
               unsent == [Latest(k) EXCEPT !.status = "not_transmitted",
                                           !.disposition = "definitely_not_transmitted",
                                           !.calls = 0, !.units = 0]
    <2>4. uncertain \in AttemptRow /\ unsent \in AttemptRow
        BY <2>2, RecoveredRowTyped
    <2>5. RowChanges(k, Latest(k), uncertain)
        BY <2>2, <2>3 DEF RowChanges, Settles, Over, Unresolved, AttemptRow
    <2>6. RowChanges(k, Latest(k), unsent)
        BY <2>2, <2>3 DEF RowChanges, Settles, Over, Unsent, AttemptRow
    <2>7. \/ attempts'[k] = [attempts[k] EXCEPT ![Len(attempts[k])] = uncertain]
          \/ attempts'[k] = [attempts[k] EXCEPT ![Len(attempts[k])] = unsent]
        BY <1>2 DEF RecoveredAttempts, Latest
    <2> HIDE DEF uncertain, unsent
    <2> QED
        BY <2>1, <2>4, <2>5, <2>6, <2>7, LastRewrites
<1> QED
    BY <1>1, <1>2

\* The recovery of a set of jobs rewrites the attempts of all.
LEMMA AfterRewrites ==
    ASSUME RepoTypeOK, AttemptMatchesJob, NEW due, attempts' = AttemptsAfter(due)
    PROVE  \A k \in Jobs : Rewrites(k)
BY RecoveryRewrites, SameRewrites DEF AttemptsAfter

\* The transactions on a run rewrite attempts; recover_run loses unused answers.
LEMMA RunStepRewrites ==
    ASSUME FateInv, NEW r \in Runs, RunStep(r), NEW k \in Jobs
    PROVE  Rewrites(k)
<1>1. RepoTypeOK /\ AttemptMatchesJob
    BY DEF FateInv
<1>2. CASE RecoverRun(r)
    <2>1. CASE k \in Lost(r) /\ Attempted(k)
        <3>1. Latest(k) \in AttemptRow
            BY <1>1, <2>1, LatestTyped DEF RepoTypeOK
        <3>2. Latest(k).disposition = "transmitted" /\ Latest(k).status \notin OpenRow
            BY <2>1 DEF FateInv, ReturnedIsAnswered, Lost, AttemptMatchesJob, LatestIs, OpenRow
        <3>3. job'[k].status = "indeterminate"
            BY <1>1, <1>2, <2>1 DEF RecoverRun, RepoTypeOK, JobRow, Unleased
        <3> DEFINE row == [Latest(k) EXCEPT !.status = "indeterminate",
                                            !.disposition = "indeterminate"]
        <3>4. row \in AttemptRow
            BY <3>1, RecoveredRowTyped
        <3>5. RowChanges(k, Latest(k), row)
            BY <3>1, <3>2, <3>3 DEF RowChanges, Loses, Unresolved, AttemptRow
        <3>6. attempts'[k] = [attempts[k] EXCEPT ![Len(attempts[k])] = row]
            BY <1>2, <2>1 DEF RecoverRun, Latest
        <3> HIDE DEF row
        <3> QED
            BY <1>1, <2>1, <3>4, <3>5, <3>6, LastRewrites
    <2>2. CASE ~(k \in Lost(r) /\ Attempted(k))
        <3>1. attempts'[k] = AttemptsAfter(DueInRun(r))[k]
            BY <1>2, <2>2 DEF RecoverRun
        <3>2. attempts'[k] \in {attempts[k], RecoveredAttempts(k)}
            BY <3>1 DEF AttemptsAfter
        <3> QED
            BY <1>1, <3>2, SameRewrites, RecoveryRewrites
    <2> QED
        BY <2>1, <2>2
<1>3. CASE ~RecoverRun(r)
    <2>1. UNCHANGED attempts
        BY <1>3 DEF RunStep, StoreRunApproval, CancelRun, CancelFlag, ActivateResumableJobs
    <2> QED
        BY <1>1, <2>1, SameRewrites
<1> QED
    BY <1>2, <1>3

\* The transactions on a job without a lease leave the fate of every attempt.
LEMMA JobStepRewrites ==
    ASSUME RepoTypeOK, NEW j \in Jobs, JobStep(j), NEW k \in Jobs
    PROVE  Rewrites(k)
<1>1. CASE StoreRetryApproval(j)
    <2> DEFINE row == [Latest(j) EXCEPT !.approval = "open"]
    <2>1. Attempted(j) /\ attempts' = WithLatest(j, row)
        BY <1>1 DEF StoreRetryApproval, LatestIs
    <2>2. row \in AttemptRow /\ RowChanges(j, Latest(j), row)
        BY <1>1, <2>1, LatestTyped DEF RowChanges, SameFate, RepoTypeOK, AttemptRow
    <2> HIDE DEF row
    <2> QED
        BY <2>1, <2>2, WithLatestRewrites
<1>2. ASSUME NEW o, NEW result \in Results, NEW key, RecordValidated(j, o, result, key)
      PROVE  Rewrites(k)
    <2>1. CASE o = 0
        BY <1>2, <2>1, SameRewrites DEF RecordValidated
    <2>2. CASE o # 0
        <3> DEFINE row == [Latest(j) EXCEPT !.validated = result]
        <3>1. Attempted(j) /\ attempts' = WithLatest(j, row)
            BY <1>2, <2>2 DEF RecordValidated, MayRecord, LatestIs
        <3>2. row \in AttemptRow /\ RowChanges(j, Latest(j), row)
            BY <3>1, LatestTyped DEF RowChanges, SameFate, RepoTypeOK, AttemptRow
        <3> HIDE DEF row
        <3> QED
            BY <3>1, <3>2, WithLatestRewrites
    <2> QED
        BY <2>1, <2>2
<1>3. ASSUME ~StoreRetryApproval(j),
             ~\E o \in {0, Len(attempts[j])}, result \in Results, key \in Keys :
                  RecordValidated(j, o, result, key)
      PROVE  Rewrites(k)
    <2>1. UNCHANGED attempts
        BY <1>3 DEF JobStep, RegisterJob, ExpireLease, StoreCache, DeferResumableJob,
                    FinalizeJob, RecordContinuation, PublishJob
    <2> QED
        BY <2>1, SameRewrites
<1> QED
    BY <1>1, <1>2, <1>3

\* Completing a call settles it.
LEMMA SettledRewrites ==
    ASSUME RepoTypeOK, NEW j \in Jobs, Attempted(j), Latest(j).status \in OpenRow,
           NEW d \in Disposition, NEW st \in AttemptStatus, NEW c \in {0, 1}, NEW u \in Nat,
           attempts' = Settled(j, d, st, c, u),
           \/ /\ d = "definitely_not_transmitted" /\ st = "not_transmitted" /\ c = 0
           \/ d = "indeterminate" /\ st = "indeterminate"
           \/ d = "transmitted" /\ st \in {"returned", "failed", "succeeded"}
    PROVE  \A k \in Jobs : Rewrites(k)
<1> DEFINE row == [Latest(j) EXCEPT !.status = st, !.disposition = d,
                                    !.calls = c, !.units = u]
<1>1. Latest(j) \in AttemptRow
    BY LatestTyped DEF RepoTypeOK
<1>2. /\ row.status = st /\ row.disposition = d /\ row.calls = c
      /\ row.kind = Latest(j).kind /\ row.retryOf = Latest(j).retryOf
      /\ row.supplemental = Latest(j).supplemental /\ row.approval = Latest(j).approval
      /\ row \in AttemptRow
    BY <1>1 DEF AttemptRow
<1>3. attempts' = WithLatest(j, row)
    BY DEF Settled
<1> HIDE DEF row
<1>4. RowChanges(j, Latest(j), row)
    BY <1>2 DEF RowChanges, Settles, Over, Unsent, Unresolved, Answered
<1> QED
    BY <1>2, <1>3, <1>4, WithLatestRewrites

\* A claim holder who reserves no attempt rewrites the latest one of its job.
LEMMA LeaseStepRewrites ==
    ASSUME RepoTypeOK, NEW w \in Tokens, NEW j \in Jobs, LeaseStep(w, j), NEW k \in Jobs
    PROVE  Rewrites(k) \/ \E kind \in Kinds : ReserveAttempt(w, j, kind)
<1>1. CASE ReclaimJob(w, j) \/ ReleaseClaim(w, j)
    BY <1>1, SameRewrites DEF ReclaimJob, ReleaseClaim
<1>2. CASE MarkTransmitting(w, j)
    <2> DEFINE row == [Latest(j) EXCEPT !.status = "transmitting",
                                        !.disposition = "indeterminate"]
    <2>1. Attempted(j) /\ Latest(j).status = "reserved" /\ attempts' = WithLatest(j, row)
        BY <1>2 DEF MarkTransmitting, MayMark, LatestIs
    <2>2. Latest(j) \in AttemptRow
        BY <2>1, LatestTyped DEF RepoTypeOK
    <2>3. row \in AttemptRow
        BY <2>2 DEF AttemptRow, AttemptStatus, Disposition
    <2>4. RowChanges(j, Latest(j), row)
        BY <2>1, <2>2 DEF RowChanges, Sends, AttemptRow
    <2> HIDE DEF row
    <2> QED
        BY <2>1, <2>3, <2>4, WithLatestRewrites
<1>3. Units \subseteq Nat
    BY RepositoryAssumption
<1>4. ASSUME NEW d \in Disposition \ {"not_started"}, NEW response \in BOOLEAN,
             NEW calls \in {0, 1}, calls \in CallsFor(d)
      PROVE  LET st == SettledStatus(d, response)
             IN  \/ /\ d = "definitely_not_transmitted" /\ st = "not_transmitted" /\ calls = 0
                 \/ d = "indeterminate" /\ st = "indeterminate"
                 \/ d = "transmitted" /\ st \in {"returned", "failed", "succeeded"}
    BY <1>4 DEF CallsFor, SettledStatus, Disposition
<1>5. ASSUME NEW d \in Disposition \ {"not_started"}, NEW response \in BOOLEAN, NEW defer,
             NEW calls \in {0, 1}, NEW u \in Units,
             CompleteAttempt(w, j, d, response, calls, u, defer)
      PROVE  Rewrites(k)
    <2>1. /\ Attempted(j) /\ Latest(j).status \in OpenRow /\ calls \in CallsFor(d)
          /\ attempts' = Settled(j, d, SettledStatus(d, response), calls, u)
        BY <1>5 DEF CompleteAttempt, Completable, LatestIs, OpenRow
    <2> QED
        BY <1>3, <1>4, <2>1, SettledStatusTyped, SettledRewrites
<1>6. ASSUME NEW result, NEW u \in Units, FinalizeSuccess(w, j, result, u)
      PROVE  Rewrites(k)
    <2>1. /\ Attempted(j) /\ Latest(j).status \in OpenRow
          /\ attempts' = Settled(j, "transmitted", "succeeded", 1, u)
        BY <1>6 DEF FinalizeSuccess, LatestIs, OpenRow
    <2>2. "transmitted" \in Disposition /\ "succeeded" \in AttemptStatus
        BY DEF Disposition, AttemptStatus
    <2> QED
        BY <1>3, <2>1, <2>2, SettledRewrites
<1>7. ASSUME NEW d \in Disposition \ {"not_started"}, NEW calls \in {0, 1}, NEW u \in Units,
             FinalizeFailure(w, j, d, calls, u)
      PROVE  Rewrites(k)
    <2>1. /\ Attempted(j) /\ Latest(j).status \in OpenRow /\ calls \in CallsFor(d)
          /\ attempts' = Settled(j, d, SettledStatus(d, FALSE), calls, u)
        BY <1>7 DEF FinalizeFailure, Completable, LatestIs, OpenRow
    <2> QED
        BY <1>3, <1>4, <2>1, SettledStatusTyped, SettledRewrites
<1> QED
    BY <1>1, <1>2, <1>5, <1>6, <1>7 DEF LeaseStep

\* Every step rewrites latest rows, or reserves one attempt.
LEMMA StepRewrites ==
    ASSUME FateInv, [RepoNext]_repoVars
    PROVE  \/ \A k \in Jobs : Rewrites(k)
           \/ \E w \in Tokens, j \in Jobs, kind \in Kinds : ReserveAttempt(w, j, kind)
<1>1. RepoTypeOK /\ AttemptMatchesJob
    BY DEF FateInv
<1>2. CASE UNCHANGED repoVars
    BY <1>1, <1>2, SameRewrites DEF repoVars
<1>3. CASE RecoverExpiredLeases
    BY <1>1, <1>3, AfterRewrites DEF RecoverExpiredLeases
<1>4. ASSUME NEW r \in Runs, NEW hits \in BOOLEAN, ClaimStep(r, hits)
      PROVE  \A k \in Jobs : Rewrites(k)
    BY <1>1, <1>4, AfterRewrites DEF ClaimStep, ClaimNothing, ClaimNextJob
<1>5. ASSUME NEW w \in Tokens, NEW j \in Jobs, LeaseStep(w, j)
      PROVE  \/ \A k \in Jobs : Rewrites(k)
             \/ \E kind \in Kinds : ReserveAttempt(w, j, kind)
    BY <1>1, <1>5, LeaseStepRewrites
<1>6. ASSUME NEW r \in Runs, RunStep(r) PROVE \A k \in Jobs : Rewrites(k)
    BY <1>6, RunStepRewrites
<1>7. ASSUME NEW j \in Jobs, JobStep(j) PROVE \A k \in Jobs : Rewrites(k)
    BY <1>1, <1>7, JobStepRewrites
<1> QED
    BY <1>2, <1>3, <1>4, <1>5, <1>6, <1>7 DEF RepoNext

\* A reservation appends one attempt to those of its job.
LEMMA ReserveAppends ==
    ASSUME RepoTypeOK, NEW w, NEW j \in Jobs, NEW kind \in Kinds, ReserveAttempt(w, j, kind)
    PROVE  /\ \A k \in Jobs : k # j => attempts'[k] = attempts[k]
           /\ Len(attempts'[j]) = Len(attempts[j]) + 1
           /\ attempts'[j][Len(attempts[j]) + 1] = Reserved(j, kind)
           /\ DOMAIN attempts[j] = 1..Len(attempts[j])
           /\ DOMAIN attempts'[j] = 1..(Len(attempts[j]) + 1)
           /\ \A o \in DOMAIN attempts[j] : attempts'[j][o] = Consumed(j, kind)[o]
<1>1. attempts'[j] = Append(Consumed(j, kind), Reserved(j, kind))
    BY DEF ReserveAttempt, RepoTypeOK
<1>2. /\ Consumed(j, kind) \in Seq(AttemptRow) /\ Reserved(j, kind) \in AttemptRow
      /\ Len(Consumed(j, kind)) = Len(attempts[j]) /\ attempts[j] \in Seq(AttemptRow)
    BY ReservedTyped DEF RepoTypeOK
<1>3. \A k \in Jobs : k # j => attempts'[k] = attempts[k]
    BY DEF ReserveAttempt, RepoTypeOK
<1> QED
    BY <1>1, <1>2, <1>3

\* What a later reservation leaves of an attempt.
SpendsAtMost(a, b) ==
    /\ b.kind = a.kind /\ b.retryOf = a.retryOf /\ b.supplemental = a.supplemental
    /\ SameFate(a, b)
    /\ b.approval = a.approval \/ (a.approval = "open" /\ b.approval = "consumed")

\* The attempts before it keep their fate, and at most spend an approval.
LEMMA ReserveKeeps ==
    ASSUME RepoTypeOK, NEW w, NEW j \in Jobs, NEW kind \in Kinds, ReserveAttempt(w, j, kind),
           NEW o \in DOMAIN attempts[j]
    PROVE  SpendsAtMost(attempts[j][o], attempts'[j][o])
<1>1. attempts'[j][o] = Consumed(j, kind)[o]
    BY ReserveAppends
<1>2. \/ Consumed(j, kind)[o] = attempts[j][o]
      \/ Consumed(j, kind)[o] = Spent(attempts[j][o]) /\ attempts[j][o] \in AttemptRow
    BY LatestTyped DEF Consumed, ResendsUncertain, Latest, RepoTypeOK
<1>3. ASSUME NEW a \in AttemptRow
      PROVE  SpendsAtMost(a, Spent(a))
    BY DEF Spent, AttemptRow, SameFate, SpendsAtMost
<1> QED
    BY <1>1, <1>2, <1>3 DEF SameFate, SpendsAtMost

\* Every fate a step writes is one story.
LEMMA NextFates == FateInv /\ [RepoNext]_repoVars => FateInv'
<1> SUFFICES ASSUME FateInv, [RepoNext]_repoVars PROVE FateInv'
    OBVIOUS
<1>1. RepoTypeOK /\ RepoTypeOK' /\ AttemptMatchesJob /\ AttemptMatchesJob'
    BY NextTyped, NextMatches DEF FateInv
<1>2. ASSUME NEW k \in Jobs, Rewrites(k)
      PROVE  (\A o \in DOMAIN attempts'[k] : Consistent(attempts'[k][o]))
                /\ ReturnedIsAnswered(k)'
    <2> DEFINE n == Len(attempts[k])
    <2>1. /\ n \in Nat /\ DOMAIN attempts[k] = 1..n /\ DOMAIN attempts'[k] = 1..n
          /\ attempts[k] \in Seq(AttemptRow)
        BY <1>1, <1>2 DEF RepoTypeOK, Rewrites
    <2>2. Attempted(k) <=> n # 0
        BY <2>1 DEF Attempted
    <2>3. Attempted(k)' <=> n # 0
        BY <1>2, <2>1 DEF Attempted, Rewrites
    <2>4. n # 0 => /\ Latest(k) = attempts[k][n] /\ Latest(k)' = attempts'[k][n]
                   /\ Consistent(Latest(k)) /\ RowChanges(k, Latest(k), Latest(k)')
        BY <1>2, <2>1, <2>2 DEF Latest, Rewrites, FateInv
    <2> HIDE DEF n
    <2>5. n # 0 => Consistent(Latest(k)')
        BY <2>4 DEF RowChanges, SameFate, Sends, Settles, Loses, Consistent, Over, Unsent,
                    Unresolved, Answered
    <2>6. \A o \in 1..n : Consistent(attempts'[k][o])
        <3> TAKE o \in 1..n
        <3>1. CASE o = n
            BY <2>1, <2>4, <2>5, <3>1
        <3>2. CASE o # n
            <4>1. o < n /\ attempts'[k][o] = attempts[k][o]
                BY <1>2, <2>1, <3>2 DEF Rewrites, n
            <4> QED
                BY <2>1, <4>1 DEF FateInv
        <3> QED
            BY <3>1, <3>2
    <2>7. ReturnedIsAnswered(k)'
        <3> SUFFICES ASSUME job'[k].status = "returned"
                     PROVE  Attempted(k)' /\ Latest(k)'.disposition = "transmitted"
            BY DEF ReturnedIsAnswered
        <3>1. \/ job[k].status = "returned"
              \/ /\ job[k].status = "submitting"
                 /\ attempts'[k][n].disposition = "transmitted"
            BY <1>1, EveryRowMoves DEF Moves, RowMoves, Stays, Works, Working, Returns, Reopens,
                  Defers, Validates, Stores, Finalizes, Publishes, Succeeds, n
        <3>2. CASE job[k].status = "returned"
            <4>1. n # 0 /\ Latest(k).disposition = "transmitted"
                BY <2>2, <3>2 DEF FateInv, ReturnedIsAnswered
            <4>2. Latest(k).status \notin OpenRow
                BY <1>1, <2>2, <3>2, <4>1 DEF AttemptMatchesJob, LatestIs, OpenRow
            <4>3. Latest(k)'.disposition = "transmitted"
                BY <2>4, <4>1, <4>2 DEF RowChanges, SameFate, Sends, Settles, Loses, OpenRow
            <4> QED
                BY <2>3, <4>1, <4>3
        <3>3. CASE /\ job[k].status = "submitting"
                   /\ attempts'[k][n].disposition = "transmitted"
            <4>1. n # 0
                BY <1>1, <2>2, <3>3 DEF AttemptMatchesJob, LatestIs
            <4> QED
                BY <2>3, <2>4, <3>3, <4>1
        <3> QED
            BY <3>1, <3>2, <3>3
    <2> QED
        BY <2>1, <2>6, <2>7
<1>3. ASSUME NEW w \in Tokens, NEW j \in Jobs, NEW kind \in Kinds, ReserveAttempt(w, j, kind),
             NEW k \in Jobs
      PROVE  (\A o \in DOMAIN attempts'[k] : Consistent(attempts'[k][o]))
                /\ ReturnedIsAnswered(k)'
    <2>1. CASE k # j
        <3>1. attempts'[k] = attempts[k] /\ job'[k] = job[k]
            BY <1>1, <1>3, <2>1 DEF ReserveAttempt, RepoTypeOK
        <3> QED
            BY <3>1 DEF FateInv, ReturnedIsAnswered, Latest, Attempted
    <2>2. CASE k = j
        <3>1. job'[k].status = "reserved"
            BY <1>1, <1>3, <2>2 DEF ReserveAttempt, RepoTypeOK, JobRow
        <3>2. Consistent(Reserved(j, kind))
            BY DEF Reserved, Consistent
        <3>3. ASSUME NEW o \in DOMAIN attempts[j] PROVE Consistent(attempts'[j][o])
            <4>1. SpendsAtMost(attempts[j][o], attempts'[j][o])
                BY <1>1, <1>3, ReserveKeeps
            <4>2. Consistent(attempts[j][o])
                BY DEF FateInv
            <4> QED
                BY <4>1, <4>2 DEF SpendsAtMost, SameFate, Consistent, Over, Unsent, Unresolved, Answered
        <3>4. \A o \in DOMAIN attempts'[j] : o \in DOMAIN attempts[j] \/ o = Len(attempts[j]) + 1
            <4>1. DOMAIN attempts'[j] = 1..(Len(attempts[j]) + 1)
                BY <1>1, <1>3, ReserveAppends
            <4>2. DOMAIN attempts[j] = 1..Len(attempts[j]) /\ Len(attempts[j]) \in Nat
                BY <1>1 DEF RepoTypeOK
            <4> QED
                BY <4>1, <4>2
        <3>5. attempts'[j][Len(attempts[j]) + 1] = Reserved(j, kind)
            BY <1>1, <1>3, ReserveAppends
        <3> QED
            BY <2>2, <3>1, <3>2, <3>3, <3>4, <3>5 DEF ReturnedIsAnswered
    <2> QED
        BY <2>1, <2>2
<1>4. \A k \in Jobs : /\ \A o \in DOMAIN attempts'[k] : Consistent(attempts'[k][o])
                      /\ ReturnedIsAnswered(k)'
    BY <1>2, <1>3, StepRewrites
<1> QED
    BY <1>1, <1>4 DEF FateInv

\* Created jobs have no attempt.
LEMMA InitFates == RepoInit => FateInv
<1> SUFFICES ASSUME RepoInit
             PROVE  \A k \in Jobs : /\ \A o \in DOMAIN attempts[k] : Consistent(attempts[k][o])
                                    /\ ReturnedIsAnswered(k)
    BY InitTyped, InitMatches DEF FateInv
<1>1. \A k \in Jobs : attempts[k] = <<>> /\ job[k].status # "returned"
    BY DEF RepoInit, FreshJob
<1> QED
    BY <1>1 DEF ReturnedIsAnswered

-----------------------------------------------------------------------------
(* The approved ceilings.  A step that only settles attempts cannot charge more of     *)
(* them; a reservation charges one more, to the account that _validate_attempt_limits  *)
(* found open.                                                                         *)

Ordinary(r, kind) == {p \in ChargedCalls(r, kind) : ~Supplemental(At(p))}

CeilingInv == FateInv /\ CeilingRespected

\* Adding an element to a finite set adds at most one.
LEMMA OneMore ==
    ASSUME NEW S, NEW x, IsFiniteSet(S)
    PROVE  /\ IsFiniteSet(S \cup {x}) /\ Cardinality(S) \in Nat
           /\ Cardinality(S \cup {x}) <= Cardinality(S) + 1
<1>1. Cardinality(S) \in Nat
    BY FS_CardinalityType
<1>2. IsFiniteSet(S \cup {x})
    BY FS_AddElement
<1>3. Cardinality(S \cup {x}) = IF x \in S THEN Cardinality(S) ELSE Cardinality(S) + 1
    BY FS_AddElement
<1> QED
    BY <1>1, <1>2, <1>3

\* A run has finitely many attempts.
LEMMA AttemptsFinite ==
    ASSUME RepoTypeOK, NEW r
    PROVE  IsFiniteSet(AttemptsOfRun(r))
<1>1. IsFiniteSet(JobsOf(r))
    <2>1. JobsOf(r) \in SUBSET Jobs
        BY DEF JobsOf
    <2> QED
        BY <2>1, RepositoryAssumption, FS_Subset
<1> DEFINE f == [j \in JobsOf(r) |-> {j} \X DOMAIN attempts[j]]
           T == {{j} \X DOMAIN attempts[j] : j \in JobsOf(r)}
<1>2. f \in Surjection(JobsOf(r), T)
    BY DEF Surjection
<1>3. IsFiniteSet(T)
    BY <1>1, <1>2, FS_Surjection
<1>4. ASSUME NEW j \in JobsOf(r) PROVE IsFiniteSet({j} \X DOMAIN attempts[j])
    <2>1. Len(attempts[j]) \in Nat /\ DOMAIN attempts[j] = 1..Len(attempts[j])
        BY DEF RepoTypeOK, JobsOf
    <2>2. IsFiniteSet(DOMAIN attempts[j])
        BY <2>1, FS_Interval
    <2> QED
        BY <2>2, FS_Singleton, FS_Product
<1> QED
    BY <1>3, <1>4, FS_UNION DEF AttemptsOfRun

\* The calls of both accounts.
LEMMA AccountsFinite ==
    ASSUME RepoTypeOK, NEW r, NEW kind
    PROVE  /\ IsFiniteSet(ChargedCalls(r, kind)) /\ IsFiniteSet(SupplementalCalls(r))
           /\ IsFiniteSet(Ordinary(r, kind))
           /\ Cardinality(Ordinary(r, kind)) <= Cardinality(ChargedCalls(r, kind))
           /\ Cardinality(Ordinary(r, kind)) \in Nat /\ Cardinality(ChargedCalls(r, kind)) \in Nat
           /\ Cardinality(SupplementalCalls(r)) \in Nat
<1>1. ChargedCalls(r, kind) \in SUBSET AttemptsOfRun(r)
      /\ SupplementalCalls(r) \in SUBSET AttemptsOfRun(r)
      /\ Ordinary(r, kind) \in SUBSET ChargedCalls(r, kind)
    BY DEF ChargedCalls, SupplementalCalls, Ordinary
<1>2. IsFiniteSet(ChargedCalls(r, kind)) /\ IsFiniteSet(SupplementalCalls(r))
    BY <1>1, AttemptsFinite, FS_Subset
<1> QED
    BY <1>1, <1>2, FS_Subset, FS_CardinalityType

\* Rewriting the latest attempts charges nothing and takes nothing from the supplement.
LEMMA RewritingCharges ==
    ASSUME FateInv, NEW k \in Jobs, Rewrites(k), NEW o \in DOMAIN attempts[k]
    PROVE  /\ attempts'[k][o].kind = attempts[k][o].kind
           /\ attempts'[k][o].supplemental = attempts[k][o].supplemental
           /\ Charged(attempts'[k][o]) => Charged(attempts[k][o])
           /\ Supplemental(attempts'[k][o]) => Supplemental(attempts[k][o])
<1>1. /\ Len(attempts[k]) \in Nat /\ DOMAIN attempts[k] = 1..Len(attempts[k])
      /\ Consistent(attempts[k][o])
    BY DEF FateInv, RepoTypeOK
<1>2. CASE o < Len(attempts[k])
    BY <1>2 DEF Rewrites
<1>3. CASE o = Len(attempts[k])
    <2> PICK a : a = attempts[k][o]
        OBVIOUS
    <2> PICK b : b = attempts'[k][o]
        OBVIOUS
    <2>1. Attempted(k)
        BY <1>1, <1>3 DEF Attempted
    <2>2. Latest(k) = a /\ Latest(k)' = b
        BY <1>3 DEF Latest, Rewrites
    <2>3. RowChanges(k, a, b) /\ Consistent(a)
        BY <1>1, <2>1, <2>2 DEF Rewrites
    <2>4. CASE SameFate(a, b)
        BY <2>3, <2>4 DEF RowChanges, SameFate, Charged, Supplemental
    <2>5. CASE Sends(a, b)
        BY <2>3, <2>5 DEF RowChanges, Sends, Charged, Supplemental, Consistent, Over, Unsent,
                          Unresolved, Answered
    <2>6. CASE Settles(a, b)
        BY <2>3, <2>6 DEF RowChanges, Settles, Charged, Supplemental, Consistent, Over, Unsent,
                          Unresolved, Answered, OpenRow
    <2>7. CASE Loses(k, a, b)
        BY <2>3, <2>7 DEF RowChanges, Loses, Charged, Supplemental, Unresolved
    <2> QED
        BY <2>3, <2>4, <2>5, <2>6, <2>7 DEF RowChanges
<1> QED
    BY <1>1, <1>2, <1>3

\* The ceilings hold after a step that only rewrites.
LEMMA RewritingFits ==
    ASSUME CeilingInv, RepoTypeOK', \A k \in Jobs : Rewrites(k), NEW r \in Runs
    PROVE  /\ \A kind \in Kinds : Ordinary(r, kind)' \subseteq Ordinary(r, kind)
           /\ SupplementalCalls(r)' \subseteq SupplementalCalls(r)
<1>1. \A k \in Jobs : DOMAIN attempts'[k] = DOMAIN attempts[k]
    BY DEF Rewrites, CeilingInv, FateInv, RepoTypeOK
<1>2. AttemptsOfRun(r)' = AttemptsOfRun(r)
    BY <1>1 DEF AttemptsOfRun, JobsOf
<1>3. ASSUME NEW p \in AttemptsOfRun(r)
      PROVE  /\ At(p)'.kind = At(p).kind
             /\ Charged(At(p)') => Charged(At(p))
             /\ At(p)'.supplemental = At(p).supplemental
             /\ Supplemental(At(p)') => Supplemental(At(p))
    <2>1. p[1] \in Jobs /\ p[2] \in DOMAIN attempts[p[1]]
        BY <1>3 DEF AttemptsOfRun, JobsOf
    <2> QED
        BY <2>1, RewritingCharges DEF At, CeilingInv
<1>4. SupplementalCalls(r)' \subseteq SupplementalCalls(r)
    BY <1>2, <1>3 DEF SupplementalCalls
<1>5. ASSUME NEW kind \in Kinds, NEW p \in Ordinary(r, kind)'
      PROVE  p \in Ordinary(r, kind)
    BY <1>2, <1>3, <1>5 DEF Ordinary, ChargedCalls, Charged, Supplemental
<1> QED
    BY <1>4, <1>5

\* A reservation charges the new attempt to one account, and that account was open.
LEMMA ReservingFits ==
    ASSUME CeilingInv, RepoTypeOK', NEW w, NEW j \in Jobs, NEW kind \in Kinds,
           ReserveAttempt(w, j, kind), NEW r \in Runs
    PROVE  /\ \A x \in Kinds : Cardinality(Ordinary(r, x)') <= CallCeiling[x]
           /\ Cardinality(SupplementalCalls(r)') <= RetryCeiling
<1> PICK n : n = Len(attempts[j])
    OBVIOUS
<1> PICK new : new = <<j, n + 1>>
    OBVIOUS
<1>1. RepoTypeOK /\ WithinLimits(j, kind)
    BY DEF CeilingInv, FateInv, ReserveAttempt
<1>2. /\ \A k \in Jobs : k # j => attempts'[k] = attempts[k]
      /\ n \in Nat /\ DOMAIN attempts[j] = 1..n /\ DOMAIN attempts'[j] = 1..(n + 1)
      /\ attempts'[j][n + 1] = Reserved(j, kind)
    <2>1. \A k \in Jobs : k # j => attempts'[k] = attempts[k]
        BY <1>1, ReserveAppends
    <2>2. DOMAIN attempts'[j] = 1..(Len(attempts[j]) + 1)
        BY <1>1, ReserveAppends
    <2>3. attempts'[j][Len(attempts[j]) + 1] = Reserved(j, kind)
        BY <1>1, ReserveAppends
    <2> QED
        BY <1>1, <2>1, <2>2, <2>3 DEF RepoTypeOK
<1>3. ASSUME NEW o \in DOMAIN attempts[j]
      PROVE  SpendsAtMost(attempts[j][o], attempts'[j][o])
    BY <1>1, ReserveKeeps
<1>4. ASSUME NEW p \in AttemptsOfRun(r)', p # new
      PROVE  /\ p \in AttemptsOfRun(r)
             /\ At(p)'.kind = At(p).kind
             /\ Charged(At(p)') <=> Charged(At(p))
             /\ Supplemental(At(p)') <=> Supplemental(At(p))
    <2>1. /\ p[1] \in Jobs /\ RunOf[p[1]] = r /\ p[2] \in DOMAIN attempts'[p[1]]
          /\ p = <<p[1], p[2]>>
        BY <1>4 DEF AttemptsOfRun, JobsOf
    <2>2. p[2] \in DOMAIN attempts[p[1]]
        BY <1>2, <1>4, <2>1
    <2>3. p \in AttemptsOfRun(r)
        BY <2>1, <2>2 DEF AttemptsOfRun, JobsOf
    <2>4. /\ At(p)'.kind = At(p).kind /\ At(p)'.supplemental = At(p).supplemental
          /\ SameFate(At(p), At(p)')
        BY <1>2, <1>3, <2>1, <2>2 DEF At, SpendsAtMost, SameFate
    <2> QED
        BY <2>3, <2>4 DEF SameFate, Charged, Supplemental
<1>5. new \in AttemptsOfRun(r)' => r = RunOf[j]
    BY DEF AttemptsOfRun, JobsOf
<1>6. At(new)'.kind = kind /\ At(new)'.supplemental = NeedsSupplement(j, kind)
    BY <1>2 DEF At, Reserved
<1>7. /\ \A x \in Kinds : Cardinality(Ordinary(r, x)) <= CallCeiling[x]
      /\ Cardinality(SupplementalCalls(r)) <= RetryCeiling
      /\ CallCeiling \in [Kinds -> Nat] /\ RetryCeiling \in Nat
    BY RepositoryAssumption DEF CeilingInv, CeilingRespected, Ordinary
<1>8. ASSUME NEW x \in Kinds PROVE Cardinality(Ordinary(r, x)') <= CallCeiling[x]
    <2>1. Ordinary(r, x)' \subseteq Ordinary(r, x) \cup {new}
        BY <1>4 DEF Ordinary, ChargedCalls
    <2>2. CASE new \notin Ordinary(r, x)'
        <3>1. Ordinary(r, x)' \in SUBSET Ordinary(r, x)
            BY <2>1, <2>2
        <3> QED
            BY <1>1, <1>7, <3>1, AccountsFinite, FS_Subset, FS_CardinalityType
    <2>3. CASE new \in Ordinary(r, x)'
        <3>1. /\ r = RunOf[j] /\ x = kind /\ ~NeedsSupplement(j, kind)
            <4>1. /\ new \in AttemptsOfRun(r)' /\ At(new)'.kind = x
                  /\ ~Supplemental(At(new)') /\ Charged(At(new)')
                BY <2>3 DEF Ordinary, ChargedCalls
            <4>2. ~At(new)'.supplemental
                BY <4>1 DEF Supplemental, Charged
            <4> QED
                BY <1>5, <1>6, <4>1, <4>2
        <3>2. Cardinality(ChargedCalls(r, x)) < CallCeiling[x]
            BY <1>1, <1>7, <3>1, AccountsFinite DEF NeedsSupplement
        <3>3. Cardinality(Ordinary(r, x)) < CallCeiling[x]
            BY <1>1, <1>7, <3>2, AccountsFinite
        <3>4. /\ IsFiniteSet(Ordinary(r, x) \cup {new})
              /\ Cardinality(Ordinary(r, x) \cup {new}) <= Cardinality(Ordinary(r, x)) + 1
            <4>1. IsFiniteSet(Ordinary(r, x)) /\ Cardinality(Ordinary(r, x)) \in Nat
                BY <1>1, AccountsFinite
            <4> QED
                BY <4>1, OneMore
        <3>5. Cardinality(Ordinary(r, x)') <= Cardinality(Ordinary(r, x) \cup {new})
            BY <2>1, <3>4, FS_Subset
        <3>6. Cardinality(Ordinary(r, x)') \in Nat
            BY <2>1, <3>4, FS_Subset, FS_CardinalityType
        <3> QED
            BY <1>1, <1>7, <3>3, <3>4, <3>5, <3>6, AccountsFinite, FS_CardinalityType
    <2> QED
        BY <2>2, <2>3
<1>9. Cardinality(SupplementalCalls(r)') <= RetryCeiling
    <2>1. SupplementalCalls(r)' \subseteq SupplementalCalls(r) \cup {new}
        BY <1>4 DEF SupplementalCalls
    <2>2. CASE new \notin SupplementalCalls(r)'
        <3>1. SupplementalCalls(r)' \in SUBSET SupplementalCalls(r)
            BY <2>1, <2>2
        <3> QED
            BY <1>1, <1>7, <3>1, AccountsFinite, FS_Subset, FS_CardinalityType
    <2>3. CASE new \in SupplementalCalls(r)'
        <3>1. r = RunOf[j] /\ NeedsSupplement(j, kind)
            BY <1>5, <1>6, <2>3 DEF SupplementalCalls, Supplemental
        <3>2. Cardinality(SupplementalCalls(r)) < RetryCeiling
            BY <1>1, <3>1 DEF WithinLimits
        <3>3. /\ IsFiniteSet(SupplementalCalls(r) \cup {new})
              /\ Cardinality(SupplementalCalls(r) \cup {new})
                    <= Cardinality(SupplementalCalls(r)) + 1
            <4>1. /\ IsFiniteSet(SupplementalCalls(r))
                  /\ Cardinality(SupplementalCalls(r)) \in Nat
                BY <1>1, AccountsFinite
            <4> QED
                BY <4>1, OneMore
        <3>4. Cardinality(SupplementalCalls(r)') <= Cardinality(SupplementalCalls(r) \cup {new})
            BY <2>1, <3>3, FS_Subset
        <3>5. Cardinality(SupplementalCalls(r)') \in Nat
            BY <2>1, <3>3, FS_Subset, FS_CardinalityType
        <3> QED
            BY <1>1, <1>7, <3>2, <3>3, <3>4, <3>5, AccountsFinite, FS_CardinalityType
    <2> QED
        BY <2>2, <2>3
<1> QED
    BY <1>8, <1>9

\* The ceilings are kept by every step.
LEMMA NextCharges == CeilingInv /\ [RepoNext]_repoVars => CeilingInv'
<1> SUFFICES ASSUME CeilingInv, [RepoNext]_repoVars PROVE CeilingInv'
    OBVIOUS
<1>1. FateInv /\ FateInv' /\ RepoTypeOK /\ RepoTypeOK'
    BY NextFates DEF CeilingInv, FateInv
<1>2. ASSUME NEW r \in Runs
      PROVE  /\ \A kind \in Kinds : Cardinality(Ordinary(r, kind)') <= CallCeiling[kind]
             /\ Cardinality(SupplementalCalls(r)') <= RetryCeiling
    <2>1. CASE \A k \in Jobs : Rewrites(k)
        <3>1. /\ \A kind \in Kinds : Cardinality(Ordinary(r, kind)) <= CallCeiling[kind]
              /\ Cardinality(SupplementalCalls(r)) <= RetryCeiling
              /\ CallCeiling \in [Kinds -> Nat] /\ RetryCeiling \in Nat
            BY RepositoryAssumption DEF CeilingInv, CeilingRespected, Ordinary
        <3>2. /\ \A kind \in Kinds : Ordinary(r, kind)' \in SUBSET Ordinary(r, kind)
              /\ SupplementalCalls(r)' \in SUBSET SupplementalCalls(r)
            BY <1>1, <2>1, RewritingFits
        <3>3. ASSUME NEW kind \in Kinds
              PROVE  Cardinality(Ordinary(r, kind)') <= CallCeiling[kind]
            BY <1>1, <3>1, <3>2, AccountsFinite, FS_Subset, FS_CardinalityType
        <3>4. Cardinality(SupplementalCalls(r)') <= RetryCeiling
            BY <1>1, <3>1, <3>2, AccountsFinite, FS_Subset, FS_CardinalityType
        <3> QED
            BY <3>3, <3>4
    <2>2. CASE \E w \in Tokens, j \in Jobs, kind \in Kinds : ReserveAttempt(w, j, kind)
        BY <1>1, <2>2, ReservingFits
    <2> QED
        BY <1>1, <2>1, <2>2, StepRewrites
<1> QED
    BY <1>1, <1>2 DEF CeilingInv, CeilingRespected, Ordinary

\* The calls a run makes stay within the ceilings the user approved, although calls are
\* charged at reservation, uncharged when they prove unsent, and charged to the retry
\* account once the ordinary one of their kind is full.
THEOREM CeilingsHold == RepoSpec => []CeilingRespected
<1>1. RepoInit => CeilingInv
    <2> SUFFICES ASSUME RepoInit PROVE CeilingRespected
        BY InitFates DEF CeilingInv
    <2>1. \A r \in Runs : AttemptsOfRun(r) = {}
        BY DEF RepoInit, AttemptsOfRun, JobsOf
    <2>2. Cardinality({}) = 0
        BY FS_EmptySet
    <2>3. ASSUME NEW r \in Runs, NEW kind \in Kinds
          PROVE  Cardinality({p \in ChargedCalls(r, kind) : ~Supplemental(At(p))})
                    <= CallCeiling[kind]
        <3>1. {p \in ChargedCalls(r, kind) : ~Supplemental(At(p))} = {}
            BY <2>1 DEF ChargedCalls
        <3>2. CallCeiling[kind] \in Nat
            BY RepositoryAssumption
        <3> QED
            BY <2>2, <3>1, <3>2
    <2>4. ASSUME NEW r \in Runs PROVE Cardinality(SupplementalCalls(r)) <= RetryCeiling
        <3>1. SupplementalCalls(r) = {}
            BY <2>1 DEF SupplementalCalls
        <3> QED
            BY <2>2, <3>1, RepositoryAssumption
    <2> QED
        BY <2>3, <2>4 DEF CeilingRespected
<1>2. CeilingInv => CeilingRespected
    BY DEF CeilingInv
<1> QED
    BY <1>1, <1>2, NextCharges, PTL DEF RepoSpec

-----------------------------------------------------------------------------
(* Submission slots.  SlotBound is inductive: a transaction gives every row a token  *)
(* that fits its status, and lets no job into a slot but the one job for which       *)
(* claim_next_job or reserve_attempt has just counted a free slot.                   *)

LeaseFits(row) == /\ row.status \in SlotStatus => row.token \in Tokens
                  /\ row.status \notin MayHoldLease => row.token = NoToken
                  /\ row.token = NoToken => ~row.expired

Occupies(row) == row.status \in SlotStatus /\ ~row.expired

\* The row still fits its lease and takes no slot it did not have.
Yields(a, b) == LeaseFits(b) /\ (Occupies(b) => Occupies(a))

SlotInv == RepoTypeOK /\ SlotBound

LEMMA BoundAsRows ==
    SlotBound <=> /\ Cardinality(InSlot(job)) <= SlotLimit
                  /\ \A j \in Jobs : LeaseFits(job[j])
BY DEF SlotBound, LeaseFits

\* A row without a lease outside the slots, and a row with a lease that may have one.
LEMMA FreeYields ==
    ASSUME NEW a, NEW b, b.token = NoToken, b.expired = FALSE, b.status \notin SlotStatus
    PROVE  Yields(a, b)
BY DEF Yields, LeaseFits, Occupies

LEMMA HeldYields ==
    ASSUME NEW a, NEW b, b.token \in Tokens, b.status \in MayHoldLease,
           b.status \in SlotStatus => b.expired \/ Occupies(a)
    PROVE  Yields(a, b)
BY RepositoryAssumption DEF Yields, LeaseFits, Occupies

\* The lease fields of a row that is moved to another status.
LEMMA MovedLease ==
    ASSUME NEW row \in JobRow, NEW s
    PROVE  /\ [row EXCEPT !.status = s].status = s
           /\ [row EXCEPT !.status = s].token = row.token
           /\ [row EXCEPT !.status = s].expired = row.expired
           /\ [Unleased(row) EXCEPT !.status = s].status = s
           /\ [Unleased(row) EXCEPT !.status = s].token = NoToken
           /\ [Unleased(row) EXCEPT !.status = s].expired = FALSE
BY DEF Unleased, JobRow

LEMMA ResolvedLease ==
    ASSUME NEW row \in JobRow, NEW s, NEW x
    PROVE  /\ [Unleased(row) EXCEPT !.status = s, !.resolution = x].status = s
           /\ [Unleased(row) EXCEPT !.status = s, !.resolution = x].token = NoToken
           /\ [Unleased(row) EXCEPT !.status = s, !.resolution = x].expired = FALSE
           /\ [row EXCEPT !.status = s, !.resolution = x].status = s
           /\ [row EXCEPT !.status = s, !.resolution = x].token = row.token
           /\ [row EXCEPT !.status = s, !.resolution = x].expired = row.expired
BY DEF Unleased, JobRow

\* Losing the lease and leaving the slot: nothing else is asked of the row.
LEMMA UnleasedYields ==
    ASSUME NEW row \in JobRow, NEW s, s \notin SlotStatus, NEW a
    PROVE  Yields(a, [Unleased(row) EXCEPT !.status = s])
<1> PICK b : b = [Unleased(row) EXCEPT !.status = s]
    OBVIOUS
<1>1. b.status = s /\ b.token = NoToken /\ b.expired = FALSE
    BY MovedLease
<1> QED
    BY <1>1, FreeYields

LEMMA ResolvedYields ==
    ASSUME NEW row \in JobRow, NEW s, s \notin SlotStatus, NEW x, NEW a
    PROVE  Yields(a, [Unleased(row) EXCEPT !.status = s, !.resolution = x])
<1> PICK b : b = [Unleased(row) EXCEPT !.status = s, !.resolution = x]
    OBVIOUS
<1>1. b.status = s /\ b.token = NoToken /\ b.expired = FALSE
    BY DEF Unleased, JobRow
<1> QED
    BY <1>1, FreeYields

\* What every row yields, the rows together yield.
LEMMA AllYield ==
    ASSUME SlotInv, RepoTypeOK', \A k \in Jobs : Yields(job[k], job'[k])
    PROVE  SlotBound'
<1>1. InSlot(job)' \subseteq InSlot(job)
    BY DEF InSlot, Yields, Occupies
<1>2. IsFiniteSet(InSlot(job))
    BY RepositoryAssumption, FS_Subset DEF InSlot
<1>3. Cardinality(InSlot(job)') <= Cardinality(InSlot(job))
    BY <1>1, <1>2, FS_Subset
<1>4. Cardinality(InSlot(job)') \in Nat /\ Cardinality(InSlot(job)) \in Nat
    BY <1>1, <1>2, FS_Subset, FS_CardinalityType
<1>5. Cardinality(InSlot(job)) <= SlotLimit
    BY DEF SlotInv, SlotBound
<1>6. Cardinality(InSlot(job)') <= SlotLimit
    BY <1>3, <1>4, <1>5, RepositoryAssumption
<1>7. \A j \in Jobs : LeaseFits(job'[j])
    BY DEF Yields
<1> QED
    BY <1>6, <1>7 DEF SlotBound, LeaseFits

\* One job that takes a slot counted free, while every other row yields.
LEMMA OneEnters ==
    ASSUME NEW rows, NEW j \in Jobs, Cardinality(InSlot(rows)) < SlotLimit,
           LeaseFits(job'[j]), \A k \in Jobs \ {j} : Yields(rows[k], job'[k])
    PROVE  SlotBound'
<1>1. InSlot(job)' \subseteq InSlot(rows) \cup {j}
    BY DEF InSlot, Yields, Occupies
<1>2. IsFiniteSet(InSlot(rows))
    BY RepositoryAssumption, FS_Subset DEF InSlot
<1>3. /\ IsFiniteSet(InSlot(rows) \cup {j}) /\ Cardinality(InSlot(rows)) \in Nat
      /\ Cardinality(InSlot(rows) \cup {j}) <= Cardinality(InSlot(rows)) + 1
    BY <1>2, OneMore
<1>4. /\ Cardinality(InSlot(job)') <= Cardinality(InSlot(rows) \cup {j})
      /\ IsFiniteSet(InSlot(job)')
    BY <1>1, <1>3, FS_Subset
<1>5. Cardinality(InSlot(job)') \in Nat /\ Cardinality(InSlot(rows) \cup {j}) \in Nat
    BY <1>3, <1>4, FS_CardinalityType
<1>6. Cardinality(InSlot(job)') <= SlotLimit
    BY <1>3, <1>4, <1>5, RepositoryAssumption
<1>7. \A k \in Jobs : LeaseFits(job'[k])
    BY DEF Yields
<1> QED
    BY <1>6, <1>7 DEF SlotBound, LeaseFits

\* A transaction that writes one row.
LEMMA OneRowYields ==
    ASSUME SlotInv, RepoTypeOK', NEW j \in Jobs, NEW row,
           job' = [job EXCEPT ![j] = row], Yields(job[j], row)
    PROVE  SlotBound'
<1>1. job \in [Jobs -> JobRow] /\ \A k \in Jobs : LeaseFits(job[k])
    BY BoundAsRows DEF SlotInv, RepoTypeOK
<1>2. ASSUME NEW k \in Jobs PROVE Yields(job[k], job'[k])
    BY <1>1 DEF Yields
<1> QED
    BY <1>2, AllYield

\* Recovered rows lose their lease and leave their slot.
LEMMA RecoveredYields ==
    ASSUME SlotInv, NEW k \in Jobs, NEW due
    PROVE  Yields(job[k], JobsAfter(due)[k])
<1>1. job[k] \in JobRow /\ LeaseFits(job[k])
    BY BoundAsRows DEF SlotInv, RepoTypeOK
<1>2. PICK st \in {"pending", "cancelled", "indeterminate"} :
         RecoveredJob(k) = [Unleased(job[k]) EXCEPT !.status = st]
    BY Zenon DEF RecoveredJob
<1>3. Yields(job[k], RecoveredJob(k))
    <2>1. st \notin SlotStatus
        BY DEF SlotStatus
    <2>2. Yields(job[k], [Unleased(job[k]) EXCEPT !.status = st])
        BY <1>1, <2>1, UnleasedYields
    <2> QED
        BY <1>2, <2>2
<1>4. Yields(job[k], job[k])
    BY <1>1 DEF Yields
<1> QED
    BY <1>3, <1>4 DEF JobsAfter

\* The transactions on a run.
LEMMA RunStepYields ==
    ASSUME SlotInv, NEW r \in Runs, RunStep(r), NEW k \in Jobs
    PROVE  Yields(job[k], job'[k])
<1>1. job[k] \in JobRow /\ LeaseFits(job[k]) /\ Yields(job[k], job[k])
    BY BoundAsRows DEF SlotInv, RepoTypeOK, Yields
<1>2. CASE StoreRunApproval(r)
    BY <1>1, <1>2 DEF StoreRunApproval
<1>3. CASE CancelRun(r)
    <2>1. \/ job'[k] = job[k]
          \/ job'[k] = [Unleased(job[k]) EXCEPT !.status = "cancelled"]
        BY <1>3 DEF CancelRun
    <2>2. Yields(job[k], [Unleased(job[k]) EXCEPT !.status = "cancelled"])
        BY <1>1, UnleasedYields DEF SlotStatus
    <2> QED
        BY <1>1, <2>1, <2>2
<1>4. CASE RecoverRun(r)
    <2>1. \/ job'[k] = JobsAfter(DueInRun(r))[k]
          \/ job'[k] = [Unleased(job[k]) EXCEPT !.status = "indeterminate"]
        BY <1>4 DEF RecoverRun
    <2>2. Yields(job[k], [Unleased(job[k]) EXCEPT !.status = "indeterminate"])
        BY <1>1, UnleasedYields DEF SlotStatus
    <2>3. Yields(job[k], JobsAfter(DueInRun(r))[k])
        BY RecoveredYields
    <2> QED
        BY <2>1, <2>2, <2>3
<1>5. CASE ActivateResumableJobs(r)
    <2>1. \/ job'[k] = job[k]
          \/ /\ job[k].status = "finalized"
             /\ job'[k] = [job[k] EXCEPT !.status = "pending", !.resolution = "none"]
        BY <1>5 DEF ActivateResumableJobs
    <2>2. job'[k] = [job[k] EXCEPT !.status = "pending", !.resolution = "none"]
             => /\ job'[k].status = "pending" /\ job'[k].token = job[k].token
                /\ job'[k].expired = job[k].expired
        BY <1>1 DEF JobRow
    <2>3. job[k].status = "finalized" => job[k].token = NoToken /\ job[k].expired = FALSE
        BY <1>1 DEF LeaseFits, MayHoldLease, SlotStatus, JobRow
    <2> QED
        BY <1>1, <2>1, <2>2, <2>3, FreeYields DEF SlotStatus
<1> QED
    BY <1>2, <1>3, <1>4, <1>5 DEF RunStep

\* The transactions on a job without a lease write one row.
LEMMA JobStepYields ==
    ASSUME SlotInv, NEW j \in Jobs, JobStep(j)
    PROVE  \E row : job' = [job EXCEPT ![j] = row] /\ Yields(job[j], row)
<1> PICK a : a = job[j]
    OBVIOUS
<1>1. a \in JobRow /\ LeaseFits(a) /\ Yields(a, a) /\ job[j] = a
    BY BoundAsRows DEF SlotInv, RepoTypeOK, Yields
<1>2. a.status \notin MayHoldLease => a.token = NoToken /\ a.expired = FALSE
    BY <1>1 DEF LeaseFits, JobRow
<1>3. CASE StoreRetryApproval(j)
    <2> PICK b : b = [a EXCEPT !.status = "pending", !.resolution = "none"]
        OBVIOUS
    <2>1. job' = [job EXCEPT ![j] = b] /\ a.status = "indeterminate"
        BY <1>1, <1>3 DEF StoreRetryApproval
    <2>2. b.status = "pending" /\ b.token = a.token /\ b.expired = a.expired
        BY <1>1 DEF JobRow
    <2>3. Yields(a, b)
        BY <1>2, <2>1, <2>2, FreeYields DEF MayHoldLease, SlotStatus
    <2> QED
        BY <1>1, <2>1, <2>3
<1>4. CASE RegisterJob(j)
    <2>1. job' = [job EXCEPT ![j] = FreshJob("pending")]
        BY <1>4 DEF RegisterJob
    <2>2. Yields(a, FreshJob("pending"))
        BY DEF Yields, LeaseFits, Occupies, FreshJob, SlotStatus
    <2> QED
        BY <1>1, <2>1, <2>2
<1>5. CASE ExpireLease(j)
    <2> PICK b : b = [a EXCEPT !.expired = TRUE]
        OBVIOUS
    <2>1. job' = [job EXCEPT ![j] = b] /\ a.token # NoToken
        BY <1>1, <1>5 DEF ExpireLease
    <2>2. b.status = a.status /\ b.token = a.token /\ b.expired = TRUE
        BY <1>1 DEF JobRow
    <2>3. Yields(a, b)
        BY <1>1, <2>1, <2>2 DEF Yields, LeaseFits, Occupies
    <2> QED
        BY <1>1, <2>1, <2>3
<1>6. CASE StoreCache(j)
    <2> PICK b : b = [a EXCEPT !.status = "cache_stored"]
        OBVIOUS
    <2>1. job' = [job EXCEPT ![j] = b]
        BY <1>1, <1>6 DEF StoreCache
    <2>2. b.status = "cache_stored" /\ b.token = a.token /\ b.expired = a.expired
        BY <1>1 DEF JobRow
    <2>3. Yields(a, b)
        BY <1>1, <2>2 DEF Yields, LeaseFits, Occupies, MayHoldLease, SlotStatus
    <2> QED
        BY <1>1, <2>1, <2>3
<1>7. CASE DeferResumableJob(j)
    <2> PICK b : b = [a EXCEPT !.status = "finalized", !.resolution = "resumable"]
        OBVIOUS
    <2>1. job' = [job EXCEPT ![j] = b] /\ a.status = "pending"
        BY <1>1, <1>7 DEF DeferResumableJob, MayDefer
    <2>2. b.status = "finalized" /\ b.token = a.token /\ b.expired = a.expired
        BY <1>1 DEF JobRow
    <2>3. Yields(a, b)
        BY <1>2, <2>1, <2>2, FreeYields DEF MayHoldLease, SlotStatus
    <2> QED
        BY <1>1, <2>1, <2>3
<1>8. ASSUME NEW res \in Resolution, FinalizeJob(j, res)
      PROVE  \E row : job' = [job EXCEPT ![j] = row] /\ Yields(job[j], row)
    <2> PICK s : s = FinalizedStatus(res)
        OBVIOUS
    <2>1. s \notin SlotStatus
        BY DEF FinalizedStatus, Resolution, SlotStatus
    <2>2. job' = [job EXCEPT ![j] = [Unleased(a) EXCEPT !.status = s, !.resolution = res]]
        BY <1>1, <1>8 DEF FinalizeJob
    <2>3. Yields(a, [Unleased(a) EXCEPT !.status = s, !.resolution = res])
        BY <1>1, <2>1, ResolvedYields
    <2> QED
        BY <1>1, <2>2, <2>3
<1>9. ASSUME NEW c, RecordContinuation(j, c)
      PROVE  \E row : job' = [job EXCEPT ![j] = row] /\ Yields(job[j], row)
    <2> PICK b : b = [a EXCEPT !.cont = c, !.contAt = Len(attempts[j])]
        OBVIOUS
    <2>1. job \in [Jobs -> JobRow]
        BY DEF SlotInv, RepoTypeOK
    <2>2. job' = [job EXCEPT ![j] = b]
        BY <1>1, <1>9, <2>1 DEF RecordContinuation
    <2>3. b.status = a.status /\ b.token = a.token /\ b.expired = a.expired
        BY <1>1 DEF JobRow
    <2>4. Yields(a, b)
        BY <1>1, <2>3 DEF Yields, LeaseFits, Occupies
    <2> QED
        BY <1>1, <2>2, <2>4
<1>10. ASSUME NEW result, PublishJob(j, result)
       PROVE  \E row : job' = [job EXCEPT ![j] = row] /\ Yields(job[j], row)
    <2> PICK b : b = [a EXCEPT !.status = "published"]
        OBVIOUS
    <2>1. job' = [job EXCEPT ![j] = b] /\ a.status \in {"finalized", "published"}
        BY <1>1, <1>10 DEF PublishJob, MayPublish
    <2>2. b.status = "published" /\ b.token = a.token /\ b.expired = a.expired
        BY <1>1 DEF JobRow
    <2>3. Yields(a, b)
        BY <1>2, <2>1, <2>2, FreeYields DEF MayHoldLease, SlotStatus
    <2> QED
        BY <1>1, <2>1, <2>3
<1>11. ASSUME NEW o, NEW result, NEW key, RecordValidated(j, o, result, key)
       PROVE  \E row : job' = [job EXCEPT ![j] = row] /\ Yields(job[j], row)
    <2> PICK b : b = [a EXCEPT !.status = "validated", !.result = result, !.key = key]
        OBVIOUS
    <2>1. \/ a.status \in {"claimed", "returned", "validated"} /\ job' = [job EXCEPT ![j] = b]
          \/ job' = [job EXCEPT ![j] = a]
        BY <1>1, <1>11 DEF RecordValidated
    <2>2. b.status = "validated" /\ b.token = a.token /\ b.expired = a.expired
        BY <1>1 DEF JobRow
    <2>3. Yields(a, b)
        BY <1>1, <2>2 DEF Yields, LeaseFits, Occupies, MayHoldLease, SlotStatus
    <2> QED
        BY <1>1, <2>1, <2>3
<1> QED
    BY <1>3, <1>4, <1>5, <1>6, <1>7, <1>8, <1>9, <1>10, <1>11 DEF JobStep

\* The transactions of a claim holder other than reserve_attempt.
LEMMA LeaseStepYields ==
    ASSUME SlotInv, NEW w \in Tokens, NEW j \in Jobs, LeaseStep(w, j),
           ~\E kind \in Kinds : ReserveAttempt(w, j, kind)
    PROVE  \E row : job' = [job EXCEPT ![j] = row] /\ Yields(job[j], row)
<1> PICK a : a = job[j]
    OBVIOUS
<1>1. a \in JobRow /\ LeaseFits(a) /\ job[j] = a
    BY BoundAsRows DEF SlotInv, RepoTypeOK
<1>2. CASE ReclaimJob(w, j)
    <2> PICK b : b = Leased(a, w)
        OBVIOUS
    <2>1. job' = [job EXCEPT ![j] = b] /\ a.status \in {"returned", "validated"}
        BY <1>1, <1>2 DEF ReclaimJob
    <2>2. b.status = a.status /\ b.token = w
        BY <1>1 DEF JobRow, Leased
    <2>3. Yields(a, b)
        BY <2>1, <2>2, HeldYields DEF MayHoldLease, SlotStatus
    <2> QED
        BY <1>1, <2>1, <2>3
<1>3. CASE ReleaseClaim(w, j)
    <2> PICK s : s = IF a.status = "claimed" THEN "pending" ELSE a.status
        OBVIOUS
    <2>1. a.status \in {"claimed", "returned", "validated"}
        BY <1>1, <1>3 DEF ReleaseClaim, HoldsClaim
    <2>2. job' = [job EXCEPT ![j] = [Unleased(a) EXCEPT !.status = s]]
        BY <1>1, <1>3 DEF ReleaseClaim, Released
    <2>3. Yields(a, [Unleased(a) EXCEPT !.status = s])
        BY <1>1, <2>1, UnleasedYields DEF SlotStatus
    <2> QED
        BY <1>1, <2>2, <2>3
<1>4. CASE MarkTransmitting(w, j)
    <2> PICK b : b = [a EXCEPT !.status = "submitting"]
        OBVIOUS
    <2>1. job' = [job EXCEPT ![j] = b] /\ a.status = "reserved" /\ a.token = w /\ ~a.expired
        BY <1>1, <1>4 DEF MarkTransmitting, MayMark, HoldsClaim
    <2>2. b.status = "submitting" /\ b.token = a.token /\ b.expired = a.expired
        BY <1>1 DEF JobRow
    <2>3. Yields(a, b)
        BY <2>1, <2>2, HeldYields DEF MayHoldLease, SlotStatus, Occupies
    <2> QED
        BY <1>1, <2>1, <2>3
<1>5. ASSUME NEW d \in Disposition \ {"not_started"}, NEW response, NEW defer,
             NEW calls, NEW u, CompleteAttempt(w, j, d, response, calls, u, defer)
      PROVE  \E row : job' = [job EXCEPT ![j] = row] /\ Yields(job[j], row)
    <2>1. a.token = w
        BY <1>1, <1>5 DEF CompleteAttempt, Completable, HoldsClaim
    <2>2. PICK s \in {"cancelled", "finalized", "pending", "indeterminate", "returned"} :
             \/ /\ s = "returned"
                /\ job' = [job EXCEPT ![j] = [@ EXCEPT !.status = s]]
             \/ \E x : job' = [job EXCEPT ![j] = [Unleased(@) EXCEPT !.status = s,
                                                                     !.resolution = x]]
        BY <1>5, Zenon DEF CompleteAttempt
    <2>3. s \notin SlotStatus
        BY DEF SlotStatus
    <2>4. CASE s = "returned" /\ job' = [job EXCEPT ![j] = [a EXCEPT !.status = s]]
        <3> PICK b : b = [a EXCEPT !.status = s]
            OBVIOUS
        <3>1. b.status = s /\ b.token = w
            BY <1>1, <2>1 DEF JobRow
        <3>2. Yields(a, b)
            BY <2>3, <2>4, <3>1, HeldYields DEF MayHoldLease
        <3> QED
            BY <1>1, <2>4, <3>2
    <2>5. ASSUME NEW x, job' = [job EXCEPT ![j] = [Unleased(a) EXCEPT !.status = s,
                                                                     !.resolution = x]]
          PROVE  \E row : job' = [job EXCEPT ![j] = row] /\ Yields(a, row)
        <3>1. Yields(a, [Unleased(a) EXCEPT !.status = s, !.resolution = x])
            BY <1>1, <2>3, ResolvedYields
        <3> QED
            BY <2>5, <3>1
    <2> QED
        BY <1>1, <2>2, <2>4, <2>5
<1>6. ASSUME NEW result, NEW u, FinalizeSuccess(w, j, result, u)
      PROVE  \E row : job' = [job EXCEPT ![j] = row] /\ Yields(job[j], row)
    <2> PICK b : b = [Unleased(a) EXCEPT !.status = "succeeded", !.result = result]
        OBVIOUS
    <2>1. job' = [job EXCEPT ![j] = b]
        BY <1>1, <1>6 DEF FinalizeSuccess
    <2>2. b.status = "succeeded" /\ b.token = NoToken /\ b.expired = FALSE
        BY <1>1 DEF Unleased, JobRow
    <2>3. Yields(a, b)
        BY <2>2, FreeYields DEF SlotStatus
    <2> QED
        BY <1>1, <2>1, <2>3
<1>7. ASSUME NEW d, NEW calls, NEW u, FinalizeFailure(w, j, d, calls, u)
      PROVE  \E row : job' = [job EXCEPT ![j] = row] /\ Yields(job[j], row)
    <2>1. PICK s \in {"cancelled", "pending", "indeterminate", "failed"} :
             job' = [job EXCEPT ![j] = [Unleased(@) EXCEPT !.status = s]]
        BY <1>7, Zenon DEF FinalizeFailure
    <2>2. s \notin SlotStatus
        BY DEF SlotStatus
    <2>3. Yields(a, [Unleased(a) EXCEPT !.status = s])
        BY <1>1, <2>2, UnleasedYields
    <2> QED
        BY <1>1, <2>1, <2>3
<1> QED
    BY <1>2, <1>3, <1>4, <1>5, <1>6, <1>7 DEF LeaseStep

\* A reservation, from a claim that holds its slot or into a slot that was counted free.
LEMMA ReserveBound ==
    ASSUME SlotInv, RepoTypeOK', NEW w \in Tokens, NEW j \in Jobs, NEW kind \in Kinds,
           ReserveAttempt(w, j, kind)
    PROVE  SlotBound'
<1> PICK a : a = job[j]
    OBVIOUS
<1> PICK b : b = [a EXCEPT !.status = "reserved"]
    OBVIOUS
<1>1. a \in JobRow /\ LeaseFits(a) /\ job[j] = a /\ job \in [Jobs -> JobRow]
    BY BoundAsRows DEF SlotInv, RepoTypeOK
<1>2. job' = [job EXCEPT ![j] = b]
    BY <1>1 DEF ReserveAttempt
<1>3. a.token = w /\ ~a.expired
    BY <1>1 DEF ReserveAttempt, CanReserve, HoldsClaim
<1>4. b.status = "reserved" /\ b.token = a.token /\ b.expired = a.expired
    BY <1>1 DEF JobRow
<1>5. CASE a.status = "claimed"
    <2>1. Yields(a, b)
        BY <1>3, <1>4, <1>5, HeldYields DEF MayHoldLease, SlotStatus, Occupies
    <2> QED
        BY <1>1, <1>2, <2>1, OneRowYields
<1>6. CASE a.status # "claimed"
    <2>1. Cardinality(InSlot(job)) < SlotLimit
        BY <1>1, <1>6 DEF ReserveAttempt, HasFreeSlot
    <2>2. LeaseFits(b)
        BY <1>1, <1>3, <1>4 DEF LeaseFits, MayHoldLease, SlotStatus
    <2>3. \A k \in Jobs \ {j} : Yields(job[k], job'[k])
        BY <1>1, <1>2, BoundAsRows DEF Yields, SlotInv
    <2>4. LeaseFits(job'[j])
        BY <1>1, <1>2, <2>2
    <2> QED
        BY <2>1, <2>3, <2>4, OneEnters
<1> QED
    BY <1>5, <1>6

\* The rows a claim selects from.
LEMMA BeforeClaimYields ==
    ASSUME SlotInv, NEW hits \in BOOLEAN, NEW k \in Jobs
    PROVE  Yields(job[k], JobsBeforeClaim(hits)[k])
<1> PICK a : a = JobsAfter(DueNow)[k]
    OBVIOUS
<1> PICK b : b = [a EXCEPT !.status = "cached", !.result = cache[CacheKey[k]]]
    OBVIOUS
<1>1. a \in JobRow /\ Yields(job[k], a)
    BY AfterTyped, RecoveredYields DEF SlotInv
<1>2. \/ JobsBeforeClaim(hits)[k] = a
      \/ a.status = "pending" /\ JobsBeforeClaim(hits)[k] = b
    BY DEF JobsBeforeClaim, Materialized, CacheHits
<1>3. b.status = "cached" /\ b.token = a.token /\ b.expired = a.expired
    BY <1>1 DEF JobRow
<1>4. a.status = "pending" => a.token = NoToken /\ a.expired = FALSE
    BY <1>1 DEF Yields, LeaseFits, MayHoldLease, SlotStatus, JobRow
<1>5. a.status = "pending" => Yields(job[k], b)
    BY <1>3, <1>4, FreeYields DEF SlotStatus
<1> QED
    BY <1>1, <1>2, <1>5

\* A claim: a continuation gets a lease and no slot, a pending job the slot that was
\* counted free in the same transaction, after the expired leases were recovered.
LEMMA ClaimStepBound ==
    ASSUME SlotInv, RepoTypeOK', NEW r \in Runs, NEW hits \in BOOLEAN, ClaimStep(r, hits)
    PROVE  SlotBound'
<1> PICK rows : rows = JobsBeforeClaim(hits)
    OBVIOUS
<1>1. rows \in [Jobs -> JobRow]
    BY BeforeClaimTyped DEF SlotInv
<1>2. \A k \in Jobs : Yields(job[k], rows[k])
    BY BeforeClaimYields
<1>3. CASE ClaimNothing(r, hits)
    <2>1. job' = rows
        BY <1>3 DEF ClaimNothing
    <2> QED
        BY <1>2, <2>1, AllYield
<1>4. ASSUME NEW w \in Tokens, NEW j \in Jobs, ClaimNextJob(w, r, hits, j)
      PROVE  SlotBound'
    <2> PICK b : b = Leased(rows[j], w)
        OBVIOUS
    <2> PICK c : c = [b EXCEPT !.status = "claimed"]
        OBVIOUS
    <2>1. /\ Cardinality(InSlot(rows)) < SlotLimit
          /\ \/ rows[j].status \in {"returned", "validated"} /\ job' = [rows EXCEPT ![j] = b]
             \/ job' = [rows EXCEPT ![j] = c]
        BY <1>4, Zenon DEF ClaimNextJob, First, Continuable
    <2>2. /\ b.status = rows[j].status /\ b.token = w /\ b.expired = FALSE
          /\ c.status = "claimed" /\ c.token = w
        BY <1>1 DEF Leased, JobRow
    <2>3. LeaseFits(c)
        BY <2>2, RepositoryAssumption DEF LeaseFits, MayHoldLease, SlotStatus
    <2>4. rows[j].status \in {"returned", "validated"} => LeaseFits(b)
        BY <2>2, RepositoryAssumption DEF LeaseFits, MayHoldLease, SlotStatus
    <2>5. LeaseFits(job'[j])
        BY <1>1, <2>1, <2>3, <2>4
    <2>6. \A k \in Jobs \ {j} : Yields(rows[k], job'[k])
        BY <1>1, <1>2, <2>1 DEF Yields
    <2> QED
        BY <2>1, <2>5, <2>6, OneEnters
<1> QED
    BY <1>3, <1>4 DEF ClaimStep

\* Every step keeps the leases in order and the slots within their limit.
LEMMA NextSlots == SlotInv /\ [RepoNext]_repoVars => SlotInv'
<1> SUFFICES ASSUME SlotInv, [RepoNext]_repoVars PROVE SlotInv'
    OBVIOUS
<1>1. RepoTypeOK'
    BY NextTyped DEF SlotInv
<1>2. \A k \in Jobs : Yields(job[k], job[k])
    BY BoundAsRows DEF SlotInv, Yields
<1>3. ASSUME RecoverExpiredLeases PROVE SlotBound'
    BY <1>1, <1>3, RecoveredYields, AllYield DEF RecoverExpiredLeases
<1>4. ASSUME NEW r \in Runs, RunStep(r) PROVE SlotBound'
    BY <1>1, <1>4, RunStepYields, AllYield
<1>5. ASSUME NEW j \in Jobs, JobStep(j) PROVE SlotBound'
    BY <1>1, <1>5, JobStepYields, OneRowYields
<1>6. ASSUME NEW w \in Tokens, NEW j \in Jobs, LeaseStep(w, j) PROVE SlotBound'
    BY <1>1, <1>6, ReserveBound, LeaseStepYields, OneRowYields
<1>7. ASSUME NEW r \in Runs, NEW hits \in BOOLEAN, ClaimStep(r, hits) PROVE SlotBound'
    BY <1>1, <1>7, ClaimStepBound
<1>8. ASSUME UNCHANGED repoVars PROVE SlotBound'
    <2>1. job' = job
        BY <1>8 DEF repoVars
    <2>2. \A k \in Jobs : Yields(job[k], job'[k])
        BY <1>2, <2>1
    <2> QED
        BY <1>1, <2>2, AllYield
<1>9. SlotBound'
    BY <1>3, <1>4, <1>5, <1>6, <1>7, <1>8 DEF RepoNext
<1> QED
    BY <1>1, <1>9 DEF SlotInv

\* No lease is held and no slot is taken when the runs are created.
LEMMA InitSlots == RepoInit => SlotInv
<1> SUFFICES ASSUME RepoInit PROVE SlotInv
    OBVIOUS
<1>1. \A j \in Jobs : /\ job[j].token = NoToken /\ job[j].expired = FALSE
                      /\ job[j].status \in {"absent", "pending"}
    BY DEF RepoInit, FreshJob
<1>2. InSlot(job) = {}
    BY <1>1 DEF InSlot, SlotStatus
<1>3. Cardinality(InSlot(job)) <= SlotLimit
    BY <1>2, FS_EmptySet, RepositoryAssumption
<1>4. \A j \in Jobs : LeaseFits(job[j])
    BY <1>1 DEF LeaseFits, SlotStatus
<1> QED
    BY <1>3, <1>4, InitTyped, BoundAsRows DEF SlotInv

\* At most the global limit of submissions is under way over all runs, and a job holds a
\* lease only while somebody may be working on it.
THEOREM SlotsAreBounded == RepoSpec => []SlotBound
<1>1. SlotInv => SlotBound
    BY DEF SlotInv
<1> QED
    BY <1>1, InitSlots, NextSlots, PTL DEF RepoSpec

-----------------------------------------------------------------------------
(* The status of a run is derived from the rows of its jobs.  A transaction that     *)
(* does not derive it again leaves the rows of every run as they count: with the     *)
(* same statuses and resolutions, or with work still to be done.                     *)

\* The stored status of run r is what its rows make of it.
FreshIn(r, runs, rows) ==
    runs[r].status # "prepared" => runs[r].status = RunStatusFor(r, rows, runs[r].cancel)

\* Rows of run r that count alike.
SameCount(r, a, b) ==
    \/ \A j \in JobsOf(r) : b[j].status = a[j].status /\ b[j].resolution = a[j].resolution
    \/ /\ \E j \in JobsOf(r) : a[j].status \in Unfinished
       /\ \E j \in JobsOf(r) : b[j].status \in Unfinished

\* While a job of the run is unfinished, nothing else counts.
LEMMA UnfinishedRuns ==
    ASSUME NEW r, NEW rows, NEW cancel, NEW j \in JobsOf(r), rows[j].status \in Unfinished
    PROVE  RunStatusFor(r, rows, cancel) = IF cancel THEN "cancelling" ELSE "running"
<1> PICK statuses : statuses = {rows[i].status : i \in JobsOf(r)}
    OBVIOUS
<1>1. Unfinished \cap statuses # {}
    OBVIOUS
<1> QED
    BY <1>1 DEF RunStatusFor

LEMMA AlikeCounts ==
    ASSUME NEW r, NEW a, NEW b, NEW cancel, SameCount(r, a, b)
    PROVE  RunStatusFor(r, b, cancel) = RunStatusFor(r, a, cancel)
<1>1. CASE \A j \in JobsOf(r) : b[j].status = a[j].status /\ b[j].resolution = a[j].resolution
    <2>1. {b[j].status : j \in JobsOf(r)} = {a[j].status : j \in JobsOf(r)}
        BY <1>1
    <2>2. {i \in JobsOf(r) : b[i].status = "finalized"}
             = {i \in JobsOf(r) : a[i].status = "finalized"}
        BY <1>1
    <2>3. {b[j].resolution : j \in {i \in JobsOf(r) : b[i].status = "finalized"}}
             = {a[j].resolution : j \in {i \in JobsOf(r) : a[i].status = "finalized"}}
        BY <1>1, <2>2
    <2> QED
        BY <2>1, <2>3 DEF RunStatusFor
<1>2. CASE ~\A j \in JobsOf(r) : b[j].status = a[j].status
                                   /\ b[j].resolution = a[j].resolution
    <2>1. PICK i \in JobsOf(r) : a[i].status \in Unfinished
        BY <1>2 DEF SameCount
    <2>2. PICK j \in JobsOf(r) : b[j].status \in Unfinished
        BY <1>2 DEF SameCount
    <2> QED
        BY <2>1, <2>2, UnfinishedRuns
<1> QED
    BY <1>1, <1>2

\* A run whose row and whose jobs' rows count as before.
LEMMA StaysFresh ==
    ASSUME NEW r \in Runs, FreshIn(r, run, job), NEW runs, NEW rows,
           runs[r].status = run[r].status, runs[r].cancel = run[r].cancel,
           SameCount(r, job, rows)
    PROVE  FreshIn(r, runs, rows)
BY AlikeCounts DEF FreshIn

\* Deriving the status of the touched runs, when the jobs of the others stand still.
LEMMA RunsAfterFresh ==
    ASSUME RepoTypeOK, NEW touched, NEW rows, NEW r \in Runs, FreshIn(r, run, job),
           r \in touched \/ SameCount(r, job, rows)
    PROVE  FreshIn(r, RunsAfter(touched, rows), rows)
<1>1. run \in [Runs -> RunRow]
    BY DEF RepoTypeOK
<1>2. CASE r \in touched
    BY <1>1, <1>2 DEF FreshIn, RunsAfter, RunRow
<1>3. CASE r \notin touched
    <2>1. RunsAfter(touched, rows)[r] = run[r]
        BY <1>3 DEF RunsAfter
    <2> QED
        BY <1>3, <2>1, StaysFresh
<1> QED
    BY <1>2, <1>3

\* A transaction that writes one row and derives the status of that job's run.
LEMMA RefreshedFresh ==
    ASSUME RepoTypeOK, RunStatusFresh, NEW j \in Jobs, NEW row,
           job' = [job EXCEPT ![j] = row], run' = Refreshed(RunOf[j], job')
    PROVE  RunStatusFresh'
<1>1. run \in [Runs -> RunRow] /\ job \in [Jobs -> JobRow]
    BY DEF RepoTypeOK
<1>2. ASSUME NEW r \in Runs PROVE FreshIn(r, run', job')
    <2>1. FreshIn(r, run, job)
        BY DEF RunStatusFresh, FreshIn
    <2>2. CASE r = RunOf[j]
        BY <1>1, <2>2 DEF FreshIn, Refreshed, RunRow
    <2>3. CASE r # RunOf[j]
        <3>1. run'[r] = run[r]
            BY <1>1, <2>3 DEF Refreshed
        <3>2. SameCount(r, job, job')
            BY <1>1, <2>3 DEF SameCount, JobsOf
        <3> QED
            BY <2>1, <3>1, <3>2, StaysFresh
    <2> QED
        BY <2>2, <2>3
<1> QED
    BY <1>2 DEF RunStatusFresh, FreshIn

\* A transaction that writes one row of work still to be done and leaves the runs.
LEMMA UnrefreshedFresh ==
    ASSUME RepoTypeOK, RunStatusFresh, NEW j \in Jobs, NEW row,
           job' = [job EXCEPT ![j] = row], run' = run,
           \/ row.status = job[j].status /\ row.resolution = job[j].resolution
           \/ row.status \in Unfinished /\ job[j].status \in Unfinished
    PROVE  RunStatusFresh'
<1>1. job \in [Jobs -> JobRow]
    BY DEF RepoTypeOK
<1>2. ASSUME NEW r \in Runs PROVE FreshIn(r, run', job')
    <2>1. FreshIn(r, run, job)
        BY DEF RunStatusFresh, FreshIn
    <2>2. SameCount(r, job, job')
        BY <1>1 DEF SameCount, JobsOf
    <2> QED
        BY <2>1, <2>2, StaysFresh
<1> QED
    BY <1>2 DEF RunStatusFresh, FreshIn

\* A run that is set running has a job to be done and is not cancelled.
LEMMA RunningFresh ==
    ASSUME NEW r \in Runs, NEW runs \in [Runs -> RunRow], NEW rows, NEW j \in JobsOf(r),
           rows[j].status \in Unfinished, ~runs[r].cancel
    PROVE  /\ FreshIn(r, [runs EXCEPT ![r].status = "running"], rows)
           /\ \A q \in Runs \ {r} : [runs EXCEPT ![r].status = "running"][q] = runs[q]
<1> PICK new : new = [runs[r] EXCEPT !.status = "running"]
    OBVIOUS
<1>1. new.status = "running" /\ new.cancel = runs[r].cancel
    BY DEF RunRow
<1>2. [runs EXCEPT ![r].status = "running"] = [runs EXCEPT ![r] = new]
    OBVIOUS
<1>3. [runs EXCEPT ![r].status = "running"][r] = new
    BY <1>2
<1>4. RunStatusFor(r, rows, runs[r].cancel) = "running"
    BY UnfinishedRuns
<1> QED
    BY <1>1, <1>2, <1>3, <1>4 DEF FreshIn

\* The transactions on a run.
LEMMA RunStepFresh ==
    ASSUME RepoTypeOK, RunStatusFresh, NEW r \in Runs, RunStep(r)
    PROVE  RunStatusFresh'
<1>1. run \in [Runs -> RunRow] /\ job \in [Jobs -> JobRow]
    BY DEF RepoTypeOK
<1>2. \A q \in Runs : FreshIn(q, run, job)
    BY DEF RunStatusFresh, FreshIn
<1>3. ASSUME NEW q \in Runs PROVE FreshIn(q, run', job')
    <2>1. CASE StoreRunApproval(r)
        <3>1. job' = job /\ run' = [run EXCEPT ![r] = [run[r] EXCEPT !.approved = TRUE]]
            BY <1>1, <2>1 DEF StoreRunApproval
        <3>2. run'[q].status = run[q].status /\ run'[q].cancel = run[q].cancel
            BY <1>1, <3>1 DEF RunRow
        <3>3. SameCount(q, job, job')
            BY <3>1 DEF SameCount
        <3> QED
            BY <1>2, <3>2, <3>3, StaysFresh
    <2>2. CASE CancelRun(r)
        <3> PICK c : c = CancelFlag(r)
            OBVIOUS
        <3>1. run' = [run EXCEPT ![r].cancel = c, ![r].status = RunStatusFor(r, job', c)]
            BY <2>2 DEF CancelRun
        <3>2. run' = [run EXCEPT ![r] = [run[r] EXCEPT !.cancel = c,
                                                       !.status = RunStatusFor(r, job', c)]]
            BY <1>1, <3>1
        <3>3. CASE q = r
            BY <1>1, <3>2, <3>3 DEF FreshIn, RunRow
        <3>4. CASE q # r
            <4>1. run'[q] = run[q]
                BY <1>1, <3>2, <3>4
            <4>2. SameCount(q, job, job')
                BY <2>2, <3>4 DEF CancelRun, SameCount, JobsOf
            <4> QED
                BY <1>2, <4>1, <4>2, StaysFresh
        <3> QED
            BY <3>3, <3>4
    <2>3. CASE RecoverRun(r)
        <3> PICK touched : touched = {r} \cup {RunOf[j] : j \in DueNow}
            OBVIOUS
        <3>1. run' = RunsAfter(touched, job')
            BY <2>3 DEF RecoverRun
        <3>2. q \in touched \/ SameCount(q, job, job')
            <4>1. ASSUME q \notin touched, NEW j \in JobsOf(q)
                  PROVE  job'[j] = job[j]
                <5>1. j \in Jobs /\ j \notin Lost(r) /\ j \notin DueInRun(r)
                    BY <4>1 DEF JobsOf, Lost, DueInRun, DueNow
                <5> QED
                    BY <2>3, <5>1 DEF RecoverRun, JobsAfter
            <4> QED
                BY <4>1 DEF SameCount
        <3>3. FreshIn(q, RunsAfter(touched, job'), job')
            BY <1>2, <3>2, RunsAfterFresh
        <3> QED
            BY <3>1, <3>3
    <2>4. CASE ActivateResumableJobs(r)
        <3>1. run' = Refreshed(r, job')
            BY <2>4 DEF ActivateResumableJobs
        <3>2. CASE q = r
            BY <1>1, <3>1, <3>2 DEF FreshIn, Refreshed, RunRow
        <3>3. CASE q # r
            <4>1. run'[q] = run[q]
                BY <1>1, <3>1, <3>3 DEF Refreshed
            <4>2. SameCount(q, job, job')
                BY <2>4, <3>3 DEF ActivateResumableJobs, SameCount, JobsOf
            <4> QED
                BY <1>2, <4>1, <4>2, StaysFresh
        <3> QED
            BY <3>2, <3>3
    <2> QED
        BY <2>1, <2>2, <2>3, <2>4 DEF RunStep
<1> QED
    BY <1>3 DEF RunStatusFresh, FreshIn

\* The transactions on a job without a lease.
LEMMA JobStepFresh ==
    ASSUME RepoTypeOK, RunStatusFresh, NEW j \in Jobs, JobStep(j)
    PROVE  RunStatusFresh'
<1> PICK a : a = job[j]
    OBVIOUS
<1>1. a \in JobRow /\ job[j] = a /\ job \in [Jobs -> JobRow] /\ RunOf[j] \in Runs
    BY RepositoryAssumption DEF RepoTypeOK
<1>2. CASE StoreRetryApproval(j)
    <2> PICK b : b = [a EXCEPT !.status = "pending", !.resolution = "none"]
        OBVIOUS
    <2>1. job' = [job EXCEPT ![j] = b]
        BY <1>1, <1>2 DEF StoreRetryApproval
    <2>2. job'[j].status = "pending"
        BY <1>1, <2>1 DEF JobRow
    <2>3. /\ ~run[RunOf[j]].cancel /\ j \in JobsOf(RunOf[j])
          /\ run' = [run EXCEPT ![RunOf[j]].status = "running"]
        BY <1>2 DEF StoreRetryApproval, Cancelled, JobsOf
    <2>4. /\ FreshIn(RunOf[j], run', job')
          /\ \A q \in Runs \ {RunOf[j]} : run'[q] = run[q]
        BY <1>1, <2>2, <2>3, RunningFresh DEF Unfinished, RepoTypeOK
    <2>5. ASSUME NEW q \in Runs, q # RunOf[j] PROVE FreshIn(q, run', job')
        <3>1. FreshIn(q, run, job)
            BY DEF RunStatusFresh, FreshIn
        <3>2. SameCount(q, job, job')
            BY <1>1, <2>1, <2>5 DEF SameCount, JobsOf
        <3>3. run'[q] = run[q]
            BY <2>4, <2>5
        <3> QED
            BY <3>1, <3>2, <3>3, StaysFresh
    <2>6. \A q \in Runs : FreshIn(q, run', job')
        BY <2>4, <2>5
    <2> QED
        BY <2>6 DEF RunStatusFresh, FreshIn
<1>3. CASE RegisterJob(j)
    <2>1. /\ job' = [job EXCEPT ![j] = FreshJob("pending")]
          /\ run' = Refreshed(RunOf[j], job')
        BY <1>3 DEF RegisterJob
    <2> QED
        BY <2>1, RefreshedFresh
<1>4. CASE ExpireLease(j)
    <2> PICK b : b = [a EXCEPT !.expired = TRUE]
        OBVIOUS
    <2>1. job' = [job EXCEPT ![j] = b] /\ run' = run
        BY <1>1, <1>4 DEF ExpireLease
    <2>2. b.status = a.status /\ b.resolution = a.resolution
        BY <1>1 DEF JobRow
    <2> QED
        BY <1>1, <2>1, <2>2, UnrefreshedFresh
<1>5. CASE StoreCache(j)
    <2> PICK b : b = [a EXCEPT !.status = "cache_stored"]
        OBVIOUS
    <2>1. /\ job' = [job EXCEPT ![j] = b] /\ run' = run
          /\ a.status \in {"validated", "cache_stored"}
        BY <1>1, <1>5 DEF StoreCache, MayStore
    <2>2. b.status = "cache_stored"
        BY <1>1 DEF JobRow
    <2> QED
        BY <1>1, <2>1, <2>2, UnrefreshedFresh DEF Unfinished
<1>6. CASE DeferResumableJob(j)
    <2> PICK b : b = [a EXCEPT !.status = "finalized", !.resolution = "resumable"]
        OBVIOUS
    <2>1. job' = [job EXCEPT ![j] = b] /\ run' = Refreshed(RunOf[j], job')
        BY <1>1, <1>6 DEF DeferResumableJob
    <2> QED
        BY <2>1, RefreshedFresh
<1>7. ASSUME NEW res, FinalizeJob(j, res) PROVE RunStatusFresh'
    <2>1. /\ \E row : job' = [job EXCEPT ![j] = row]
          /\ run' = Refreshed(RunOf[j], job')
        BY <1>7 DEF FinalizeJob
    <2> QED
        BY <2>1, RefreshedFresh
<1>8. ASSUME NEW c, RecordContinuation(j, c) PROVE RunStatusFresh'
    <2> PICK b : b = [a EXCEPT !.cont = c, !.contAt = Len(attempts[j])]
        OBVIOUS
    <2>1. job' = [job EXCEPT ![j] = b] /\ run' = run
        BY <1>1, <1>8 DEF RecordContinuation
    <2>2. b.status = a.status /\ b.resolution = a.resolution
        BY <1>1 DEF JobRow
    <2> QED
        BY <1>1, <2>1, <2>2, UnrefreshedFresh
<1>9. ASSUME NEW result, PublishJob(j, result) PROVE RunStatusFresh'
    <2> PICK b : b = [a EXCEPT !.status = "published"]
        OBVIOUS
    <2>1. job' = [job EXCEPT ![j] = b] /\ run' = Refreshed(RunOf[j], job')
        BY <1>1, <1>9 DEF PublishJob
    <2> QED
        BY <2>1, RefreshedFresh
<1>10. ASSUME NEW o, NEW result, NEW key, RecordValidated(j, o, result, key)
       PROVE  RunStatusFresh'
    <2> PICK b : b = [a EXCEPT !.status = "validated", !.result = result, !.key = key]
        OBVIOUS
    <2>1. /\ run' = run
          /\ \/ a.status \in {"claimed", "returned", "validated"} /\ job' = [job EXCEPT ![j] = b]
             \/ job' = [job EXCEPT ![j] = a]
        BY <1>1, <1>10 DEF RecordValidated
    <2>2. b.status = "validated"
        BY <1>1 DEF JobRow
    <2> QED
        BY <1>1, <2>1, <2>2, UnrefreshedFresh DEF Unfinished
<1> QED
    BY <1>2, <1>3, <1>4, <1>5, <1>6, <1>7, <1>8, <1>9, <1>10 DEF JobStep

\* The transactions of a claim holder.
LEMMA LeaseStepFresh ==
    ASSUME RepoTypeOK, RunStatusFresh, NEW w \in Tokens, NEW j \in Jobs, LeaseStep(w, j)
    PROVE  RunStatusFresh'
<1> PICK a : a = job[j]
    OBVIOUS
<1>1. a \in JobRow /\ job[j] = a /\ job \in [Jobs -> JobRow]
    BY DEF RepoTypeOK
<1>2. CASE ReclaimJob(w, j)
    <2> PICK b : b = Leased(a, w)
        OBVIOUS
    <2>1. job' = [job EXCEPT ![j] = b] /\ run' = run
        BY <1>1, <1>2 DEF ReclaimJob
    <2>2. b.status = a.status /\ b.resolution = a.resolution
        BY <1>1 DEF JobRow, Leased
    <2> QED
        BY <1>1, <2>1, <2>2, UnrefreshedFresh
<1>3. CASE ReleaseClaim(w, j)
    <2>1. job' = [job EXCEPT ![j] = Released(a)] /\ run' = Refreshed(RunOf[j], job')
        BY <1>1, <1>3 DEF ReleaseClaim
    <2> QED
        BY <2>1, RefreshedFresh
<1>4. CASE MarkTransmitting(w, j)
    <2> PICK b : b = [a EXCEPT !.status = "submitting"]
        OBVIOUS
    <2>1. job' = [job EXCEPT ![j] = b] /\ run' = run /\ a.status = "reserved"
        BY <1>1, <1>4 DEF MarkTransmitting, MayMark, HoldsClaim
    <2>2. b.status = "submitting"
        BY <1>1 DEF JobRow
    <2> QED
        BY <1>1, <2>1, <2>2, UnrefreshedFresh DEF Unfinished
<1>5. ASSUME NEW kind, ReserveAttempt(w, j, kind) PROVE RunStatusFresh'
    <2> PICK b : b = [a EXCEPT !.status = "reserved"]
        OBVIOUS
    <2>1. /\ job' = [job EXCEPT ![j] = b] /\ run' = run
          /\ a.status \in {"claimed", "returned", "validated"}
        BY <1>1, <1>5 DEF ReserveAttempt, CanReserve, HoldsClaim
    <2>2. b.status = "reserved"
        BY <1>1 DEF JobRow
    <2> QED
        BY <1>1, <2>1, <2>2, UnrefreshedFresh DEF Unfinished
<1>6. ASSUME NEW d \in Disposition \ {"not_started"}, NEW response, NEW defer, NEW calls,
             NEW u, CompleteAttempt(w, j, d, response, calls, u, defer)
      PROVE  RunStatusFresh'
    <2>1. a.status \in {"reserved", "submitting"}
        BY <1>1, <1>6 DEF CompleteAttempt, Completable
    <2>2. \/ job' = [job EXCEPT ![j] = [@ EXCEPT !.status = "returned"]] /\ run' = run
          \/ \E row : job' = [job EXCEPT ![j] = row] /\ run' = Refreshed(RunOf[j], job')
        BY <1>6, Zenon DEF CompleteAttempt
    <2>3. [a EXCEPT !.status = "returned"].status = "returned"
        BY <1>1 DEF JobRow
    <2> QED
        BY <1>1, <2>1, <2>2, <2>3, RefreshedFresh, UnrefreshedFresh DEF Unfinished
<1>7. ASSUME NEW result, NEW u, FinalizeSuccess(w, j, result, u) PROVE RunStatusFresh'
    <2>1. /\ \E row : job' = [job EXCEPT ![j] = row]
          /\ run' = Refreshed(RunOf[j], job')
        BY <1>7 DEF FinalizeSuccess
    <2> QED
        BY <2>1, RefreshedFresh
<1>8. ASSUME NEW d, NEW calls, NEW u, FinalizeFailure(w, j, d, calls, u)
      PROVE  RunStatusFresh'
    <2>1. /\ \E row : job' = [job EXCEPT ![j] = row]
          /\ run' = Refreshed(RunOf[j], job')
        BY <1>8 DEF FinalizeFailure
    <2> QED
        BY <2>1, RefreshedFresh
<1> QED
    BY <1>2, <1>3, <1>4, <1>5, <1>6, <1>7, <1>8 DEF LeaseStep

\* Recovering the expired leases, and answering from the cache, derive the status of
\* every run they touch.
LEMMA BeforeClaimFresh ==
    ASSUME RepoTypeOK, RunStatusFresh, NEW hits \in BOOLEAN, NEW q \in Runs
    PROVE  FreshIn(q, RunsBeforeClaim(hits), JobsBeforeClaim(hits))
<1> PICK rows : rows = JobsBeforeClaim(hits)
    OBVIOUS
<1> PICK touched : touched = {RunOf[j] : j \in DueNow}
              \cup {RunOf[j] : j \in IF hits THEN CacheHits(JobsAfter(DueNow)) ELSE {}}
    OBVIOUS
<1>1. q \in touched \/ SameCount(q, job, rows)
    <2>1. ASSUME q \notin touched, NEW j \in JobsOf(q) PROVE rows[j] = job[j]
        <3>1. j \in Jobs /\ j \notin DueNow /\ (hits => j \notin CacheHits(JobsAfter(DueNow)))
            BY <2>1 DEF JobsOf
        <3>2. JobsAfter(DueNow)[j] = job[j]
            BY <3>1 DEF JobsAfter
        <3> QED
            BY <3>1, <3>2 DEF JobsBeforeClaim, Materialized
    <2> QED
        BY <2>1 DEF SameCount
<1>2. FreshIn(q, run, job)
    BY DEF RunStatusFresh, FreshIn
<1>3. FreshIn(q, RunsAfter(touched, rows), rows)
    BY <1>1, <1>2, RunsAfterFresh
<1> QED
    BY <1>3 DEF RunsBeforeClaim

\* A claim of a pending job sets its run running; a continuation leaves it.
LEMMA ClaimStepFresh ==
    ASSUME RepoTypeOK, RunStatusFresh, NEW r \in Runs, NEW hits \in BOOLEAN,
           ClaimStep(r, hits), NEW q \in Runs
    PROVE  FreshIn(q, run', job')
<1> PICK rows : rows = JobsBeforeClaim(hits)
    OBVIOUS
<1> PICK runs : runs = RunsBeforeClaim(hits)
    OBVIOUS
<1>1. rows \in [Jobs -> JobRow] /\ runs \in [Runs -> RunRow]
    BY BeforeClaimTyped
<1>2. \A p \in Runs : FreshIn(p, runs, rows)
    BY BeforeClaimFresh
<1>3. CASE ClaimNothing(r, hits)
    BY <1>2, <1>3 DEF ClaimNothing
<1>4. ASSUME NEW w \in Tokens, NEW j \in Jobs, ClaimNextJob(w, r, hits, j)
      PROVE  FreshIn(q, run', job')
    <2> PICK b : b = Leased(rows[j], w)
        OBVIOUS
    <2> PICK c : c = [b EXCEPT !.status = "claimed"]
        OBVIOUS
    <2>1. \/ job' = [rows EXCEPT ![j] = b] /\ run' = runs
          \/ /\ Startable(j, r, rows, runs)
             /\ job' = [rows EXCEPT ![j] = c]
             /\ run' = [runs EXCEPT ![r].status = "running"]
        BY <1>4, Zenon DEF ClaimNextJob, First
    <2>2. /\ b.status = rows[j].status /\ b.resolution = rows[j].resolution
          /\ c.status = "claimed"
        BY <1>1 DEF Leased, JobRow
    <2>3. CASE job' = [rows EXCEPT ![j] = b] /\ run' = runs
        <3>1. SameCount(q, rows, job')
            BY <1>1, <2>2, <2>3 DEF SameCount, JobsOf
        <3>2. RunStatusFor(q, job', runs[q].cancel) = RunStatusFor(q, rows, runs[q].cancel)
            BY <3>1, AlikeCounts
        <3> QED
            BY <1>2, <2>3, <3>2 DEF FreshIn
    <2>4. CASE /\ Startable(j, r, rows, runs)
               /\ job' = [rows EXCEPT ![j] = c]
               /\ run' = [runs EXCEPT ![r].status = "running"]
        <3>1. j \in JobsOf(r) /\ ~runs[r].cancel /\ job'[j].status \in Unfinished
            BY <1>1, <2>2, <2>4 DEF Startable, JobsOf, Unfinished
        <3>2. /\ FreshIn(r, run', job')
              /\ \A p \in Runs \ {r} : run'[p] = runs[p]
            BY <1>1, <2>4, <3>1, RunningFresh
        <3>3. ASSUME q # r PROVE FreshIn(q, run', job')
            <4>1. SameCount(q, rows, job')
                BY <1>1, <2>4, <3>1, <3>3 DEF SameCount, JobsOf
            <4>2. RunStatusFor(q, job', runs[q].cancel) = RunStatusFor(q, rows, runs[q].cancel)
                BY <4>1, AlikeCounts
            <4> QED
                BY <1>2, <3>2, <3>3, <4>2 DEF FreshIn
        <3> QED
            BY <3>2, <3>3
    <2> QED
        BY <2>1, <2>3, <2>4
<1> QED
    BY <1>3, <1>4 DEF ClaimStep

\* Every step leaves the stored status of every run what its rows make of it.
LEMMA NextFresh ==
    RepoTypeOK /\ RunStatusFresh /\ [RepoNext]_repoVars => RunStatusFresh'
<1> SUFFICES ASSUME RepoTypeOK, RunStatusFresh, [RepoNext]_repoVars PROVE RunStatusFresh'
    OBVIOUS
<1>1. CASE RecoverExpiredLeases
    <2> PICK touched : touched = {RunOf[j] : j \in DueNow}
        OBVIOUS
    <2>1. job' = JobsAfter(DueNow) /\ run' = RunsAfter(touched, job')
        BY <1>1 DEF RecoverExpiredLeases
    <2>2. ASSUME NEW q \in Runs PROVE FreshIn(q, run', job')
        <3>1. q \in touched \/ SameCount(q, job, job')
            BY <2>1 DEF SameCount, JobsAfter, JobsOf
        <3>2. FreshIn(q, run, job)
            BY DEF RunStatusFresh, FreshIn
        <3>3. FreshIn(q, RunsAfter(touched, job'), job')
            BY <3>1, <3>2, RunsAfterFresh
        <3> QED
            BY <2>1, <3>3
    <2> QED
        BY <2>2 DEF RunStatusFresh, FreshIn
<1>2. CASE \E r \in Runs : RunStep(r)
    BY <1>2, RunStepFresh
<1>3. CASE \E j \in Jobs : JobStep(j)
    BY <1>3, JobStepFresh
<1>4. CASE \E w \in Tokens, j \in Jobs : LeaseStep(w, j)
    BY <1>4, LeaseStepFresh
<1>5. ASSUME NEW r \in Runs, NEW hits \in BOOLEAN, ClaimStep(r, hits)
      PROVE  RunStatusFresh'
    BY <1>5, ClaimStepFresh DEF RunStatusFresh, FreshIn
<1>6. CASE UNCHANGED repoVars
    <2>1. job' = job /\ run' = run
        BY <1>6 DEF repoVars
    <2>2. \A q \in Runs : FreshIn(q, run', job')
        BY <2>1 DEF RunStatusFresh, FreshIn
    <2> QED
        BY <2>2 DEF RunStatusFresh, FreshIn
<1> QED
    BY <1>1, <1>2, <1>3, <1>4, <1>5, <1>6 DEF RepoNext

\* The stored status of a run is always the one its jobs' rows make, although a third of
\* the transactions that write a row do not derive it again.
THEOREM RunStatusIsDerived == RepoSpec => []RunStatusFresh
<1>1. RepoInit => RunStatusFresh
    BY DEF RepoInit, RunStatusFresh
<1>2. RepoTypeOK /\ RunStatusFresh /\ [RepoNext]_repoVars => RunStatusFresh'
    BY NextFresh
<1> QED
    BY <1>1, <1>2, TypeCorrect, PTL DEF RepoSpec

-----------------------------------------------------------------------------
(* The refinement of CallLedger.  An attempt is a call of the ledger, the approved    *)
(* attempt the granted call.  The invariant behind it: fates are consistent, retries  *)
(* point backwards, and only a published job has an outcome.                          *)

OutcomeIsPublished(k) == published[k] # NoResult => job[k].status = "published"

LedgerInv == FateInv /\ ApprovalInv /\ \A k \in Jobs : OutcomeIsPublished(k)

CallOf(a) == [kind |-> a.kind, fate |-> FateOf(a), repeats |-> a.retryOf]
LedgerOf(s) == [o \in DOMAIN s |-> CallOf(s[o])]
Approved(s) == {o \in DOMAIN s : s[o].approval # "none"}
GrantedOf(s) == IF Approved(s) = {} THEN 0 ELSE Max(Approved(s))

\* The refinement mapping, job by job.
LEMMA LedgerRows ==
    /\ LedgerCalls = [j \in Jobs |-> LedgerOf(attempts[j])]
    /\ LedgerCalls' = [j \in Jobs |-> LedgerOf(attempts'[j])]
    /\ LedgerGranted = [j \in Jobs |-> GrantedOf(attempts[j])]
    /\ LedgerGranted' = [j \in Jobs |-> GrantedOf(attempts'[j])]
BY DEF LedgerCalls, LedgerOf, CallOf, LedgerGranted, GrantedOf, Approved, ApprovedOf

\* The ledger of a sequence of attempts is a sequence of calls.
LEMMA CallTyped ==
    ASSUME NEW a \in AttemptRow
    PROVE  CallOf(a) \in Ledger!Call
<1>1. FateOf(a) \in Ledger!Fate
    BY DEF FateOf, Ledger!Fate
<1>2. a.kind \in PrimaryKinds \cup ContinuationKinds /\ a.retryOf \in Nat
    BY DEF AttemptRow, Kinds
<1> QED
    BY <1>1, <1>2 DEF CallOf, Ledger!Call

LEMMA LedgerTyped ==
    ASSUME NEW s \in Seq(AttemptRow)
    PROVE  /\ LedgerOf(s) \in Seq(Ledger!Call) /\ Len(LedgerOf(s)) = Len(s)
           /\ Len(s) \in Nat /\ DOMAIN s = 1..Len(s)
           /\ DOMAIN LedgerOf(s) = 1..Len(s)
           /\ \A o \in 1..Len(s) : LedgerOf(s)[o] = CallOf(s[o])
<1> PICK n : n = Len(s)
    OBVIOUS
<1>1. n \in Nat /\ DOMAIN s = 1..n
    OBVIOUS
<1>2. \A o \in 1..n : s[o] \in AttemptRow
    OBVIOUS
<1>3. LedgerOf(s) \in [1..n -> Ledger!Call]
    BY <1>1, <1>2, CallTyped DEF LedgerOf
<1>4. LedgerOf(s) \in Seq(Ledger!Call)
    BY <1>1, <1>3
<1>5. Len(LedgerOf(s)) = n
    BY <1>1, <1>3, <1>4
<1> QED
    BY <1>1, <1>4, <1>5 DEF LedgerOf

\* The latest approved attempt.
LEMMA MaxOfTop ==
    ASSUME NEW S, NEW n \in S, n \in Nat, \A o \in S : o \in Nat /\ o <= n
    PROVE  Max(S) = n
<1>1. PICK m : m = Max(S)
    OBVIOUS
<1>2. m \in S /\ \A y \in S : m >= y
    BY <1>1 DEF Max
<1> QED
    BY <1>1, <1>2

\* Approvals that stand keep the granted call.
LEMMA SameGrant ==
    ASSUME NEW s, NEW t, \A o \in DOMAIN s : (t[o].approval = "none") <=> (s[o].approval = "none"),
           \/ DOMAIN t = DOMAIN s
           \/ \E e : /\ DOMAIN t = DOMAIN s \cup {e} /\ e \notin DOMAIN s
                     /\ t[e].approval = "none"
    PROVE  GrantedOf(t) = GrantedOf(s)
<1>1. Approved(t) = Approved(s)
    BY DEF Approved
<1> QED
    BY <1>1 DEF GrantedOf

\* The fate of an attempt tells what it may have done.
LEMMA FateTells ==
    ASSUME NEW a, Consistent(a)
    PROVE  /\ FateOf(a) = "open" <=> a.status \in OpenRow
           /\ a.status \notin OpenRow =>
                 /\ FateOf(a) = "unsent" <=> a.disposition = "definitely_not_transmitted"
                 /\ FateOf(a) = "uncertain" <=> Uncertain(a)
                 /\ FateOf(a) = "answered" <=> a.disposition = "transmitted"
BY DEF FateOf, OpenRow, Consistent, Over, Unsent, Unresolved, Answered, Uncertain

\* Only publish_job gives a job an outcome.
LEMMA OutcomesStay ==
    ASSUME [RepoNext]_repoVars
    PROVE  \/ published' = published
           \/ \E j \in Jobs, result \in Results \cup {Structural} : PublishJob(j, result)
<1>1. ASSUME NEW r \in Runs, RunStep(r) PROVE published' = published
    BY <1>1 DEF RunStep, StoreRunApproval, CancelRun, RecoverRun, ActivateResumableJobs
<1>2. ASSUME NEW j \in Jobs, JobStep(j),
             ~\E result \in Results \cup {Structural} : PublishJob(j, result)
      PROVE  published' = published
    BY <1>2 DEF JobStep, StoreRetryApproval, RegisterJob, ExpireLease, StoreCache,
                DeferResumableJob, FinalizeJob, RecordContinuation, RecordValidated
<1>3. ASSUME NEW w \in Tokens, NEW j \in Jobs, LeaseStep(w, j) PROVE published' = published
    BY <1>3 DEF LeaseStep, ReclaimJob, ReleaseClaim, MarkTransmitting, ReserveAttempt,
                CompleteAttempt, FinalizeSuccess, FinalizeFailure
<1>4. ASSUME NEW r \in Runs, NEW hits \in BOOLEAN, ClaimStep(r, hits)
      PROVE  published' = published
    BY <1>4 DEF ClaimStep, ClaimNothing, ClaimNextJob
<1> QED
    BY <1>1, <1>2, <1>3, <1>4 DEF RepoNext, RecoverExpiredLeases, repoVars

\* LedgerInv is inductive.
LEMMA NextLedger == LedgerInv /\ [RepoNext]_repoVars => LedgerInv'
<1> SUFFICES ASSUME LedgerInv, [RepoNext]_repoVars PROVE LedgerInv'
    OBVIOUS
<1>1. FateInv' /\ ApprovalInv' /\ RepoTypeOK
    BY NextFates, NextApproves DEF LedgerInv, FateInv
<1>2. ASSUME NEW k \in Jobs PROVE OutcomeIsPublished(k)'
    <2>1. OutcomeIsPublished(k) /\ Moves(k)
        BY <1>1, EveryRowMoves DEF LedgerInv
    <2> QED
        BY <2>1 DEF OutcomeIsPublished, Moves, RowMoves, Stays, Works, Working, Returns, Reopens,
              Defers, Validates, Stores, Finalizes, Publishes, Succeeds
<1> QED
    BY <1>1, <1>2 DEF LedgerInv

LEMMA InitLedger == RepoInit => LedgerInv
<1> SUFFICES ASSUME RepoInit PROVE LedgerInv
    OBVIOUS
<1>1. FateInv
    BY InitFates
<1>2. ApprovalInv
    BY InitTyped DEF RepoInit, ApprovalInv, RetriesBefore, SpentOnce
<1>3. \A k \in Jobs : OutcomeIsPublished(k)
    BY DEF RepoInit, OutcomeIsPublished
<1> QED
    BY <1>1, <1>2, <1>3 DEF LedgerInv

\* A reservation makes a call: one that may be made, appended to the ledger.
LEMMA ReserveMaps ==
    ASSUME LedgerInv, LedgerInv', NEW w \in Tokens, NEW j \in Jobs, NEW kind \in Kinds,
           ReserveAttempt(w, j, kind)
    PROVE  \E repeats \in 0..Len(LedgerCalls[j]) : Ledger!MakeCall(j, kind, repeats)
<1> PICK s : s = attempts[j]
    OBVIOUS
<1> PICK t : t = attempts'[j]
    OBVIOUS
<1> PICK n : n = Len(s)
    OBVIOUS
<1>1. /\ RepoTypeOK /\ AttemptMatchesJob /\ attempts \in [Jobs -> Seq(AttemptRow)]
      /\ s \in Seq(AttemptRow) /\ t \in Seq(AttemptRow) /\ attempts[j] = s
    BY DEF LedgerInv, FateInv, RepoTypeOK
<1>2. /\ n \in Nat /\ DOMAIN s = 1..n /\ Len(LedgerOf(s)) = n
      /\ LedgerOf(s) \in Seq(Ledger!Call) /\ DOMAIN LedgerOf(s) = 1..n
      /\ \A o \in 1..n : LedgerOf(s)[o] = CallOf(s[o])
    BY <1>1, LedgerTyped
<1>3. LedgerCalls[j] = LedgerOf(s)
    BY <1>1, LedgerRows
<1>4. /\ job[j].status \in {"claimed", "returned", "validated"} /\ ~run[RunOf[j]].cancel
      /\ KindAllowed(j, kind)
    BY DEF ReserveAttempt, CanReserve, HoldsClaim, Cancelled
<1>5. published[j] = NoResult
    BY <1>4 DEF LedgerInv, OutcomeIsPublished
<1>6. n # 0 <=> Attempted(j)
    BY <1>1, <1>2 DEF Attempted
<1>7. n # 0 => Latest(j) = s[n] /\ Consistent(s[n]) /\ s[n] \in AttemptRow
    BY <1>1, <1>2 DEF Latest, LedgerInv, FateInv
<1>8. n # 0 => s[n].status \notin OpenRow
    BY <1>1, <1>4, <1>6, <1>7 DEF AttemptMatchesJob, LatestIs, OpenRow
<1>9. n # 0 => /\ s[n].retryOf < n /\ s[n].retryOf \in Nat
    BY <1>1, <1>2, <1>7 DEF LedgerInv, ApprovalInv, RetriesBefore, AttemptRow
<1> PICK repeats : repeats = RetryOf(j, kind)
    OBVIOUS
<1>10. repeats \in 0..n
    <2>1. repeats = 0 \/ (n # 0 /\ repeats = s[n].retryOf) \/ repeats = n
        BY <1>1, <1>6, <1>7 DEF RetryOf, ResendsUnsent
    <2> QED
        BY <1>2, <1>9, <2>1
<1>11. Ledger!Last(j) = LedgerOf(s)[n]
    BY <1>2, <1>3 DEF Ledger!Last
<1>12. n # 0 => Ledger!Last(j) = CallOf(s[n])
    BY <1>2, <1>11
<1>13. n # 0 => LedgerOf(s) # <<>>
    BY <1>2
<1>14. Ledger!MayCall(j, kind, repeats)
    <2>1. CASE FirstCall(j, kind)
        <3>1. n = 0 /\ LedgerOf(s) = <<>>
            BY <1>2, <1>6, <2>1 DEF FirstCall
        <3>2. repeats = 0
            BY <1>6, <2>1 DEF FirstCall, RetryOf, ResendsUnsent, ResendsUncertain
        <3> QED
            BY <1>3, <2>1, <3>1, <3>2 DEF FirstCall, Ledger!MayCall
    <2>2. CASE ResendsUnsent(j, kind)
        <3>1. /\ n # 0 /\ s[n].disposition = "definitely_not_transmitted"
              /\ kind = s[n].kind /\ repeats = s[n].retryOf
            BY <1>6, <1>7, <2>2 DEF ResendsUnsent, RetryOf
        <3>2. FateOf(s[n]) = "unsent"
            BY <1>7, <1>8, <3>1, FateTells
        <3> QED
            BY <1>3, <1>12, <1>13, <3>1, <3>2 DEF CallOf, Ledger!MayCall, Ledger!LastIs
    <2>3. CASE ResendsUncertain(j, kind)
        <3>1. /\ n # 0 /\ s[n].disposition # "definitely_not_transmitted"
              /\ Uncertain(s[n]) /\ kind = s[n].kind /\ s[n].approval = "open"
            BY <1>6, <1>7, <2>3 DEF ResendsUncertain
        <3>2. repeats = n
            BY <1>1, <1>7, <2>3, <3>1 DEF RetryOf, ResendsUnsent
        <3>3. FateOf(s[n]) = "uncertain"
            BY <1>7, <1>8, <3>1, FateTells
        <3>4. LedgerGranted[j] = n
            <4>1. n \in Approved(s) /\ \A o \in Approved(s) : o \in Nat /\ o <= n
                BY <1>2, <3>1 DEF Approved
            <4>2. GrantedOf(s) = n
                BY <1>2, <4>1, MaxOfTop DEF GrantedOf
            <4> QED
                BY <1>1, <4>2, LedgerRows
        <3> QED
            BY <1>2, <1>3, <1>12, <1>13, <3>1, <3>2, <3>3, <3>4
               DEF CallOf, Ledger!MayCall, Ledger!LastIs
    <2>4. CASE Continues(j, kind)
        <3>1. /\ n # 0 /\ s[n].disposition # "definitely_not_transmitted"
              /\ ~Uncertain(s[n]) /\ kind \in ContinuationKinds
              /\ \A o \in 1..n : ~(s[o].kind \in ContinuationKinds /\ Transmitted(s[o]))
            BY <1>1, <1>2, <1>6, <1>7, <2>4 DEF Continues
        <3>2. repeats = 0
            BY <1>7, <3>1 DEF RetryOf, ResendsUnsent, ResendsUncertain
        <3>3. FateOf(s[n]) = "answered"
            BY <1>7, <1>8, <3>1, FateTells DEF FateOf, OpenRow, Uncertain
        <3>4. ASSUME NEW o \in 1..n, s[o].kind \in ContinuationKinds, FateOf(s[o]) = "answered"
              PROVE  FALSE
            <4>1. Consistent(s[o])
                BY <1>1, <1>2 DEF LedgerInv, FateInv
            <4>2. s[o].disposition = "transmitted"
                BY <3>4, <4>1, FateTells
            <4> QED
                BY <3>1, <3>4, <4>2 DEF Transmitted
        <3>5. \A o \in DOMAIN LedgerOf(s) :
                 LedgerOf(s)[o].kind \in ContinuationKinds => LedgerOf(s)[o].fate # "answered"
            <4>1. ASSUME NEW o \in 1..n
                  PROVE  LedgerOf(s)[o].kind = s[o].kind /\ LedgerOf(s)[o].fate = FateOf(s[o])
                <5>1. LedgerOf(s)[o] = CallOf(s[o])
                    BY <1>2
                <5> QED
                    BY <5>1 DEF CallOf
            <4> QED
                BY <1>2, <3>4, <4>1
        <3> QED
            BY <1>3, <1>12, <1>13, <3>1, <3>2, <3>3, <3>5
               DEF CallOf, Ledger!MayCall, Ledger!LastIs
    <2> QED
        BY <1>4, <2>1, <2>2, <2>3, <2>4 DEF KindAllowed
<1>15. /\ \A k \in Jobs : k # j => attempts'[k] = attempts[k]
       /\ Len(t) = n + 1 /\ DOMAIN t = 1..(n + 1)
       /\ t[n + 1] = Reserved(j, kind)
    BY <1>1, ReserveAppends
<1>16. \A o \in 1..n : SpendsAtMost(s[o], t[o])
    BY <1>1, <1>2, ReserveKeeps
<1>17. LedgerOf(t) = Append(LedgerOf(s), Ledger!New(kind, repeats))
    <2>1. /\ LedgerOf(t) \in Seq(Ledger!Call) /\ Len(LedgerOf(t)) = n + 1
          /\ \A o \in 1..(n + 1) : LedgerOf(t)[o] = CallOf(t[o])
        BY <1>1, <1>15, LedgerTyped
    <2>2. CallOf(t[n + 1]) = Ledger!New(kind, repeats)
        BY <1>15 DEF CallOf, Reserved, FateOf, Ledger!New
    <2>3. ASSUME NEW o \in 1..n PROVE CallOf(t[o]) = CallOf(s[o])
        <3>1. SpendsAtMost(s[o], t[o])
            BY <1>16
        <3> QED
            BY <3>1 DEF SpendsAtMost, SameFate, CallOf, FateOf
    <2>4. \A o \in 1..n : LedgerOf(t)[o] = LedgerOf(s)[o]
        BY <1>2, <2>1, <2>3
    <2>5. LedgerOf(t)[n + 1] = Ledger!New(kind, repeats)
        BY <1>2, <2>1, <2>2
    <2>6. Ledger!New(kind, repeats) \in Ledger!Call
        BY <1>2, <2>1, <2>5
    <2> HIDE DEF LedgerOf, Ledger!New, Ledger!Call
    <2> QED
        BY <1>2, <2>1, <2>4, <2>5, <2>6
<1>18. LedgerCalls' = [LedgerCalls EXCEPT ![j] = Append(@, Ledger!New(kind, repeats))]
    <2>1. \A k \in Jobs : k # j => LedgerOf(attempts'[k]) = LedgerOf(attempts[k])
        BY <1>15
    <2> QED
        BY <1>1, <1>3, <1>17, <2>1, LedgerRows
<1>19. LedgerGranted' = LedgerGranted
    <2>1. \A o \in 1..n : (t[o].approval = "none") <=> (s[o].approval = "none")
        BY <1>16 DEF SpendsAtMost
    <2>2. t[n + 1].approval = "none"
        BY <1>15 DEF Reserved
    <2>3. DOMAIN t = DOMAIN s \cup {n + 1} /\ n + 1 \notin DOMAIN s
        BY <1>2, <1>15
    <2>4. GrantedOf(t) = GrantedOf(s)
        BY <1>2, <2>1, <2>2, <2>3, SameGrant
    <2> QED
        BY <1>1, <1>15, <2>4, LedgerRows
<1>20. UNCHANGED published /\ [r \in Runs |-> run[r].cancel]' = [r \in Runs |-> run[r].cancel]
    BY DEF ReserveAttempt
<1>21. RunOf[j] \in Runs
    BY RepositoryAssumption
<1>22. Ledger!MakeCall(j, kind, repeats)
    BY <1>4, <1>5, <1>14, <1>18, <1>19, <1>20, <1>21 DEF Ledger!MakeCall
<1> QED
    BY <1>2, <1>3, <1>10, <1>22

\* A step that rewrites the latest rows settles the calls whose fate it changes.
LEMMA RewriteMaps ==
    ASSUME LedgerInv, RepoTypeOK', \A k \in Jobs : Rewrites(k),
           \A k \in Jobs : ~StoreRetryApproval(k),
           published' = published, \A r \in Runs : run'[r].cancel = run[r].cancel
    PROVE  \E S \in SUBSET Jobs, fate \in [Jobs -> Ledger!Fate] : Ledger!Settle(S, fate)
<1> PICK S : S = {j \in Jobs : LedgerOf(attempts'[j]) # LedgerOf(attempts[j])}
    OBVIOUS
<1> PICK fate : fate = [j \in Jobs |-> FateOf(Latest(j)')]
    OBVIOUS
<1>1. S \in SUBSET Jobs /\ fate \in [Jobs -> Ledger!Fate]
    <2>1. \A j \in Jobs : FateOf(Latest(j)') \in Ledger!Fate
        BY DEF FateOf, Ledger!Fate
    <2> QED
        BY <2>1
<1>2. ASSUME NEW j \in Jobs
      PROVE  /\ GrantedOf(attempts'[j]) = GrantedOf(attempts[j])
             /\ j \in S => /\ LedgerOf(attempts[j]) # <<>>
                           /\ Ledger!MaySettle(LedgerOf(attempts[j])[Len(attempts[j])].fate,
                                               fate[j])
                           /\ LedgerOf(attempts'[j]) =
                                 [LedgerOf(attempts[j]) EXCEPT ![Len(attempts[j])].fate = fate[j]]
    <2> PICK s : s = attempts[j]
        OBVIOUS
    <2> PICK t : t = attempts'[j]
        OBVIOUS
    <2> PICK n : n = Len(s)
        OBVIOUS
    <2>1. /\ s \in Seq(AttemptRow) /\ t \in Seq(AttemptRow) /\ Rewrites(j)
          /\ attempts[j] = s /\ attempts'[j] = t
        BY DEF LedgerInv, FateInv, RepoTypeOK
    <2>2. /\ n \in Nat /\ DOMAIN s = 1..n /\ Len(t) = n /\ DOMAIN t = 1..n
          /\ \A o \in 1..n : o < n => t[o] = s[o]
        BY <2>1 DEF Rewrites
    <2>3. /\ Len(LedgerOf(s)) = n /\ LedgerOf(s) \in Seq(Ledger!Call)
          /\ DOMAIN LedgerOf(s) = 1..n /\ \A o \in 1..n : LedgerOf(s)[o] = CallOf(s[o])
        BY <2>1, <2>2, LedgerTyped
    <2>4. /\ Len(LedgerOf(t)) = n /\ LedgerOf(t) \in Seq(Ledger!Call)
          /\ DOMAIN LedgerOf(t) = 1..n /\ \A o \in 1..n : LedgerOf(t)[o] = CallOf(t[o])
        BY <2>1, <2>2, LedgerTyped
    <2>5. n # 0 <=> Attempted(j)
        BY <2>1, <2>2 DEF Attempted
    <2>6. n # 0 => /\ Latest(j) = s[n] /\ Latest(j)' = t[n] /\ Consistent(s[n])
                   /\ RowChanges(j, s[n], t[n])
        BY <2>1, <2>2, <2>5 DEF Latest, Rewrites, LedgerInv, FateInv
    <2> HIDE DEF LedgerOf
    <2>7. GrantedOf(t) = GrantedOf(s)
        <3>1. \A o \in 1..n : (t[o].approval = "none") <=> (s[o].approval = "none")
            BY <2>2, <2>6 DEF RowChanges
        <3> QED
            BY <2>2, <3>1, SameGrant
    <2>8. n = 0 => LedgerOf(t) = LedgerOf(s)
        BY <2>3, <2>4
    <2>9. n # 0 => CallOf(t[n]) = [CallOf(s[n]) EXCEPT !.fate = FateOf(t[n])]
        BY <2>6 DEF CallOf, RowChanges
    <2>10. n # 0 => LedgerOf(t) = [LedgerOf(s) EXCEPT ![n] = CallOf(t[n])]
        BY <2>2, <2>3, <2>4
    <2>11. n # 0 /\ FateOf(t[n]) = FateOf(s[n]) => LedgerOf(t) = LedgerOf(s)
        <3>1. n # 0 /\ FateOf(t[n]) = FateOf(s[n]) => CallOf(t[n]) = CallOf(s[n])
            BY <2>6 DEF CallOf, RowChanges
        <3>2. n # 0 => n \in 1..n
            BY <2>2
        <3>3. n # 0 /\ FateOf(t[n]) = FateOf(s[n])
                 => \A o \in 1..n : LedgerOf(t)[o] = LedgerOf(s)[o]
            BY <2>2, <2>3, <2>4, <3>1
        <3> QED
            BY <2>3, <2>4, <3>3
    <2>12. n # 0 /\ FateOf(t[n]) # FateOf(s[n]) => Ledger!MaySettle(FateOf(s[n]), FateOf(t[n]))
        <3> SUFFICES ASSUME n # 0, FateOf(t[n]) # FateOf(s[n])
                     PROVE  Ledger!MaySettle(FateOf(s[n]), FateOf(t[n]))
            OBVIOUS
        <3>1. \/ Settles(s[n], t[n]) \/ Loses(j, s[n], t[n])
            BY <2>6 DEF RowChanges, SameFate, Sends, FateOf
        <3> QED
            BY <2>6, <3>1 DEF Settles, Loses, Over, Unsent, Unresolved, Answered, OpenRow, FateOf,
                  Ledger!MaySettle, Ledger!Fate
    <2>13. j \in S => n # 0 /\ FateOf(t[n]) # FateOf(s[n])
        BY <2>1, <2>8, <2>11
    <2>14. n # 0 => fate[j] = FateOf(t[n]) /\ LedgerOf(s)[n].fate = FateOf(s[n])
        <3>1. n # 0 => LedgerOf(s)[n] = CallOf(s[n])
            BY <2>2, <2>3
        <3> QED
            BY <2>6, <3>1 DEF CallOf
    <2>15. n # 0 => LedgerOf(t) = [LedgerOf(s) EXCEPT ![n].fate = fate[j]]
        <3>1. n # 0 => LedgerOf(s)[n] = CallOf(s[n])
            BY <2>2, <2>3
        <3> QED
            BY <2>9, <2>10, <2>14, <3>1
    <2>16. n # 0 => LedgerOf(s) # <<>>
        BY <2>3
    <2> QED
        BY <2>1, <2>7, <2>12, <2>13, <2>14, <2>15, <2>16
<1>3. \A j \in Jobs : LedgerCalls[j] = LedgerOf(attempts[j])
    BY LedgerRows
<1>4. \A j \in Jobs : Len(LedgerOf(attempts[j])) = Len(attempts[j])
    BY LedgerTyped DEF LedgerInv, FateInv, RepoTypeOK
<1> HIDE DEF LedgerOf
<1>5. \A j \in S : LedgerCalls[j] # <<>> /\ Ledger!MaySettle(Ledger!Last(j).fate, fate[j])
    BY <1>1, <1>2, <1>3, <1>4 DEF Ledger!Last
<1>6. LedgerCalls' = [j \in Jobs |->
          IF j \in S THEN [LedgerCalls[j] EXCEPT ![Len(LedgerCalls[j])].fate = fate[j]]
          ELSE LedgerCalls[j]]
    BY <1>2, <1>3, <1>4, LedgerRows
<1>7. LedgerGranted' = LedgerGranted
    BY <1>2, LedgerRows
<1>8. [r \in Runs |-> run[r].cancel]' = [r \in Runs |-> run[r].cancel]
    OBVIOUS
<1>9. Ledger!Settle(S, fate)
    BY <1>5, <1>6, <1>7, <1>8 DEF Ledger!Settle
<1> QED
    BY <1>1, <1>9

\* An approval grants one repetition of a call whose fate is uncertain.
LEMMA ApprovalMaps ==
    ASSUME LedgerInv, RepoTypeOK', NEW j \in Jobs, StoreRetryApproval(j),
           \A r \in Runs : run'[r].cancel = run[r].cancel
    PROVE  Ledger!Grant(j)
<1> PICK s : s = attempts[j]
    OBVIOUS
<1> PICK t : t = attempts'[j]
    OBVIOUS
<1> PICK n : n = Len(s)
    OBVIOUS
<1> PICK row : row = [Latest(j) EXCEPT !.approval = "open"]
    OBVIOUS
<1>1. /\ s \in Seq(AttemptRow) /\ attempts \in [Jobs -> Seq(AttemptRow)] /\ attempts[j] = s
      /\ RunOf[j] \in Runs
    BY RepositoryAssumption DEF LedgerInv, FateInv, RepoTypeOK
<1>2. /\ ~run[RunOf[j]].cancel /\ s # <<>> /\ Latest(j).status = "indeterminate"
      /\ \A o \in DOMAIN s : s[o].approval = "none"
      /\ attempts' = WithLatest(j, row) /\ published' = published
    BY <1>1 DEF StoreRetryApproval, LatestIs, Attempted, Cancelled
<1>3. n \in Nat \ {0} /\ DOMAIN s = 1..n
    BY <1>1, <1>2
<1>4. Latest(j) = s[n] /\ Consistent(s[n]) /\ s[n] \in AttemptRow
    BY <1>1, <1>3 DEF Latest, LedgerInv, FateInv
<1>5. FateOf(s[n]) = "uncertain"
    BY <1>2, <1>4, FateTells DEF OpenRow, Uncertain
<1>6. /\ row.approval = "open" /\ CallOf(row) = CallOf(s[n]) /\ row \in AttemptRow
    BY <1>4 DEF AttemptRow, CallOf, FateOf
<1>7. /\ t = [s EXCEPT ![n] = row] /\ \A k \in Jobs : k # j => attempts'[k] = attempts[k]
    BY <1>1, <1>2 DEF WithLatest
<1>8. t \in Seq(AttemptRow) /\ Len(t) = n /\ DOMAIN t = 1..n
    BY <1>1, <1>3, <1>6, <1>7, ExceptSeq
<1>9. /\ Len(LedgerOf(s)) = n /\ LedgerOf(s) \in Seq(Ledger!Call)
      /\ DOMAIN LedgerOf(s) = 1..n /\ \A o \in 1..n : LedgerOf(s)[o] = CallOf(s[o])
    BY <1>1, <1>3, LedgerTyped
<1>10. /\ Len(LedgerOf(t)) = n /\ LedgerOf(t) \in Seq(Ledger!Call)
       /\ DOMAIN LedgerOf(t) = 1..n /\ \A o \in 1..n : LedgerOf(t)[o] = CallOf(t[o])
    BY <1>8, LedgerTyped
<1> HIDE DEF LedgerOf
<1>11. \A o \in 1..n : CallOf(t[o]) = CallOf(s[o])
    BY <1>3, <1>6, <1>7
<1>12. LedgerOf(t) = LedgerOf(s)
    BY <1>9, <1>10, <1>11
<1>13. LedgerCalls' = LedgerCalls
    BY <1>1, <1>7, <1>12, LedgerRows
<1>14. GrantedOf(s) = 0
    BY <1>2 DEF GrantedOf, Approved
<1>15. GrantedOf(t) = n
    <2>1. n \in Approved(t) /\ \A o \in Approved(t) : o \in Nat /\ o <= n
        BY <1>3, <1>6, <1>7, <1>8 DEF Approved
    <2> QED
        BY <1>3, <2>1, MaxOfTop DEF GrantedOf
<1>16. /\ LedgerGranted[j] = 0 /\ LedgerGranted' = [LedgerGranted EXCEPT ![j] = n]
    BY <1>1, <1>7, <1>14, <1>15, LedgerRows
<1>17. LedgerCalls[j] = LedgerOf(s)
    BY <1>1, LedgerRows
<1>18. Ledger!LastIs(j, "uncertain")
    <2>1. LedgerOf(s) # <<>> /\ LedgerOf(s)[n] = CallOf(s[n])
        BY <1>3, <1>9
    <2>2. CallOf(s[n]).fate = "uncertain"
        BY <1>5 DEF CallOf
    <2> QED
        BY <1>9, <1>17, <2>1, <2>2 DEF Ledger!LastIs, Ledger!Last
<1>19. [r \in Runs |-> run[r].cancel]' = [r \in Runs |-> run[r].cancel]
    OBVIOUS
<1> QED
    BY <1>1, <1>2, <1>9, <1>13, <1>16, <1>17, <1>18, <1>19 DEF Ledger!Grant

\* What publish_job does to the ledger.
LEMMA PublishMaps ==
    ASSUME LedgerInv, NEW j \in Jobs, NEW result \in Results \cup {Structural},
           PublishJob(j, result), \A r \in Runs : run'[r].cancel = run[r].cancel
    PROVE  Ledger!Publish(j, result) \/ UNCHANGED Ledger!ledgerVars
<1>1. /\ ~run[RunOf[j]].cancel /\ job[j].status \in {"finalized", "published"}
      /\ published[j] \in {NoResult, result} /\ attempts' = attempts
      /\ published' = [published EXCEPT ![j] = result] /\ RunOf[j] \in Runs
      /\ published \in [Jobs -> Results \cup {NoResult, Structural}]
    BY RepositoryAssumption
       DEF PublishJob, MayPublish, Cancelled, LedgerInv, FateInv, RepoTypeOK
<1>2. LedgerCalls' = LedgerCalls /\ LedgerGranted' = LedgerGranted
    BY <1>1, LedgerRows
<1>3. [r \in Runs |-> run[r].cancel]' = [r \in Runs |-> run[r].cancel]
    OBVIOUS
<1>4. CASE published[j] = NoResult
    <2>1. ~Ledger!LastIs(j, "open")
        <3> SUFFICES ASSUME Ledger!LastIs(j, "open") PROVE FALSE
            OBVIOUS
        <3> PICK s : s = attempts[j]
            OBVIOUS
        <3>1. s \in Seq(AttemptRow) /\ LedgerCalls[j] = LedgerOf(s)
            BY LedgerRows DEF LedgerInv, FateInv, RepoTypeOK
        <3>2. /\ Len(LedgerOf(s)) = Len(s) /\ LedgerOf(s) \in Seq(Ledger!Call)
              /\ Len(s) \in Nat /\ DOMAIN s = 1..Len(s)
              /\ \A o \in 1..Len(s) : LedgerOf(s)[o] = CallOf(s[o])
            BY <3>1, LedgerTyped
        <3> HIDE DEF LedgerOf
        <3>3. Len(s) # 0 /\ LedgerOf(s)[Len(s)].fate = "open"
            BY <3>1, <3>2 DEF Ledger!LastIs, Ledger!Last
        <3>4. Len(s) \in 1..Len(s) /\ LedgerOf(s)[Len(s)] = CallOf(s[Len(s)])
            BY <3>2, <3>3
        <3>5. FateOf(s[Len(s)]) = "open"
            BY <3>3, <3>4 DEF CallOf
        <3>6. Latest(j) = s[Len(s)] /\ Attempted(j) /\ Consistent(s[Len(s)])
            BY <3>1, <3>2, <3>4 DEF Latest, Attempted, LedgerInv, FateInv
        <3>7. Latest(j).status \in OpenRow
            BY <3>5, <3>6, FateTells
        <3> QED
            BY <1>1, <3>6, <3>7 DEF LedgerInv, FateInv, AttemptMatchesJob, LatestIs, OpenRow
    <2> QED
        BY <1>1, <1>2, <1>3, <1>4, <2>1 DEF Ledger!Publish
<1>5. CASE published[j] # NoResult
    <2>1. published' = published
        BY <1>1, <1>5
    <2> QED
        BY <1>2, <1>3, <2>1 DEF Ledger!ledgerVars
<1> QED
    BY <1>4, <1>5

\* A cancellation closes the run's ledger, or finds it closed, or leaves it open.
LEMMA CancelMaps ==
    ASSUME LedgerInv, NEW r \in Runs, CancelRun(r)
    PROVE  Ledger!Close(r) \/ UNCHANGED Ledger!ledgerVars
<1> PICK closed : closed = [q \in Runs |-> run[q].cancel]
    OBVIOUS
<1>1. run \in [Runs -> RunRow] /\ attempts' = attempts /\ published' = published
    BY DEF CancelRun, LedgerInv, FateInv, RepoTypeOK
<1>2. LedgerCalls' = LedgerCalls /\ LedgerGranted' = LedgerGranted
    BY <1>1, LedgerRows
<1> PICK c : c = CancelFlag(r)
    OBVIOUS
<1> PICK st : st = RunStatusFor(r, job', c)
    OBVIOUS
<1>3. run' = [run EXCEPT ![r].cancel = c, ![r].status = st]
    BY DEF CancelRun
<1>4. run' = [run EXCEPT ![r] = [run[r] EXCEPT !.cancel = c, !.status = st]]
    BY <1>1, <1>3
<1>5. [run[r] EXCEPT !.cancel = c, !.status = st].cancel = c
    BY <1>1 DEF RunRow
<1>6. [q \in Runs |-> run'[q].cancel] = [closed EXCEPT ![r] = c]
    BY <1>1, <1>4, <1>5
<1>7. c = TRUE \/ c = run[r].cancel
    BY <1>1 DEF CancelFlag, RunRow
<1>8. c = run[r].cancel => [q \in Runs |-> run'[q].cancel] = closed
    BY <1>6
<1> QED
    BY <1>1, <1>2, <1>6, <1>7, <1>8 DEF Ledger!Close, Ledger!ledgerVars

\* The repository implements the ledger of calls: whatever its callers do in whatever
\* order, a call is repeated only if it did not leave or was granted once more, a published
\* job calls no more, and a settled call is settled (reserve_attempt, complete_attempt,
\* store_retry_approval, publish_job, cancel_run and the recovery of leases).
THEOREM LedgerIsKept == RepoSpec => ImplementsLedger
<1>1. RepoInit => Ledger!LedgerInit
    <2> SUFFICES ASSUME RepoInit PROVE Ledger!LedgerInit
        OBVIOUS
    <2>1. LedgerOf(<<>>) = <<>> /\ GrantedOf(<<>>) = 0
        BY DEF LedgerOf, GrantedOf, Approved
    <2>2. \A j \in Jobs : attempts[j] = <<>>
        BY DEF RepoInit
    <2>3. LedgerCalls = [j \in Jobs |-> <<>>] /\ LedgerGranted = [j \in Jobs |-> 0]
        BY <2>1, <2>2, LedgerRows
    <2> QED
        BY <2>3 DEF RepoInit, Ledger!LedgerInit
<1>2. LedgerInv /\ LedgerInv' /\ [RepoNext]_repoVars => [Ledger!LedgerNext]_Ledger!ledgerVars
    <2> SUFFICES ASSUME LedgerInv, LedgerInv', [RepoNext]_repoVars
                 PROVE  [Ledger!LedgerNext]_Ledger!ledgerVars
        OBVIOUS
    <2>1. RepoTypeOK /\ RepoTypeOK' /\ FateInv
        BY DEF LedgerInv, FateInv
    <2>2. ASSUME NEW r \in Runs, CancelRun(r)
          PROVE  [Ledger!LedgerNext]_Ledger!ledgerVars
        BY <2>2, CancelMaps DEF Ledger!LedgerNext
    <2>3. ASSUME \A r \in Runs : ~CancelRun(r)
          PROVE  [Ledger!LedgerNext]_Ledger!ledgerVars
        <3>1. \A r \in Runs : run'[r].cancel = run[r].cancel
            BY <2>1, <2>3, CancelStays
        <3>2. ASSUME NEW j \in Jobs, StoreRetryApproval(j)
              PROVE  [Ledger!LedgerNext]_Ledger!ledgerVars
            BY <2>1, <3>1, <3>2, ApprovalMaps DEF Ledger!LedgerNext
        <3>3. ASSUME NEW j \in Jobs, NEW result \in Results \cup {Structural},
                     PublishJob(j, result)
              PROVE  [Ledger!LedgerNext]_Ledger!ledgerVars
            BY <3>1, <3>3, PublishMaps DEF Ledger!LedgerNext
        <3>4. ASSUME NEW w \in Tokens, NEW j \in Jobs, NEW kind \in Kinds,
                     ReserveAttempt(w, j, kind)
              PROVE  [Ledger!LedgerNext]_Ledger!ledgerVars
            <4>1. \E repeats \in 0..Len(LedgerCalls[j]) : Ledger!MakeCall(j, kind, repeats)
                BY <3>4, ReserveMaps
            <4> QED
                BY <4>1 DEF Ledger!LedgerNext, Kinds
        <3>5. ASSUME \A j \in Jobs : ~StoreRetryApproval(j), published' = published,
                     \A k \in Jobs : Rewrites(k)
              PROVE  [Ledger!LedgerNext]_Ledger!ledgerVars
            <4>1. \E S \in SUBSET Jobs, fate \in [Jobs -> Ledger!Fate] : Ledger!Settle(S, fate)
                BY <2>1, <3>1, <3>5, RewriteMaps
            <4> QED
                BY <4>1 DEF Ledger!LedgerNext
        <3> QED
            BY <2>1, <3>2, <3>3, <3>4, <3>5, OutcomesStay, StepRewrites
    <2> QED
        BY <2>2, <2>3
<1> QED
    BY <1>1, <1>2, InitLedger, NextLedger, PTL DEF RepoSpec, ImplementsLedger, Ledger!LedgerSpec
=============================================================================
