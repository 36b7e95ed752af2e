----------------------- MODULE StoryMapRepositorySpec -----------------------
(***************************************************************************)
(* The durable repository under its most general client: any call of any   *)
(* method, in any order, by any holder of any lease, with every argument   *)
(* the method accepts.  What holds here holds whatever the workflow above  *)
(* does, because each of its transactions is one of these steps.           *)
(***************************************************************************)
EXTENDS StoryMapRepository

RunStep(r) ==
    \/ StoreRunApproval(r)
    \/ CancelRun(r)
    \/ RecoverRun(r)
    \/ ActivateResumableJobs(r)

JobStep(j) ==
    \/ StoreRetryApproval(j)
    \/ RegisterJob(j)
    \/ ExpireLease(j)
    \/ StoreCache(j)
    \/ DeferResumableJob(j)
    \/ \E res \in Resolution : FinalizeJob(j, res)
    \/ \E c \in {"complete"} \cup ContinuationKinds : RecordContinuation(j, c)
    \/ \E result \in Results \cup {Structural} : PublishJob(j, result)
    \/ \E o \in {0, Len(attempts[j])}, result \in Results, k \in Keys :
          RecordValidated(j, o, result, k)

LeaseStep(w, j) ==
    \/ ReclaimJob(w, j)
    \/ ReleaseClaim(w, j)
    \/ MarkTransmitting(w, j)
    \/ \E kind \in Kinds : ReserveAttempt(w, j, kind)
    \/ \E d \in Disposition \ {"not_started"}, response, defer \in BOOLEAN,
          calls \in {0, 1}, u \in Units :
          CompleteAttempt(w, j, d, response, calls, u, defer)
    \/ \E result \in Results, u \in Units : FinalizeSuccess(w, j, result, u)
    \/ \E d \in Disposition \ {"not_started"}, calls \in {0, 1}, u \in Units :
          FinalizeFailure(w, j, d, calls, u)

ClaimStep(r, hits) ==
    \/ ClaimNothing(r, hits)
    \/ \E w \in Tokens, j \in Jobs : ClaimNextJob(w, r, hits, j)

RepoNext ==
    \/ RecoverExpiredLeases
    \/ \E r \in Runs : RunStep(r)
    \/ \E j \in Jobs : JobStep(j)
    \/ \E w \in Tokens, j \in Jobs : LeaseStep(w, j)
    \/ \E r \in Runs, hits \in BOOLEAN : ClaimStep(r, hits)

RepoSpec == RepoInit /\ [][RepoNext]_repoVars

-----------------------------------------------------------------------------
(* Invariants. *)

\* Every row of every table has the shape of its columns.
RepoTypeOK ==
    /\ run \in [Runs -> RunRow]
    /\ job \in [Jobs -> JobRow]
    /\ attempts \in [Jobs -> Seq(AttemptRow)]
    /\ cache \in [Keys -> Results \cup {NoResult}]
    /\ published \in [Jobs -> Results \cup {NoResult, Structural}]

\* The status of a job and the status of its latest attempt, written by different
\* statements of the same transactions, always tell the same story about a call
\* that is reserved or on the wire; no older attempt is open.
AttemptMatchesJob ==
    \A j \in Jobs :
        /\ job[j].status = "reserved" <=> LatestIs(j, "reserved")
        /\ job[j].status = "submitting" <=> LatestIs(j, "transmitting")
        /\ \A o \in DOMAIN attempts[j] : o < Len(attempts[j]) =>
              attempts[j][o].status \notin {"reserved", "transmitting"}

\* At most GLOBAL_SUBMISSION_LIMIT unexpired leases occupy a submission slot, over all
\* runs, also when a continuation takes its slot at reservation and not at its claim.
\* The leases that are counted belong to exactly the jobs somebody may be working on: a
\* pending job that kept its token could never be claimed again (the compare-and-swap of
\* claim_next_job asks for an empty one), and a job in a slot without a token could never
\* be given up.
MayHoldLease == SlotStatus \cup {"returned", "validated", "cache_stored"}
SlotBound ==
    /\ Cardinality(InSlot(job)) <= SlotLimit
    /\ \A j \in Jobs : /\ job[j].status \in SlotStatus => job[j].token \in Tokens
                       /\ job[j].status \notin MayHoldLease => job[j].token = NoToken
                       /\ job[j].token = NoToken => ~job[j].expired

\* A call that was, or may have been, transmitted is made again only under a retry
\* approval of that attempt or of a later one, and that approval is spent.
MaybeTransmitted(a) == a.disposition \in {"transmitted", "indeterminate"}
NoSilentResend ==
    \A j \in Jobs : \A b \in DOMAIN attempts[j] : \A a \in 1..(b - 1) :
        MaybeTransmitted(attempts[j][a]) /\ attempts[j][a].kind = attempts[j][b].kind
          => /\ attempts[j][b].retryOf \in a..(b - 1)
             /\ attempts[j][attempts[j][b].retryOf].approval = "consumed"

\* One retry approval pays for at most one call that left the program: every other
\* attempt made under it was definitely not transmitted.
ApprovalSpentOnce ==
    \A j \in Jobs : \A a, b \in DOMAIN attempts[j] :
        LET x == attempts[j][a]
            y == attempts[j][b]
        IN  x.retryOf # 0 /\ x.retryOf = y.retryOf /\ a # b =>
              "definitely_not_transmitted" \in {x.disposition, y.disposition}

\* The calls charged to a run stay within the approved ceilings: the ordinary ones of
\* each kind within that kind's, the supplemental ones within the retry ceiling.
CeilingRespected ==
    \A r \in Runs :
        /\ \A kind \in Kinds :
              Cardinality({p \in ChargedCalls(r, kind) : ~Supplemental(At(p))})
                <= CallCeiling[kind]
        /\ Cardinality(SupplementalCalls(r)) <= RetryCeiling

\* Every transaction that moves a job recomputes its run's status where it has to: the
\* stored status is what _refresh_run_state_locked would make of the rows now.
RunStatusFresh ==
    \A r \in Runs : run[r].status # "prepared" =>
        run[r].status = RunStatusFor(r, job, run[r].cancel)

\* An accepted job, published or about to be, has its result in the immutable cache
\* under the identity it was validated for; a published one was published with it.
AcceptedIsCached ==
    \A j \in Jobs : job[j].resolution = "accepted" =>
        /\ job[j].result # NoResult
        /\ cache[job[j].key] = job[j].result
        /\ job[j].status = "published" => published[j] = job[j].result

-----------------------------------------------------------------------------
(* Action properties. *)

\* Cancellation is irreversible, and a cancelled run makes no further call, caches
\* nothing and publishes nothing.
CancelledIsInert ==
    \A r \in Runs : run[r].cancel =>
        /\ run'[r].cancel
        /\ \A j \in JobsOf(r) :
              /\ Len(attempts'[j]) = Len(attempts[j])
              /\ job'[j].status = "submitting" => job[j].status = "submitting"
              /\ job'[j].status \in {"cache_stored", "published", "succeeded"}
                    => job'[j].status = job[j].status
CancellationHolds == [][CancelledIsInert]_repoVars

-----------------------------------------------------------------------------
(* The repository implements the ledger of calls. *)

FateOf(a) ==
    IF a.status \in {"reserved", "transmitting"} THEN "open"
    ELSE CASE a.disposition = "definitely_not_transmitted" -> "unsent"
           [] a.disposition = "indeterminate"              -> "uncertain"
           [] OTHER                                        -> "answered"

LedgerCalls == [j \in Jobs |-> [o \in DOMAIN attempts[j] |->
                   [kind |-> attempts[j][o].kind, fate |-> FateOf(attempts[j][o]),
                    repeats |-> attempts[j][o].retryOf]]]
ApprovedOf(j) == {o \in DOMAIN attempts[j] : attempts[j][o].approval # "none"}
LedgerGranted == [j \in Jobs |-> IF ApprovedOf(j) = {} THEN 0 ELSE Max(ApprovedOf(j))]

Ledger == INSTANCE CallLedger WITH
              calls <- LedgerCalls, granted <- LedgerGranted, outcome <- published,
              closed <- [r \in Runs |-> run[r].cancel],
              Outcomes <- Results \cup {Structural}, NoOutcome <- NoResult

\* Whatever is called in whatever order, the repository keeps the ledger's promises.
ImplementsLedger == Ledger!LedgerSpec
=============================================================================
