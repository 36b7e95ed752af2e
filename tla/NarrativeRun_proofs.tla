------------------------ MODULE NarrativeRun_proofs ------------------------
(***************************************************************************)
(* Proofs about NarrativeRun: the records keep their shape, the calls of   *)
(* a phase stay within the limit of the consent however often the run is   *)
(* restarted, an accepted job is not sent again, what was sent is on       *)
(* record, and a restart reads back the counters the thread had.           *)
(*                                                                         *)
(* The thread's count of calls is never below the calls on record that may *)
(* have been made (CountInv); during a call it is one ahead of them, or    *)
(* the call is on record already.  A job that is in the cache is neither   *)
(* open nor in a call whose attempts are still to be recorded (CacheInv).  *)
(*                                                                         *)
(* The last two need more.  The queue holds batches of different jobs,     *)
(* none of them empty, so that no call repeats another (QueueInv).  The    *)
(* reservations of a job carry the attempt numbers from one to their       *)
(* count, each once, and each attempt on record belongs to one of them     *)
(* (NumberInv).  The counters in memory are those of the records, less the *)
(* attempt that is pending (HistoryInv), and the count of calls is exact   *)
(* but for a call that did not leave and is still to be written off        *)
(* (CallInv).  All this is said of the plans that share no job with        *)
(* another plan: for the others it is false, see RestartAgrees.            *)
(***************************************************************************)
EXTENDS NarrativeRun, FiniteSetTheorems, WellFoundedInduction, TLAPS

InCall == {"submit", "finalize", "record", "settle"}
Working == InCall \cup {"loop"}
Callers == 0..MaxCalls
Fields == {"pc", "plan", "segments", "prior", "used", "record", "history", "queue", "call",
           "reply", "todo", "again", "outcome", "ends"}

StoreInv ==
    /\ IsFiniteSet(DOMAIN calls)
    /\ \A r \in DOMAIN calls : ReservationOK(r) /\ calls[r] \in Fates
    /\ IsFiniteSet(attempts)
    /\ \A a \in attempts :
          a.job \in Jobs /\ a.outcome \in Outcomes /\ a.number \in Nat /\ a.call \in Callers
    /\ cache \subseteq Jobs
    /\ row.state \in RunStates \cup {"absent"} /\ row.complete \in {"no", "yes", "unnamed"}
    /\ DOMAIN sent = DOMAIN calls
    /\ \A r \in DOMAIN calls : sent[r] \in Nat

ThreadInv ==
    /\ DOMAIN thread = Fields /\ DOMAIN thread.reply = {"kind", "left"}
    /\ thread.pc \in Steps
    /\ thread.plan \subseteq Jobs
    /\ thread.prior \in Nat /\ thread.used \in Nat
    /\ thread.reply.left \in BOOLEAN
    /\ thread.pc \in Working =>
          /\ DOMAIN thread.record = thread.plan /\ DOMAIN thread.history = thread.plan
          /\ \A j \in thread.plan : thread.history[j].tried \in Nat
    /\ thread.pc \in InCall =>
          /\ thread.call \in DOMAIN calls /\ thread.call.plan = thread.plan
          /\ thread.call.call \in Callers
          /\ thread.prior + thread.used <= MaxCalls
    /\ thread.pc \in {"finalize", "record"} => thread.todo \subseteq thread.call.batch
    /\ thread.pc \in {"finish", "persist"} => thread.outcome \in RunStates

CacheInv ==
    /\ thread.pc \in Working => \A j \in thread.plan \cap cache : thread.record[j] = "succeeded"
    /\ thread.pc = "submit" => thread.call.batch \cap cache = {}
    /\ thread.pc \in {"finalize", "record"} => thread.todo \cap cache = {}

\* The calls that were made, beside the one in progress.
Others == Cardinality(Made(thread.plan) \ {thread.call})
CountInv ==
    /\ PhaseWithinLimit
    /\ At("loop") => Cardinality(Made(thread.plan)) <= thread.used
    /\ At("submit") =>
          IF calls[thread.call] = "reserved" THEN Others + 1 <= thread.used
          ELSE Cardinality(Made(thread.plan)) + 1 <= thread.used
    /\ At("finalize") => Cardinality(Made(thread.plan) \cup {thread.call}) <= thread.used
    /\ thread.pc \in {"record", "settle"} =>
          IF thread.reply.left THEN Cardinality(Made(thread.plan) \cup {thread.call}) <= thread.used
          ELSE IF calls[thread.call] = "reserved" THEN Others <= thread.used
          ELSE Cardinality(Made(thread.plan)) <= thread.used

IInv == StoreInv /\ ThreadInv /\ CacheInv /\ CountInv

-----------------------------------------------------------------------------
(* Counting. *)

LEMMA MaxOfFinite ==
    ASSUME NEW S, S \subseteq Int, S # {}, IsFiniteSet(S)
    PROVE  Max(S) \in S /\ \A y \in S : Max(S) >= y
  <1> DEFINE Above(x) == {y \in S : y > x}
             Aboves == {Above(x) : x \in S}
  <1>1. Aboves \subseteq FiniteSubsetsOf(S) /\ Aboves # {}
    <2>1. ASSUME NEW x \in S PROVE Above(x) \in FiniteSubsetsOf(S)
      <3>1. Above(x) \in SUBSET S
        OBVIOUS
      <3>2. IsFiniteSet(Above(x))
        BY <3>1, FS_Subset
      <3> QED BY <3>1, <3>2 DEF FiniteSubsetsOf
    <2> QED BY <2>1
  <1>2. PICK T \in Aboves : \A U \in Aboves : ~(<<U, T>> \in StrictSubsetOrdering(S))
    <2> HIDE DEF Aboves
    <2> QED BY <1>1, WFMin, FS_StrictSubsetOrderingWellFounded
  <1>3. PICK x \in S : T = Above(x)
    BY <1>2
  <1>4. ASSUME NEW y \in S, y > x PROVE FALSE
    <2>1. Above(y) \subseteq T /\ y \in T /\ y \notin Above(y)
      <3>1. x \in Int /\ y \in Int /\ \A z \in S : z \in Int
        OBVIOUS
      <3>2. ASSUME NEW z \in Above(y) PROVE z \in Above(x)
        BY <3>1, <1>4
      <3>3. y \in Above(x) /\ y \notin Above(y)
        BY <3>1, <1>4
      <3> QED BY <3>2, <3>3, <1>3
    <2>2. <<Above(y), T>> \in StrictSubsetOrdering(S)
      <3>1. Above(y) \in SUBSET S /\ T \in SUBSET S /\ Above(y) # T
        BY <1>3, <2>1
      <3> HIDE DEF Above
      <3> QED BY <2>1, <3>1 DEF StrictSubsetOrdering
    <2> QED BY <1>2, <2>2
  <1>5. \A y \in S : x >= y
    BY <1>4
  <1> QED BY <1>5 DEF Max

LEMMA MadeFinite ==
    ASSUME StoreInv, NEW p
    PROVE  /\ IsFiniteSet(Made(p)) /\ Cardinality(Made(p)) \in Nat
           /\ \A r : /\ IsFiniteSet(Made(p) \cup {r}) /\ IsFiniteSet(Made(p) \ {r})
                     /\ Cardinality(Made(p) \cup {r}) \in Nat
                     /\ Cardinality(Made(p) \ {r}) \in Nat
                     /\ Cardinality(Made(p)) <= Cardinality(Made(p) \cup {r})
                     /\ Cardinality(Made(p) \cup {r}) <= Cardinality(Made(p)) + 1
                     /\ Cardinality(Made(p) \cup {r}) = Cardinality(Made(p) \ {r}) + 1
                     /\ Cardinality(Made(p) \ {r}) <= Cardinality(Made(p))
  <1>1. IsFiniteSet(Made(p))
    <2>1. Made(p) \in SUBSET DOMAIN calls
      BY DEF Made, Reserved
    <2> QED BY <2>1, FS_Subset DEF StoreInv
  <1>2. Cardinality(Made(p)) \in Nat
    BY <1>1, FS_CardinalityType
  <1>3. ASSUME NEW r
        PROVE  /\ IsFiniteSet(Made(p) \cup {r}) /\ IsFiniteSet(Made(p) \ {r})
               /\ Cardinality(Made(p) \cup {r}) \in Nat
               /\ Cardinality(Made(p) \ {r}) \in Nat
               /\ Cardinality(Made(p)) <= Cardinality(Made(p) \cup {r})
               /\ Cardinality(Made(p) \cup {r}) <= Cardinality(Made(p)) + 1
               /\ Cardinality(Made(p) \cup {r}) = Cardinality(Made(p) \ {r}) + 1
               /\ Cardinality(Made(p) \ {r}) <= Cardinality(Made(p))
    <2>1. IsFiniteSet(Made(p) \cup {r}) /\ IsFiniteSet(Made(p) \ {r})
      BY <1>1, FS_AddElement, FS_RemoveElement
    <2>2. Cardinality(Made(p) \cup {r}) \in Nat /\ Cardinality(Made(p) \ {r}) \in Nat
      BY <2>1, FS_CardinalityType
    <2>3. Cardinality(Made(p) \cup {r}) =
             IF r \in Made(p) THEN Cardinality(Made(p)) ELSE Cardinality(Made(p)) + 1
      BY <1>1, FS_AddElement
    <2>4. Cardinality(Made(p) \ {r}) =
             IF r \in Made(p) THEN Cardinality(Made(p)) - 1 ELSE Cardinality(Made(p))
      BY <1>1, FS_RemoveElement
    <2> QED BY <1>2, <2>1, <2>2, <2>3, <2>4
  <1> QED BY <1>1, <1>2, <1>3

\* What a restart charges is a number, and not below what was made.
LEMMA ChargedCounts ==
    ASSUME StoreInv, NEW p
    PROVE  Charged(p) \in Nat /\ Cardinality(Made(p)) <= Charged(p)
  <1> DEFINE S == {0} \cup Unaccounted(p)
  <1>1. S \subseteq Callers
    BY PolicyAssumption DEF StoreInv, Unaccounted, Callers
  <1>2. IsFiniteSet(S) /\ S \subseteq Int /\ 0 \in S
    <2>1. IsFiniteSet(Callers) /\ Callers \subseteq Int
      BY PolicyAssumption, FS_Interval DEF Callers
    <2> QED BY <1>1, <2>1, FS_Subset
  <1>3. Max(S) \in S /\ Max(S) >= 0
    <2> HIDE DEF S
    <2> QED BY <1>2, MaxOfFinite
  <1>4. Max(S) \in Nat
    BY <1>1, <1>3, PolicyAssumption DEF Callers
  <1>5. Charged(p) = Cardinality(Made(p)) + Max(S)
    BY DEF Charged, Made
  <1> HIDE DEF S
  <1> QED BY <1>4, <1>5, MadeFinite

LEMMA TriedCounts ==
    ASSUME StoreInv, NEW p, NEW j
    PROVE  HistoryOf(j, p).tried \in Nat
  <1>1. IsFiniteSet(AttemptsOf(j, Outcomes))
    <2>1. AttemptsOf(j, Outcomes) \in SUBSET attempts
      BY DEF AttemptsOf
    <2> QED BY <2>1, FS_Subset DEF StoreInv
  <1>2. IsFiniteSet(Recovered(j, p))
    <2>1. Recovered(j, p) \in SUBSET DOMAIN calls
      BY DEF Recovered, Reserved
    <2> QED BY <2>1, FS_Subset DEF StoreInv
  <1>3. Cardinality(AttemptsOf(j, Outcomes)) \in Nat /\ Cardinality(Recovered(j, p)) \in Nat
    BY <1>1, <1>2, FS_CardinalityType
  <1> QED BY <1>3 DEF HistoryOf

LEMMA CallsKept == ASSUME UNCHANGED calls PROVE \A p : Made(p)' = Made(p)
  BY DEF Made, Reserved

LEMMA LimitKept == ASSUME PhaseWithinLimit, UNCHANGED calls PROVE PhaseWithinLimit'
  BY CallsKept DEF PhaseWithinLimit

LEMMA ReserveMade ==
    ASSUME NEW r, ReserveCall(r)
    PROVE  /\ DOMAIN calls' = DOMAIN calls \cup {r}
           /\ \A x \in DOMAIN calls : calls'[x] = calls[x]
           /\ r \notin DOMAIN calls => calls'[r] = "reserved"
           /\ \A p : p # r.plan => Made(p)' = Made(p)
           /\ r \in DOMAIN calls => Made(r.plan)' = Made(r.plan)
           /\ r \notin DOMAIN calls => Made(r.plan)' = Made(r.plan) \cup {r}
  <1>1. /\ DOMAIN calls' = DOMAIN calls \cup {r}
        /\ \A x \in DOMAIN calls : calls'[x] = calls[x]
        /\ r \notin DOMAIN calls => calls'[r] = "reserved"
    BY DEF ReserveCall
  <1>2. \A p : p # r.plan => Made(p)' = Made(p)
    BY <1>1 DEF Made, Reserved
  <1>3. r \in DOMAIN calls => Made(r.plan)' = Made(r.plan)
    BY <1>1 DEF Made, Reserved
  <1>4. r \notin DOMAIN calls => Made(r.plan)' = Made(r.plan) \cup {r}
    BY <1>1 DEF Made, Reserved
  <1> QED BY <1>1, <1>2, <1>3, <1>4

LEMMA FinalizeMade ==
    ASSUME NEW r \in DOMAIN calls, NEW fate \in Fates, FinalizeCall(r, fate)
    PROVE  /\ DOMAIN calls' = DOMAIN calls
           /\ \A x \in DOMAIN calls : calls'[x] = IF x = r THEN fate ELSE calls[x]
           /\ \A p : p # r.plan => Made(p)' = Made(p)
           /\ Made(r.plan)' = IF fate = "not_transmitted" THEN Made(r.plan) \ {r}
                              ELSE Made(r.plan) \cup {r}
  <1>1. /\ DOMAIN calls' = DOMAIN calls
        /\ \A x \in DOMAIN calls : calls'[x] = IF x = r THEN fate ELSE calls[x]
    BY DEF FinalizeCall
  <1>2. \A p : p # r.plan => Made(p)' = Made(p)
    BY <1>1 DEF Made, Reserved
  <1>3. Made(r.plan)' = IF fate = "not_transmitted" THEN Made(r.plan) \ {r}
                        ELSE Made(r.plan) \cup {r}
    BY <1>1 DEF Made, Reserved
  <1> QED BY <1>1, <1>2, <1>3

LEMMA FinalizeStore ==
    ASSUME StoreInv, NEW r \in DOMAIN calls, NEW fate \in Fates, FinalizeCall(r, fate),
           DOMAIN sent' = DOMAIN sent, \A x \in DOMAIN sent : sent'[x] \in Nat
    PROVE  StoreInv'
  <1>1. /\ DOMAIN calls' = DOMAIN calls
        /\ \A x \in DOMAIN calls : calls'[x] = IF x = r THEN fate ELSE calls[x]
        /\ UNCHANGED <<attempts, cache, row>>
    BY FinalizeMade DEF FinalizeCall
  <1> QED BY <1>1 DEF StoreInv, ReservationOK

-----------------------------------------------------------------------------
(* Commands. *)

LEMMA InitInv == Init => IInv
  <1> SUFFICES ASSUME Init PROVE IInv
    OBVIOUS
  <1>1. DOMAIN calls = {} /\ attempts = {} /\ cache = {} /\ DOMAIN sent = {}
    BY DEF Init, StoreInit
  <1>2. StoreInv
    BY <1>1, FS_EmptySet DEF Init, StoreInit, StoreInv, NoRow
  <1>3. ThreadInv /\ CacheInv
    BY DEF Init, ThreadInv, CacheInv, Resting, NoReply, Fields, Steps, InCall, Working
  <1>4. CountInv
    BY <1>1 DEF Init, CountInv, PhaseWithinLimit, Resting, At
  <1> QED BY <1>2, <1>3, <1>4 DEF IInv

\* The thread ends: what is on record stays.
LEMMA RaiseInv ==
    ASSUME IInv, Raise, StoreInv', PhaseWithinLimit'
    PROVE  IInv'
  <1>1. thread' = Resting
    BY DEF Raise
  <1>2. ThreadInv' /\ CacheInv'
    BY <1>1 DEF ThreadInv, CacheInv, Resting, NoReply, Fields, Steps, InCall, Working
  <1>3. CountInv'
    BY <1>1 DEF CountInv, Resting, At
  <1> QED BY <1>2, <1>3 DEF IInv

LEMMA StoreKept ==
    ASSUME StoreInv, UNCHANGED <<storeVars, sent>>
    PROVE  StoreInv'
  BY DEF StoreInv, storeVars, ReservationOK

LEMMA CommandInv == IInv /\ (Start \/ Cancel \/ Crash) => IInv'
  <1> SUFFICES ASSUME IInv, Start \/ Cancel \/ Crash PROVE IInv'
    OBVIOUS
  <1>1. CASE Start
    <2>1. StoreInv'
      BY <1>1 DEF IInv, Start, WriteRow, StoreInv, RunStates, ReservationOK
    <2>2. ScenePlan \subseteq Jobs
      BY DEF ScenePlan, Jobs, Job
    <2>3. thread' = [Resting EXCEPT !.pc = "resume", !.plan = ScenePlan]
      BY <1>1 DEF Start
    <2>4. ThreadInv' /\ CacheInv'
      BY <2>2, <2>3 DEF ThreadInv, CacheInv, Resting, NoReply, Fields, Steps, InCall, Working
    <2>5. PhaseWithinLimit'
      BY <1>1, LimitKept DEF IInv, CountInv, Start, WriteRow
    <2>6. CountInv'
      BY <2>3, <2>5 DEF CountInv, Resting, At
    <2> QED BY <2>1, <2>4, <2>6 DEF IInv
  <1>2. CASE Cancel
    <2>1. UNCHANGED <<storeVars, sent, thread>>
      BY <1>2 DEF Cancel
    <2>2. StoreInv' /\ PhaseWithinLimit'
      BY <2>1, StoreKept, LimitKept DEF IInv, CountInv, storeVars
    <2>3. ThreadInv' /\ CacheInv'
      BY <2>1 DEF IInv, ThreadInv, CacheInv, storeVars
    <2>4. CountInv'
      <3>1. calls' = calls /\ thread' = thread
        BY <2>1 DEF storeVars
      <3>2. Made(thread.plan)' = Made(thread.plan)
        BY <3>1 DEF Made, Reserved
      <3> QED BY <3>1, <3>2, <2>2 DEF IInv, CountInv, Others, At
    <2> QED BY <2>2, <2>3, <2>4 DEF IInv
  <1>3. CASE Crash
    <2>1. UNCHANGED <<storeVars, sent>> /\ Raise
      BY <1>3 DEF Crash, Silent
    <2> QED BY <2>1, StoreKept, LimitKept, RaiseInv DEF IInv, CountInv, storeVars
  <1> QED BY <1>1, <1>2, <1>3

-----------------------------------------------------------------------------
(* Steps that leave the records alone. *)

\* Where the thread rests between phases, nothing is asked of its local variables.
LEMMA BetweenInv ==
    ASSUME IInv, StoreInv', PhaseWithinLimit',
           DOMAIN thread' = Fields, DOMAIN thread'.reply = {"kind", "left"},
           thread'.pc \in Steps \ Working, thread'.plan \subseteq Jobs,
           thread'.prior \in Nat, thread'.used \in Nat, thread'.reply.left \in BOOLEAN,
           thread'.pc \in {"finish", "persist"} => thread'.outcome \in RunStates
    PROVE  IInv'
  <1>1. ThreadInv' /\ CacheInv'
    BY DEF ThreadInv, CacheInv, InCall, Working
  <1>2. CountInv'
    BY DEF CountInv, At, InCall, Working
  <1> QED BY <1>1, <1>2 DEF IInv

LEMMA FinishedInv ==
    ASSUME IInv, StoreInv', PhaseWithinLimit', NEW outcome \in RunStates, NEW record, NEW t,
           t.plan \subseteq Jobs, t.prior \in Nat, t.used \in Nat,
           DOMAIN t = Fields,
           thread' = Finished(t, outcome, record)
    PROVE  IInv'
  <1>1. /\ thread'.pc = "finish" /\ thread'.plan = t.plan /\ thread'.prior = t.prior
        /\ thread'.used = t.used /\ thread'.outcome = outcome /\ thread'.reply = NoReply
        /\ DOMAIN thread' = Fields
    BY DEF Finished, Fields
  <1>2. "finish" \in Steps \ Working
    BY DEF Steps, Working, InCall
  <1>3. thread'.reply.left \in BOOLEAN /\ DOMAIN thread'.reply = {"kind", "left"}
    BY <1>1 DEF NoReply
  <1> QED BY <1>1, <1>2, <1>3, BetweenInv

LEMMA DerivedState == ASSUME NEW record PROVE Derived(record) \in RunStates
  BY DEF Derived, RunStates

LEMMA SilentKeeps ==
    ASSUME IInv, Silent
    PROVE  StoreInv' /\ PhaseWithinLimit' /\ UNCHANGED <<calls, attempts, cache>>
  BY StoreKept, LimitKept DEF IInv, CountInv, Silent, storeVars

LEMMA ResumeInv == IInv /\ Resume => IInv'
  <1> SUFFICES ASSUME IInv, Resume PROVE IInv'
    OBVIOUS
  <1> DEFINE history == [j \in thread.plan |-> HistoryOf(j, thread.plan)]
             record == [j \in thread.plan |->
                           IF Cached(j) THEN "succeeded"
                           ELSE IF CeilingReached(history[j]) THEN "failed" ELSE "queued"]
             resumed == [thread EXCEPT !.used = Charged(thread.plan), !.history = history]
  <1>1. Silent /\ StoreInv' /\ PhaseWithinLimit' /\ UNCHANGED <<calls, attempts, cache>>
    BY SilentKeeps DEF Resume
  <1>2. /\ Charged(thread.plan) \in Nat
        /\ Cardinality(Made(thread.plan)) <= Charged(thread.plan)
    BY ChargedCounts DEF IInv
  <1>3. PICK h : h = history
    OBVIOUS
  <1>4. PICK t : t = [thread EXCEPT !.used = Charged(thread.plan), !.history = h]
    OBVIOUS
  <1>5. /\ DOMAIN t = Fields /\ t.plan = thread.plan /\ t.used = Charged(thread.plan)
        /\ t.prior = thread.prior /\ t.history = h /\ t.reply = thread.reply
    BY <1>4 DEF IInv, ThreadInv, Fields
  <1>6. t.plan \subseteq Jobs /\ t.prior \in Nat /\ t.used \in Nat
    BY <1>2, <1>5 DEF IInv, ThreadInv
  <1>7. CASE \E outcome \in RunStates : \E r : thread' = Finished(t, outcome, r)
    BY <1>1, <1>5, <1>6, <1>7, FinishedInv
  <1>8. CASE \E q : thread' = [t EXCEPT !.pc = "loop", !.record = record, !.queue = q]
    <2>1. PICK q : thread' = [t EXCEPT !.pc = "loop", !.record = record, !.queue = q]
      BY <1>8
    <2>2. /\ DOMAIN thread' = Fields /\ thread'.pc = "loop" /\ thread'.plan = thread.plan
          /\ thread'.used = Charged(thread.plan) /\ thread'.prior = thread.prior
          /\ thread'.history = h /\ thread'.record = record /\ thread'.reply = thread.reply
      BY <2>1, <1>5 DEF Fields
    <2>3. \A j \in thread.plan : h[j].tried \in Nat
      BY <1>3, TriedCounts DEF IInv
    <2>4. DOMAIN h = thread.plan /\ DOMAIN record = thread.plan
      BY <1>3
    <2>5. ThreadInv'
      BY <2>2, <2>3, <2>4, <1>2 DEF IInv, ThreadInv, Steps, InCall, Working
    <2>6. CacheInv'
      <3>1. \A j \in thread.plan \cap cache : record[j] = "succeeded"
        BY DEF Cached
      <3> QED BY <2>2, <3>1, <1>1 DEF CacheInv, InCall, Working
    <2>7. CountInv'
      <3>1. Made(thread.plan)' = Made(thread.plan)
        BY <1>1, <2>2 DEF Made, Reserved
      <3> QED BY <2>2, <3>1, <1>1, <1>2 DEF CountInv, At
    <2> QED BY <1>1, <2>5, <2>6, <2>7 DEF IInv
  <1>9. CASE Raise
    BY <1>1, <1>9, RaiseInv
  <1>10. \/ \E outcome \in RunStates : \E r : thread' = Finished(t, outcome, r)
         \/ \E q : thread' = [t EXCEPT !.pc = "loop", !.record = record, !.queue = q]
         \/ Raise
    <2>1. resumed = t
      BY <1>3, <1>4
    <2>2. Derived(record) \in RunStates /\ "cancelled" \in RunStates /\ "failed" \in RunStates
      BY DerivedState DEF RunStates
    <2>3. CASE thread' = Finished(resumed, "cancelled", [j \in thread.plan |-> "cancelled"])
      BY <2>1, <2>2, <2>3
    <2>4. CASE Raise
      BY <2>4
    <2>5. CASE thread' = Finished(resumed, Derived(record), record)
      BY <2>1, <2>2, <2>5
    <2>6. CASE \E q : thread' = [resumed EXCEPT !.pc = "loop", !.record = record, !.queue = q]
      BY <2>1, <2>6
    <2>7. CASE \E r : thread' = Finished(resumed, "failed", r)
      BY <2>1, <2>2, <2>7
    <2> QED BY <2>3, <2>4, <2>5, <2>6, <2>7 DEF Resume
  <1> QED BY <1>7, <1>8, <1>9, <1>10

LEMMA StopInv ==
    ASSUME IInv, NEW outcome \in RunStates, NEW mark, Stop(outcome, mark),
           StoreInv', PhaseWithinLimit'
    PROVE  IInv'
  <1>1. PICK t : t = thread
    OBVIOUS
  <1>2. t.plan \subseteq Jobs /\ t.prior \in Nat /\ t.used \in Nat /\ DOMAIN t = Fields
    BY <1>1 DEF IInv, ThreadInv
  <1>3. \E r : thread' = Finished(t, outcome, r)
    BY <1>1 DEF Stop
  <1> QED BY <1>2, <1>3, FinishedInv

LEMMA StopsInv == IInv /\ (StopCancelled \/ Drained \/ StopAtLimit) => IInv'
  <1> SUFFICES ASSUME IInv, StopCancelled \/ Drained \/ StopAtLimit PROVE IInv'
    OBVIOUS
  <1>1. StoreInv' /\ PhaseWithinLimit'
    BY SilentKeeps DEF StopCancelled, Drained, StopAtLimit
  <1>2. CASE StopCancelled \/ StopAtLimit
    <2>1. "cancelled" \in RunStates /\ "hard_limit" \in RunStates
      BY DEF RunStates
    <2> QED BY <1>1, <1>2, <2>1, StopInv DEF StopCancelled, StopAtLimit
  <1>3. CASE Drained
    <2>1. PICK t : t = thread
      OBVIOUS
    <2>2. t.plan \subseteq Jobs /\ t.prior \in Nat /\ t.used \in Nat /\ DOMAIN t = Fields
      BY <2>1 DEF IInv, ThreadInv
    <2>3. thread' = Finished(t, Derived(t.record), t.record)
      BY <1>3, <2>1 DEF Drained
    <2> QED BY <1>1, <2>2, <2>3, DerivedState, FinishedInv
  <1> QED BY <1>2, <1>3

LEMMA WriteRowStore ==
    ASSUME StoreInv, NEW state \in RunStates, NEW complete \in {"no", "yes", "unnamed"},
           WriteRow(state, complete), UNCHANGED sent
    PROVE  StoreInv'
  BY DEF StoreInv, WriteRow, ReservationOK

LEMMA PhasesInv == IInv /\ (FinishPhase \/ Aggregate \/ Persist) => IInv'
  <1> SUFFICES ASSUME IInv, FinishPhase \/ Aggregate \/ Persist PROVE IInv'
    OBVIOUS
  <1>1. UNCHANGED <<calls, sent>> /\ PhaseWithinLimit'
    BY LimitKept DEF FinishPhase, Aggregate, Persist, WriteRow, IInv, CountInv
  <1>2. DOMAIN thread = Fields /\ thread.plan \subseteq Jobs /\ thread.prior \in Nat
        /\ thread.used \in Nat /\ thread.reply.left \in BOOLEAN
        /\ DOMAIN thread.reply = {"kind", "left"}
    BY DEF IInv, ThreadInv
  <1>3. {"idle", "resume", "aggregate", "persist"} \subseteq Steps \ Working
    BY DEF Steps, Working, InCall
  <1>4. CASE FinishPhase
    <2>1. StoreInv'
      BY <1>4, WriteRowStore DEF FinishPhase, At, IInv, StoreInv, ThreadInv
    <2>2. SegmentPlan(AcceptedParts) \subseteq Jobs
      BY UnitsAssumption DEF SegmentPlan, Jobs, Job
    <2>3. CASE \E ends : thread' = [Resting EXCEPT !.pc = "aggregate", !.ends = ends]
      <3>1. DOMAIN thread' = Fields /\ thread'.pc = "aggregate" /\ thread'.plan = {}
            /\ thread'.prior = 0 /\ thread'.used = 0 /\ thread'.reply = NoReply
        BY <2>3 DEF Resting, Fields
      <3> QED BY <1>1, <1>3, <2>1, <3>1, BetweenInv DEF NoReply
    <2>4. CASE \E ends : thread' = [Resting EXCEPT !.pc = "resume", !.segments = TRUE, !.ends = ends,
                                         !.plan = SegmentPlan(AcceptedParts),
                                         !.prior = thread.prior + thread.used]
      <3>1. DOMAIN thread' = Fields /\ thread'.pc = "resume"
            /\ thread'.plan = SegmentPlan(AcceptedParts)
            /\ thread'.prior = thread.prior + thread.used
            /\ thread'.used = 0 /\ thread'.reply = NoReply
        BY <2>4 DEF Resting, Fields
      <3> QED BY <1>1, <1>2, <1>3, <2>1, <2>2, <3>1, BetweenInv DEF NoReply
    <2> QED BY <1>4, <2>3, <2>4 DEF FinishPhase
  <1>5. CASE Aggregate
    <2>1. PipelineState \in RunStates
      BY DEF PipelineState, RunStates
    <2>2. StoreInv'
      BY <1>5, <2>1, WriteRowStore DEF Aggregate, IInv
    <2>3. thread' = [thread EXCEPT !.pc = "persist", !.outcome = PipelineState]
      BY <1>5 DEF Aggregate
    <2>4. DOMAIN thread' = Fields /\ thread'.pc = "persist" /\ thread'.plan = thread.plan
          /\ thread'.prior = thread.prior /\ thread'.used = thread.used
          /\ thread'.reply = thread.reply /\ thread'.outcome = PipelineState
      BY <2>3, <1>2 DEF Fields
    <2> QED BY <1>1, <1>2, <1>3, <2>1, <2>2, <2>4, BetweenInv
  <1>6. CASE Persist
    <2>1. thread.outcome \in RunStates
      BY <1>6 DEF Persist, At, IInv, ThreadInv
    <2>2. StoreInv'
      BY <1>6, <2>1, WriteRowStore DEF Persist, IInv
    <2>3. DOMAIN thread' = Fields /\ thread'.pc = "idle" /\ thread'.plan = {}
          /\ thread'.prior = 0 /\ thread'.used = 0 /\ thread'.reply = NoReply
      BY <1>6 DEF Persist, Resting, Fields
    <2> QED BY <1>1, <1>3, <2>2, <2>3, BetweenInv DEF NoReply
  <1> QED BY <1>4, <1>5, <1>6

-----------------------------------------------------------------------------
(* A call. *)

LEMMA ReserveInv == IInv /\ Reserve => IInv'
  <1> SUFFICES ASSUME IInv, Reserve PROVE IInv'
    OBVIOUS
  <1>1. /\ DOMAIN thread = Fields /\ thread.plan \subseteq Jobs /\ thread.pc = "loop"
        /\ thread.prior \in Nat /\ thread.used \in Nat
        /\ thread.reply.left \in BOOLEAN /\ DOMAIN thread.reply = {"kind", "left"}
        /\ DOMAIN thread.record = thread.plan /\ DOMAIN thread.history = thread.plan
        /\ \A j \in thread.plan : thread.history[j].tried \in Nat
        /\ \A j \in thread.plan \cap cache : thread.record[j] = "succeeded"
        /\ Cardinality(Made(thread.plan)) <= thread.used
    BY DEF Reserve, At, IInv, ThreadInv, CacheInv, CountInv, Working
  <1>2. PICK batch : batch = Head(thread.queue)
    OBVIOUS
  <1>3. PICK p : p = thread.plan
    OBVIOUS
  <1>4. CASE Active(batch) = batch
    <2>1. batch \subseteq p /\ batch \cap cache = {}
      BY <1>1, <1>3, <1>4 DEF Active, Terminal, Accepted
    <2>2. PICK r : r = NextCall
      OBVIOUS
    <2>3. r = Reservation(p, batch, [j \in batch |-> thread.history[j].tried + 1],
                          thread.prior + thread.used + 1)
      BY <1>2, <1>3, <2>2 DEF NextCall
    <2>4. /\ r.plan = p /\ r.batch = batch /\ r.call = thread.prior + thread.used + 1
          /\ r.numbers = [j \in batch |-> thread.history[j].tried + 1]
      BY <2>3 DEF Reservation
    <2>5. thread.prior + thread.used + 1 <= MaxCalls
      BY <1>1, PolicyAssumption DEF Reserve, OverLimit
    <2>6. ReservationOK(r) /\ r.call \in Callers
      <3>1. r.numbers \in [batch -> Nat]
        BY <1>1, <1>3, <2>1, <2>4
      <3>2. r.call \in Nat /\ r.call \in Callers
        BY <1>1, <2>4, <2>5, PolicyAssumption DEF Callers
      <3> QED BY <1>1, <1>3, <2>1, <2>4, <3>1, <3>2 DEF ReservationOK
    <2>7. /\ ReserveCall(r) /\ UNCHANGED <<attempts, cache, row>>
          /\ sent' = [x \in DOMAIN calls' |-> IF x \in DOMAIN calls THEN sent[x] ELSE 0]
      BY <1>2, <1>4, <2>2 DEF Reserve, ReserveCall
    <2>8. /\ DOMAIN calls' = DOMAIN calls \cup {r}
          /\ \A x \in DOMAIN calls : calls'[x] = calls[x]
          /\ r \notin DOMAIN calls => calls'[r] = "reserved"
          /\ \A q : q # p => Made(q)' = Made(q)
          /\ r \in DOMAIN calls => Made(p)' = Made(p)
          /\ r \notin DOMAIN calls => Made(p)' = Made(p) \cup {r}
      BY <2>4, <2>7, ReserveMade
    <2>9. /\ DOMAIN thread' = Fields /\ thread'.pc = "submit" /\ thread'.call = r
          /\ thread'.used = thread.used + 1 /\ thread'.plan = p /\ thread'.prior = thread.prior
          /\ thread'.history = thread.history /\ thread'.reply = thread.reply
          /\ thread'.record = [j \in DOMAIN thread.record |->
                                  IF j \in batch THEN "running" ELSE thread.record[j]]
      <3>1. thread' = [thread EXCEPT !.pc = "submit", !.queue = Tail(@), !.call = r,
                             !.used = @ + 1,
                             !.record = [j \in DOMAIN @ |->
                                            IF j \in batch THEN "running" ELSE @[j]]]
        BY <1>2, <1>4, <2>2 DEF Reserve
      <3> QED BY <1>1, <1>3, <3>1 DEF Fields
    <2>10. StoreInv'
      <3>1. IsFiniteSet(DOMAIN calls')
        BY <2>8, FS_AddElement DEF IInv, StoreInv
      <3>2. \A x \in DOMAIN calls' : ReservationOK(x) /\ calls'[x] \in Fates
        BY <2>6, <2>8 DEF IInv, StoreInv, Fates
      <3>3. DOMAIN sent' = DOMAIN calls' /\ \A x \in DOMAIN calls' : sent'[x] \in Nat
        BY <2>7 DEF IInv, StoreInv
      <3> QED BY <2>7, <3>1, <3>2, <3>3 DEF IInv, StoreInv, ReservationOK
    <2>11. ThreadInv'
      <3>1. thread'.prior + thread'.used <= MaxCalls /\ thread'.used \in Nat
        BY <1>1, <2>5, <2>9, PolicyAssumption
      <3>2. r \in DOMAIN calls' /\ r.plan = p /\ r.call \in Callers
        BY <2>4, <2>6, <2>8
      <3>3. DOMAIN thread'.record = p
        BY <1>1, <1>3, <2>9
      <3> QED BY <1>1, <1>3, <2>9, <3>1, <3>2, <3>3 DEF ThreadInv, Steps, InCall, Working
    <2>12. CacheInv'
      <3>1. \A j \in p \cap cache : thread'.record[j] = "succeeded"
        BY <1>1, <1>3, <2>1, <2>9
      <3>2. cache' = cache /\ thread'.call.batch = batch
        BY <2>4, <2>7, <2>9
      <3>3. thread'.call.batch \cap cache' = {}
        BY <2>1, <3>2
      <3>4. \A j \in thread'.plan \cap cache' : thread'.record[j] = "succeeded"
        BY <2>9, <3>1, <3>2
      <3>5. thread'.pc = "submit"
        BY <2>9
      <3> QED BY <3>3, <3>4, <3>5 DEF CacheInv
    <2>13. CountInv'
      <3>1. Cardinality(Made(p)) + 1 <= thread'.used /\ Cardinality(Made(p)) + 1 <= MaxCalls
        BY <1>1, <1>3, <2>5, <2>9, MadeFinite, PolicyAssumption DEF IInv
      <3>2. Cardinality(Made(p)') <= MaxCalls
        <4>1. /\ Cardinality(Made(p)) \in Nat /\ Cardinality(Made(p) \cup {r}) \in Nat
              /\ Cardinality(Made(p) \cup {r}) <= Cardinality(Made(p)) + 1
          BY MadeFinite DEF IInv
        <4>2. Made(p)' = Made(p) \/ Made(p)' = Made(p) \cup {r}
          BY <2>8
        <4>3. PICK m : m = Made(p)'
          OBVIOUS
        <4>4. Cardinality(m) <= MaxCalls
          <5>1. CASE m = Made(p)
            BY <3>1, <4>1, <5>1, PolicyAssumption
          <5>2. CASE m = Made(p) \cup {r}
            BY <3>1, <4>1, <5>2, PolicyAssumption
          <5> QED BY <4>2, <4>3, <5>1, <5>2
        <4> QED BY <4>3, <4>4
      <3>3. PhaseWithinLimit'
        <4>1. \A x \in DOMAIN calls' : Cardinality(Made(x.plan)') <= MaxCalls
          BY <2>4, <2>8, <3>2 DEF IInv, CountInv, PhaseWithinLimit
        <4> QED BY <4>1 DEF PhaseWithinLimit
      <3>4. CASE r \notin DOMAIN calls
        <4>1. Made(p)' \ {r} = Made(p)
          <5>1. r \notin Made(p)
            BY <3>4 DEF Made, Reserved
          <5> QED BY <2>8, <3>4, <5>1
        <4>2. calls'[r] = "reserved" /\ Cardinality(Made(p)' \ {r}) + 1 <= thread'.used
          BY <2>8, <3>1, <3>4, <4>1
        <4> QED BY <2>9, <3>3, <4>2 DEF CountInv, At, Others
      <3>5. CASE r \in DOMAIN calls
        <4>1. Made(p)' = Made(p) /\ Cardinality(Made(p) \ {r}) <= Cardinality(Made(p))
              /\ Cardinality(Made(p) \ {r}) \in Nat /\ Cardinality(Made(p)) \in Nat
          BY <2>8, <3>5, MadeFinite DEF IInv
        <4>2. Cardinality(Made(p)' \ {r}) + 1 <= thread'.used
              /\ Cardinality(Made(p)') + 1 <= thread'.used
          BY <1>1, <2>9, <3>1, <4>1
        <4> QED BY <2>9, <3>3, <4>2 DEF CountInv, At, Others
      <3> QED BY <3>4, <3>5
    <2> QED BY <2>10, <2>11, <2>12, <2>13 DEF IInv
  <1>5. CASE Active(batch) # batch
    <2>1. UNCHANGED <<storeVars, sent>>
      BY <1>2, <1>5 DEF Reserve
    <2>2. \E q : thread' = [thread EXCEPT !.queue = q]
      BY <1>2, <1>5 DEF Reserve
    <2>3. DOMAIN thread' = Fields /\ thread'.pc = "loop" /\ thread'.plan = thread.plan
          /\ thread'.used = thread.used /\ thread'.prior = thread.prior
          /\ thread'.history = thread.history /\ thread'.record = thread.record
          /\ thread'.reply = thread.reply
      BY <1>1, <2>2 DEF Fields
    <2>4. StoreInv' /\ PhaseWithinLimit' /\ UNCHANGED <<calls, cache>>
      BY <2>1, StoreKept, LimitKept DEF IInv, CountInv, storeVars
    <2>5. ThreadInv' /\ CacheInv'
      BY <1>1, <2>3, <2>4 DEF ThreadInv, CacheInv, Steps, InCall, Working
    <2>6. CountInv'
      <3>1. Made(thread.plan)' = Made(thread.plan)
        BY <2>3, <2>4 DEF Made, Reserved
      <3> QED BY <1>1, <2>3, <2>4, <3>1 DEF CountInv, At
    <2> QED BY <2>4, <2>5, <2>6 DEF IInv
  <1> QED BY <1>4, <1>5

\* What is known of a call in progress.
LEMMA CallFacts ==
    ASSUME IInv, thread.pc \in InCall
    PROVE  /\ DOMAIN thread = Fields /\ thread.plan \subseteq Jobs
           /\ thread.prior \in Nat /\ thread.used \in Nat
           /\ DOMAIN thread.reply = {"kind", "left"} /\ thread.reply.left \in BOOLEAN
           /\ DOMAIN thread.record = thread.plan /\ DOMAIN thread.history = thread.plan
           /\ \A j \in thread.plan : thread.history[j].tried \in Nat
           /\ thread.call \in DOMAIN calls /\ thread.call.plan = thread.plan
           /\ thread.call.call \in Callers
           /\ thread.call.batch \subseteq thread.plan
           /\ thread.call.numbers \in [thread.call.batch -> Nat]
           /\ thread.prior + thread.used <= MaxCalls
           /\ \A j \in thread.plan \cap cache : thread.record[j] = "succeeded"
  BY DEF IInv, StoreInv, ThreadInv, CacheInv, ReservationOK, InCall, Working

\* A call that was answered is on record, or counted beside the record.
LEMMA SubmitCounts ==
    ASSUME IInv, At("submit")
    PROVE  /\ Cardinality(Made(thread.plan) \cup {thread.call}) <= thread.used
           /\ thread.used >= 1
  <1>1. PICK p, c : p = thread.plan /\ c = thread.call
    OBVIOUS
  <1>2. /\ Cardinality(Made(p) \cup {c}) \in Nat /\ Cardinality(Made(p) \ {c}) \in Nat
        /\ Cardinality(Made(p)) \in Nat
        /\ Cardinality(Made(p) \cup {c}) <= Cardinality(Made(p)) + 1
        /\ Cardinality(Made(p) \cup {c}) = Cardinality(Made(p) \ {c}) + 1
    BY MadeFinite DEF IInv
  <1>3. thread.used \in Nat
    BY DEF IInv, ThreadInv
  <1>4. \/ Cardinality(Made(p) \ {c}) + 1 <= thread.used
        \/ Cardinality(Made(p)) + 1 <= thread.used
    BY <1>1 DEF IInv, CountInv, Others
  <1>5. Cardinality(Made(p) \cup {c}) <= thread.used /\ thread.used >= 1
    BY <1>2, <1>3, <1>4
  <1> QED BY <1>1, <1>5

LEMMA AnsweredInv ==
    ASSUME IInv, At("submit"), NEW pc \in {"record", "finalize"}, NEW kind, NEW left \in BOOLEAN,
           Answered(pc, kind, left), pc = "finalize" => left,
           UNCHANGED storeVars, DOMAIN sent' = DOMAIN sent, \A r \in DOMAIN sent : sent'[r] \in Nat
    PROVE  IInv'
  <1>1. PICK p, c : p = thread.plan /\ c = thread.call
    OBVIOUS
  <1>2. thread.pc \in InCall /\ thread.pc = "submit"
    BY DEF At, InCall
  <1>3. /\ DOMAIN thread = Fields /\ p \subseteq Jobs /\ thread.prior \in Nat /\ thread.used \in Nat
        /\ DOMAIN thread.record = p /\ DOMAIN thread.history = p
        /\ \A j \in p : thread.history[j].tried \in Nat
        /\ c \in DOMAIN calls /\ c.plan = p /\ c.call \in Callers
        /\ thread.prior + thread.used <= MaxCalls
        /\ \A j \in p \cap cache : thread.record[j] = "succeeded"
    BY <1>1, <1>2, CallFacts
  <1>4. thread' = [thread EXCEPT !.pc = pc, !.reply = [kind |-> kind, left |-> left],
                             !.todo = thread.call.batch, !.again = {},
                             !.used = IF left THEN @ ELSE @ - 1]
    BY DEF Answered
  <1>5. /\ DOMAIN thread' = Fields /\ thread'.pc = pc /\ thread'.plan = p /\ thread'.call = c
        /\ thread'.prior = thread.prior /\ thread'.history = thread.history
        /\ thread'.record = thread.record /\ thread'.todo = c.batch
        /\ thread'.used = IF left THEN thread.used ELSE thread.used - 1
        /\ thread'.reply = [kind |-> kind, left |-> left]
    BY <1>1, <1>3, <1>4 DEF Fields
  <1>6. /\ Cardinality(Made(p) \cup {c}) <= thread.used /\ thread.used >= 1
    BY <1>1, SubmitCounts
  <1>7. UNCHANGED <<calls, attempts, cache, row>>
    BY DEF storeVars
  <1>8. StoreInv'
    BY <1>7 DEF IInv, StoreInv, ReservationOK
  <1>9. PhaseWithinLimit'
    BY <1>7, LimitKept DEF IInv, CountInv
  <1>10. thread'.used \in Nat /\ thread'.prior + thread'.used <= MaxCalls
    BY <1>3, <1>5, <1>6, PolicyAssumption
  <1>11. ThreadInv'
    <2>1. thread'.reply.left \in BOOLEAN /\ DOMAIN thread'.reply = {"kind", "left"}
      BY <1>5
    <2>2. thread'.pc \in Steps /\ thread'.pc \notin {"finish", "persist"}
      BY <1>5 DEF Steps
    <2> QED BY <1>3, <1>5, <1>7, <1>10, <2>1, <2>2 DEF ThreadInv
  <1>12. CacheInv'
    <2>1. c.batch \cap cache = {}
      BY <1>1, <1>2 DEF IInv, CacheInv
    <2>2. thread'.pc # "submit" /\ thread'.todo \cap cache' = {}
      BY <1>5, <1>7, <2>1
    <2>3. \A j \in thread'.plan \cap cache' : thread'.record[j] = "succeeded"
      BY <1>3, <1>5, <1>7
    <2> QED BY <2>2, <2>3 DEF CacheInv
  <1>13. CountInv'
    <2>1. PICK m : m = Made(p)'
      OBVIOUS
    <2>2. m = Made(p)
      BY <1>7, <2>1, CallsKept
    <2>3. /\ Made(thread.plan)' = m /\ thread'.call = c /\ calls' = calls
      BY <1>5, <1>7, <2>1 DEF Made, Reserved
    <2>4. left => Cardinality(m \cup {c}) <= thread'.used
      BY <1>5, <1>6, <2>2
    <2>5. ~left => IF calls[c] = "reserved" THEN Cardinality(m \ {c}) <= thread'.used
                   ELSE Cardinality(m) <= thread'.used
      <3>1. IF calls[c] = "reserved" THEN Cardinality(m \ {c}) + 1 <= thread.used
            ELSE Cardinality(m) + 1 <= thread.used
        BY <1>1, <2>2 DEF IInv, CountInv, Others
      <3>2. Cardinality(m \ {c}) \in Nat /\ Cardinality(m) \in Nat
        BY <2>2, MadeFinite DEF IInv
      <3> QED BY <1>3, <1>5, <3>1, <3>2
    <2>6. thread'.reply.left = left /\ thread'.pc \notin {"loop", "submit", "settle"}
      BY <1>5
    <2>7. thread'.pc = "finalize" => left
      BY <1>5
    <2> QED BY <1>9, <2>3, <2>4, <2>5, <2>6, <2>7 DEF CountInv, At, Others
  <1> QED BY <1>8, <1>11, <1>12, <1>13 DEF IInv

LEMMA SubmittedKeeps ==
    ASSUME IInv, Submitted
    PROVE  DOMAIN sent' = DOMAIN sent /\ \A r \in DOMAIN sent : sent'[r] \in Nat
  BY DEF Submitted, IInv, StoreInv

LEMMA AnswersInv ==
    IInv /\ ((\E kind \in Failures, left \in BOOLEAN : Fail(kind, left)) \/ Respond) => IInv'
  <1> SUFFICES ASSUME IInv, (\E kind \in Failures, left \in BOOLEAN : Fail(kind, left)) \/ Respond
               PROVE  IInv'
    OBVIOUS
  <1>1. CASE \E kind \in Failures, left \in BOOLEAN : Fail(kind, left)
    <2>1. PICK kind \in Failures, left \in BOOLEAN : Fail(kind, left)
      BY <1>1
    <2>2. DOMAIN sent' = DOMAIN sent /\ \A r \in DOMAIN sent : sent'[r] \in Nat
      <3>1. CASE left
        BY <2>1, <3>1, SubmittedKeeps DEF Fail
      <3>2. CASE ~left
        BY <2>1, <3>2 DEF Fail, IInv, StoreInv
      <3> QED BY <3>1, <3>2
    <2>3. At("submit") /\ Answered("record", kind, left) /\ UNCHANGED storeVars
      BY <2>1 DEF Fail
    <2> QED BY <2>2, <2>3, AnsweredInv
  <1>2. CASE Respond
    BY <1>2, SubmittedKeeps, AnsweredInv DEF Respond
  <1> QED BY <1>1, <1>2

LEMMA FinalizeLimit ==
    ASSUME StoreInv, PhaseWithinLimit, NEW r \in DOMAIN calls, NEW fate \in Fates,
           FinalizeCall(r, fate), Cardinality(Made(r.plan) \cup {r}) <= MaxCalls
    PROVE  PhaseWithinLimit'
  <1>1. PICK m : m = Made(r.plan)'
    OBVIOUS
  <1>2. m = Made(r.plan) \cup {r} \/ m = Made(r.plan) \ {r}
    BY <1>1, FinalizeMade
  <1>3. /\ Cardinality(Made(r.plan)) \in Nat /\ Cardinality(Made(r.plan) \ {r}) \in Nat
        /\ Cardinality(Made(r.plan) \ {r}) <= Cardinality(Made(r.plan))
        /\ Cardinality(Made(r.plan)) <= MaxCalls
    BY MadeFinite DEF PhaseWithinLimit
  <1>4. Cardinality(m) <= MaxCalls
    <2>1. CASE m = Made(r.plan) \cup {r}
      BY <2>1
    <2>2. CASE m = Made(r.plan) \ {r}
      BY <1>3, <2>2, PolicyAssumption
    <2> QED BY <1>2, <2>1, <2>2
  <1>5. \A x \in DOMAIN calls' : Cardinality(Made(x.plan)') <= MaxCalls
    <2>1. DOMAIN calls' = DOMAIN calls /\ \A p : p # r.plan => Made(p)' = Made(p)
      BY FinalizeMade
    <2> QED BY <1>1, <1>4, <2>1 DEF PhaseWithinLimit
  <1> QED BY <1>5 DEF PhaseWithinLimit

LEMMA FateNames == {"reserved", "transmitted", "unknown", "not_transmitted"} = Fates
  BY DEF Fates

LEMMA InterruptInv == IInv /\ Interrupt => IInv'
  <1> SUFFICES ASSUME IInv, Interrupt PROVE IInv'
    OBVIOUS
  <1>1. PICK c : c = thread.call
    OBVIOUS
  <1>2. At("submit") /\ FinalizeCall(c, "unknown") /\ Raise /\ Submitted
    BY <1>1 DEF Interrupt
  <1>3. c \in DOMAIN calls /\ c.plan = thread.plan /\ thread.prior \in Nat /\ thread.used \in Nat
        /\ thread.prior + thread.used <= MaxCalls
    BY <1>1, <1>2, CallFacts DEF At, InCall
  <1>4. StoreInv'
    BY <1>2, <1>3, FateNames, SubmittedKeeps, FinalizeStore DEF IInv
  <1>5. Cardinality(Made(c.plan) \cup {c}) <= MaxCalls
    <2>1. Cardinality(Made(c.plan) \cup {c}) \in Nat
      BY MadeFinite DEF IInv
    <2>2. Cardinality(Made(c.plan) \cup {c}) <= thread.used
      BY <1>1, <1>2, <1>3, SubmitCounts
    <2> QED BY <1>3, <2>1, <2>2, PolicyAssumption
  <1>6. PhaseWithinLimit'
    BY <1>2, <1>3, <1>5, FateNames, FinalizeLimit DEF IInv, CountInv
  <1> QED BY <1>2, <1>4, <1>6, RaiseInv

LEMMA FinalizeInv == IInv /\ (\E kind \in ResponseKinds : Finalize(kind)) => IInv'
  <1> SUFFICES ASSUME IInv, NEW kind \in ResponseKinds, Finalize(kind) PROVE IInv'
    OBVIOUS
  <1>1. PICK p, c : p = thread.plan /\ c = thread.call
    OBVIOUS
  <1>2. thread.pc \in InCall /\ thread.pc = "finalize" /\ UNCHANGED sent
    BY DEF Finalize, At, InCall
  <1>3. /\ DOMAIN thread = Fields /\ p \subseteq Jobs /\ thread.prior \in Nat /\ thread.used \in Nat
        /\ DOMAIN thread.reply = {"kind", "left"} /\ thread.reply.left \in BOOLEAN
        /\ DOMAIN thread.record = p /\ DOMAIN thread.history = p
        /\ \A j \in p : thread.history[j].tried \in Nat
        /\ c \in DOMAIN calls /\ c.plan = p /\ c.call \in Callers
        /\ thread.prior + thread.used <= MaxCalls
        /\ \A j \in p \cap cache : thread.record[j] = "succeeded"
        /\ thread.todo \subseteq c.batch /\ thread.todo \cap cache = {}
        /\ Cardinality(Made(p) \cup {c}) <= thread.used
    <2>1. thread.todo \subseteq c.batch /\ thread.todo \cap cache = {}
      BY <1>1, <1>2 DEF IInv, ThreadInv, CacheInv
    <2>2. Cardinality(Made(p) \cup {c}) <= thread.used
      BY <1>1, <1>2 DEF IInv, CountInv, At
    <2> QED BY <1>1, <1>2, <2>1, <2>2, CallFacts
  <1>4. PICK k : thread' = [thread EXCEPT !.pc = "record", !.reply.kind = k]
    BY DEF Finalize
  <1>5. /\ DOMAIN thread' = Fields /\ thread'.pc = "record" /\ thread'.plan = p
        /\ thread'.call = c /\ thread'.prior = thread.prior /\ thread'.history = thread.history
        /\ thread'.record = thread.record /\ thread'.todo = thread.todo
        /\ thread'.used = thread.used
        /\ thread'.reply.left = thread.reply.left /\ DOMAIN thread'.reply = {"kind", "left"}
    BY <1>1, <1>3, <1>4 DEF Fields
  <1>6. FinalizeCall(c, "transmitted")
    BY <1>1 DEF Finalize
  <1>7. StoreInv'
    BY <1>2, <1>3, <1>6, FateNames, FinalizeStore DEF IInv, StoreInv
  <1>8. /\ DOMAIN calls' = DOMAIN calls /\ cache' = cache /\ calls'[c] = "transmitted"
        /\ Made(p)' = Made(p) \cup {c}
    BY <1>3, <1>6, FateNames, FinalizeMade DEF FinalizeCall
  <1>9. PhaseWithinLimit'
    <2>1. Cardinality(Made(p) \cup {c}) \in Nat
      BY MadeFinite DEF IInv
    <2>2. Cardinality(Made(p) \cup {c}) <= MaxCalls
      BY <1>3, <2>1, PolicyAssumption
    <2> QED BY <1>3, <1>6, <2>2, FateNames, FinalizeLimit DEF IInv, CountInv
  <1>10. ThreadInv'
    <2>1. thread'.pc \in Steps /\ thread'.pc \notin {"finish", "persist"}
      BY <1>5 DEF Steps
    <2> QED BY <1>3, <1>5, <1>8, <2>1 DEF ThreadInv
  <1>11. CacheInv'
    <2>1. thread'.pc # "submit" /\ thread'.todo \cap cache' = {}
      BY <1>3, <1>5, <1>8
    <2>2. \A j \in thread'.plan \cap cache' : thread'.record[j] = "succeeded"
      BY <1>3, <1>5, <1>8
    <2> QED BY <2>1, <2>2 DEF CacheInv
  <1>12. CountInv'
    <2>1. PICK m : m = Made(p)'
      OBVIOUS
    <2>2. Made(thread.plan)' = m
      BY <1>5, <2>1 DEF Made, Reserved
    <2>3. m \cup {c} = Made(p) \cup {c} /\ m = Made(p) \cup {c}
      BY <1>8, <2>1
    <2>4. Cardinality(m \cup {c}) <= thread'.used /\ Cardinality(m) <= thread'.used
      BY <1>3, <1>5, <2>3
    <2>5. thread'.pc = "record" /\ calls'[thread'.call] # "reserved" /\ thread'.call = c
      BY <1>5, <1>8
    <2> QED BY <1>9, <2>2, <2>4, <2>5 DEF CountInv, At, Others
  <1> QED BY <1>7, <1>10, <1>11, <1>12 DEF IInv

-----------------------------------------------------------------------------
(* The attempts of a call. *)

LEMMA RecordedInv ==
    ASSUME IInv, At("record"), NEW job, Current(job), NEW outcome, NEW state, NEW retry,
           thread'.reply.left = thread.reply.left, DOMAIN thread'.reply = {"kind", "left"},
           \E t : t = Recorded(job, outcome, state, retry) /\ thread' = [t EXCEPT !.reply = thread'.reply],
           UNCHANGED calls, StoreInv',
           cache' = cache \/ (cache' = cache \cup {job} /\ state = "succeeded")
    PROVE  IInv'
  <1>1. PICK p, c : p = thread.plan /\ c = thread.call
    OBVIOUS
  <1>2. thread.pc \in InCall /\ thread.pc = "record" /\ job \in thread.todo
    BY DEF At, InCall, Current
  <1>3. /\ DOMAIN thread = Fields /\ p \subseteq Jobs /\ thread.prior \in Nat /\ thread.used \in Nat
        /\ DOMAIN thread.reply = {"kind", "left"} /\ thread.reply.left \in BOOLEAN
        /\ DOMAIN thread.record = p /\ DOMAIN thread.history = p
        /\ \A j \in p : thread.history[j].tried \in Nat
        /\ c \in DOMAIN calls /\ c.plan = p /\ c.call \in Callers /\ c.batch \subseteq p
        /\ thread.prior + thread.used <= MaxCalls
        /\ \A j \in p \cap cache : thread.record[j] = "succeeded"
        /\ thread.todo \subseteq c.batch /\ thread.todo \cap cache = {}
    <2>1. thread.todo \subseteq c.batch /\ thread.todo \cap cache = {}
      BY <1>1, <1>2 DEF IInv, ThreadInv, CacheInv
    <2> QED BY <1>1, <1>2, <2>1, CallFacts
  <1>4. PICK h : h = [thread.history EXCEPT ![job] = Tried(thread.history[job], outcome)]
    OBVIOUS
  <1>5. PICK rest, pc : rest = thread.todo \ {job} /\ pc = IF rest = {} THEN "settle" ELSE "record"
    OBVIOUS
  <1>6. /\ DOMAIN thread' = Fields /\ thread'.pc = pc /\ thread'.plan = p
        /\ thread'.call = c /\ thread'.prior = thread.prior /\ thread'.history = h
        /\ thread'.record = [thread.record EXCEPT ![job] = state] /\ thread'.todo = rest
        /\ thread'.used = thread.used
    <2>1. PICK t : t = Recorded(job, outcome, state, retry)
                   /\ thread' = [t EXCEPT !.reply = thread'.reply]
      OBVIOUS
    <2>2. PICK q : t = [thread EXCEPT !.todo = rest, !.pc = pc,
                           !.history[job] = Tried(thread.history[job], outcome),
                           !.record[job] = state, !.again = q]
      BY <1>5, <2>1 DEF Recorded
    <2>3. /\ DOMAIN t = Fields /\ t.pc = pc /\ t.plan = p /\ t.call = c /\ t.prior = thread.prior
          /\ t.todo = rest /\ t.used = thread.used
      BY <1>1, <1>3, <2>2 DEF Fields
    <2>4. t.history = h
      BY <1>3, <1>4, <2>2 DEF Fields
    <2>5. t.record = [thread.record EXCEPT ![job] = state]
      BY <1>3, <2>2 DEF Fields
    <2>6. \A f \in Fields \ {"reply"} : thread'[f] = t[f]
      BY <2>1, <2>3
    <2>7. DOMAIN thread' = Fields
      BY <2>1, <2>3
    <2> QED BY <2>3, <2>4, <2>5, <2>6, <2>7 DEF Fields
  <1>7. DOMAIN h = p /\ \A j \in p : h[j].tried \in Nat
    BY <1>3, <1>4 DEF Tried
  <1>8. PhaseWithinLimit'
    BY LimitKept DEF IInv, CountInv
  <1>9. pc \in {"record", "settle"}
    BY <1>5
  <1>10. ThreadInv'
    <2>1. thread'.pc \in Steps /\ thread'.pc \notin {"finish", "persist"}
      BY <1>6, <1>9 DEF Steps
    <2>2. thread'.todo \subseteq thread'.call.batch /\ DOMAIN thread'.record = p
      BY <1>3, <1>5, <1>6
    <2> QED BY <1>3, <1>6, <1>7, <2>1, <2>2 DEF ThreadInv
  <1>11. CacheInv'
    <2>1. thread'.pc # "submit"
      BY <1>6, <1>9
    <2>2. thread'.todo \cap cache' = {}
      BY <1>3, <1>5, <1>6
    <2>3. job \notin cache /\ job \in p
      BY <1>2, <1>3
    <2>4. \A j \in p \cap cache' : thread'.record[j] = "succeeded"
      BY <1>3, <1>6, <2>3
    <2> QED BY <1>6, <2>1, <2>2, <2>4 DEF CacheInv
  <1>12. CountInv'
    <2>1. Made(thread.plan)' = Made(thread.plan)
      BY <1>1, <1>6 DEF Made, Reserved
    <2>2. thread'.pc \in {"record", "settle"} /\ thread.pc = "record"
      BY <1>2, <1>6, <1>9
    <2>3. thread'.call = thread.call /\ calls' = calls /\ thread'.used = thread.used
      BY <1>1, <1>6
    <2> QED BY <1>8, <2>1, <2>2, <2>3 DEF IInv, CountInv, At, Others
  <1> QED BY <1>10, <1>11, <1>12 DEF IInv

LEMMA AttemptShape ==
    ASSUME IInv, At("record"), NEW job, Current(job), NEW outcome \in Outcomes, NEW left \in BOOLEAN
    PROVE  /\ Attempt(job, thread.call, outcome, left).job = job
           /\ Attempt(job, thread.call, outcome, left).job \in Jobs
           /\ Attempt(job, thread.call, outcome, left).outcome \in Outcomes
           /\ Attempt(job, thread.call, outcome, left).number \in Nat
           /\ Attempt(job, thread.call, outcome, left).call \in Callers
  <1>1. thread.pc \in InCall /\ job \in thread.todo /\ thread.todo \subseteq thread.call.batch
    BY DEF At, InCall, Current, IInv, ThreadInv
  <1>2. job \in Jobs /\ thread.call.numbers[job] \in Nat /\ thread.call.call \in Callers
    BY <1>1, CallFacts
  <1>3. 0 \in Callers
    BY PolicyAssumption DEF Callers
  <1> QED BY <1>2, <1>3 DEF Attempt

LEMMA OutcomesOf == \A kind : OutcomeOf(kind) \in Outcomes
  BY DEF OutcomeOf, Outcomes

LEMMA RecordFailureInv ==
    ASSUME IInv, At("record"), NEW job, Current(job), NEW kind, RecordFailure(job, kind)
    PROVE  IInv'
  <1>1. PICK outcome : outcome = OutcomeOf(kind)
    OBVIOUS
  <1>2. outcome \in Outcomes
    BY <1>1, OutcomesOf
  <1>3. PICK a : a = Attempt(job, thread.call, outcome, thread.reply.left)
    OBVIOUS
  <1>4. thread.pc \in InCall
    BY DEF At, InCall
  <1>5. /\ DOMAIN thread = Fields /\ DOMAIN thread.reply = {"kind", "left"}
        /\ thread.reply.left \in BOOLEAN
    BY <1>4, CallFacts
  <1>6. a.job \in Jobs /\ a.outcome \in Outcomes /\ a.number \in Nat /\ a.call \in Callers
    BY <1>2, <1>3, <1>5, AttemptShape
  <1>7. RecordAttempt(a) /\ UNCHANGED sent
    BY <1>1, <1>3 DEF RecordFailure
  <1>8. StoreInv'
    <2>1. IsFiniteSet({b \in attempts : ~SameAttempt(a, b)} \cup {a})
      <3>1. IsFiniteSet(attempts)
        BY DEF IInv, StoreInv
      <3>2. IsFiniteSet({b \in attempts : ~SameAttempt(a, b)})
        BY <3>1, FS_Subset
      <3> QED BY <3>2, FS_AddElement
    <2> QED BY <1>6, <1>7, <2>1 DEF RecordAttempt, IInv, StoreInv, ReservationOK
  <1>9. PICK state, retry : thread' = [Recorded(job, outcome, state, retry)
                        EXCEPT !.reply.kind = IF kind = "withdrawn" THEN kind ELSE @]
    BY <1>1 DEF RecordFailure
  <1>10. PICK t : t = Recorded(job, outcome, state, retry)
    OBVIOUS
  <1>11. t.reply = thread.reply /\ DOMAIN t = Fields
    BY <1>5, <1>10 DEF Recorded, Fields
  <1>12. PICK k : thread' = [t EXCEPT !.reply.kind = k]
    BY <1>9, <1>10
  <1>13. /\ thread'.reply.left = thread.reply.left /\ DOMAIN thread'.reply = {"kind", "left"}
         /\ thread' = [t EXCEPT !.reply = thread'.reply]
    BY <1>5, <1>11, <1>12 DEF Fields
  <1> QED BY <1>7, <1>8, <1>10, <1>13, RecordedInv DEF RecordAttempt

LEMMA FailuresInv ==
    IInv /\ ((\E job \in thread.todo : RecordError(job))
             \/ (\E job \in thread.todo, kind \in {"refused item", "bad item", "withdrawn"} :
                    RecordItem(job, kind))) => IInv'
  BY RecordFailureInv DEF RecordError, RecordItem

LEMMA AcceptInv == IInv /\ (\E job \in thread.todo : Accept(job)) => IInv'
  <1> SUFFICES ASSUME IInv, NEW job \in thread.todo, Accept(job) PROVE IInv'
    OBVIOUS
  <1>1. PICK a : a = Attempt(job, thread.call, "accepted", TRUE)
    OBVIOUS
  <1>2. /\ At("record") /\ Current(job) /\ Publish(a) /\ UNCHANGED sent
        /\ thread' = Recorded(job, "accepted", "succeeded", FALSE)
    BY <1>1 DEF Accept
  <1>3. "accepted" \in Outcomes
    BY DEF Outcomes
  <1>4. a.job = job /\ a.job \in Jobs /\ a.outcome \in Outcomes /\ a.number \in Nat
        /\ a.call \in Callers
    BY <1>1, <1>2, <1>3, AttemptShape
  <1>5. StoreInv'
    <2>1. IsFiniteSet(attempts \cup {a})
      BY FS_AddElement DEF IInv, StoreInv
    <2> QED BY <1>2, <1>4, <2>1 DEF Publish, IInv, StoreInv, ReservationOK
  <1>6. DOMAIN thread = Fields /\ DOMAIN thread.reply = {"kind", "left"}
    BY DEF IInv, ThreadInv
  <1>0. PICK outcome, state, retry : outcome = "accepted" /\ state = "succeeded" /\ retry = FALSE
    OBVIOUS
  <1>7. PICK t : t = Recorded(job, outcome, state, retry)
    OBVIOUS
  <1>8. thread' = t /\ t.reply = thread.reply /\ DOMAIN t = Fields
    BY <1>2, <1>6, <1>0, <1>7 DEF Recorded, Fields
  <1>9. thread' = [t EXCEPT !.reply = thread'.reply]
    <2>1. t = [t EXCEPT !.reply = t.reply]
      BY <1>7 DEF Recorded
    <2> QED BY <1>8, <2>1
  <1>10. /\ thread'.reply.left = thread.reply.left /\ DOMAIN thread'.reply = {"kind", "left"}
         /\ UNCHANGED calls /\ cache' = cache \cup {job}
    BY <1>2, <1>4, <1>6, <1>8 DEF Publish
  <1>11. cache' = cache \/ (cache' = cache \cup {job} /\ state = "succeeded")
    BY <1>0, <1>10
  <1>12. \E u : u = Recorded(job, outcome, state, retry) /\ thread' = [u EXCEPT !.reply = thread'.reply]
    BY <1>7, <1>9
  <1>13. At("record") /\ Current(job)
    BY <1>2
  <1> QED BY <1>5, <1>10, <1>11, <1>12, <1>13, RecordedInv

LEMMA RollBackInv == IInv /\ (\E job \in thread.todo : RollBack(job)) => IInv'
  BY SilentKeeps, RaiseInv DEF RollBack

\* After the attempts, the record says of the call what the thread counted.
LEMMA SettledCounts ==
    ASSUME IInv, At("settle"),
           IF calls[thread.call] = "reserved"
           THEN FinalizeCall(thread.call, IF thread.reply.left THEN "unknown" ELSE "not_transmitted")
           ELSE UNCHANGED storeVars,
           UNCHANGED sent
    PROVE  /\ StoreInv' /\ PhaseWithinLimit' /\ cache' = cache
           /\ \A p : p = thread.plan => Cardinality(Made(p)') <= thread.used
  <1>1. PICK p, c, left : p = thread.plan /\ c = thread.call /\ left = thread.reply.left
    OBVIOUS
  <1>2. thread.pc \in InCall /\ thread.pc = "settle"
    BY DEF At, InCall
  <1>3. /\ c \in DOMAIN calls /\ c.plan = p /\ left \in BOOLEAN
        /\ thread.prior \in Nat /\ thread.used \in Nat /\ thread.prior + thread.used <= MaxCalls
    BY <1>1, <1>2, CallFacts
  <1>4. IF left THEN Cardinality(Made(p) \cup {c}) <= thread.used
        ELSE IF calls[c] = "reserved" THEN Cardinality(Made(p) \ {c}) <= thread.used
        ELSE Cardinality(Made(p)) <= thread.used
    BY <1>1, <1>2 DEF IInv, CountInv, Others
  <1>5. /\ Cardinality(Made(p) \cup {c}) \in Nat /\ Cardinality(Made(p) \ {c}) \in Nat
        /\ Cardinality(Made(p)) \in Nat /\ Cardinality(Made(p)) <= Cardinality(Made(p) \cup {c})
        /\ Cardinality(Made(p) \ {c}) <= Cardinality(Made(p))
        /\ Cardinality(Made(p)) <= MaxCalls
    BY <1>3, MadeFinite DEF IInv, CountInv, PhaseWithinLimit
  <1>6. CASE calls[c] # "reserved"
    <2>1. UNCHANGED <<storeVars, sent>> /\ calls' = calls /\ cache' = cache
      BY <1>1, <1>6 DEF storeVars
    <2>2. StoreInv' /\ PhaseWithinLimit'
      BY <2>1, StoreKept, LimitKept DEF IInv, CountInv
    <2>3. Cardinality(Made(p)) <= thread.used
      BY <1>3, <1>4, <1>5, <1>6
    <2>4. Made(p)' = Made(p)
      BY <2>1, CallsKept
    <2> QED BY <1>1, <2>1, <2>2, <2>3, <2>4
  <1>7. CASE calls[c] = "reserved" /\ left
    <2>1. FinalizeCall(c, "unknown") /\ cache' = cache
      BY <1>1, <1>7 DEF FinalizeCall
    <2>2. StoreInv'
      BY <1>3, <2>1, FateNames, FinalizeStore DEF IInv, StoreInv
    <2>3. Made(p)' = Made(p) \cup {c}
      BY <1>3, <2>1, FateNames, FinalizeMade
    <2>4. Cardinality(Made(p) \cup {c}) <= thread.used
      BY <1>4, <1>7
    <2>5. Cardinality(Made(p) \cup {c}) <= MaxCalls
      BY <1>3, <1>5, <2>4, PolicyAssumption
    <2>6. PhaseWithinLimit'
      BY <1>3, <2>1, <2>5, FateNames, FinalizeLimit DEF IInv, CountInv
    <2> QED BY <1>1, <2>1, <2>2, <2>3, <2>4, <2>6
  <1>8. CASE calls[c] = "reserved" /\ ~left
    <2>1. FinalizeCall(c, "not_transmitted") /\ cache' = cache
      BY <1>1, <1>8 DEF FinalizeCall
    <2>2. StoreInv'
      BY <1>3, <2>1, FateNames, FinalizeStore DEF IInv, StoreInv
    <2>3. Made(p)' = Made(p) \ {c}
      BY <1>3, <2>1, FateNames, FinalizeMade
    <2>4. Cardinality(Made(p) \ {c}) <= thread.used
      BY <1>4, <1>8
    <2>5. c \in Made(p)
      BY <1>3, <1>8 DEF Made, Reserved
    <2>6. Cardinality(Made(p) \cup {c}) <= MaxCalls
      <3>1. Made(p) \cup {c} = Made(p)
        BY <2>5
      <3> QED BY <1>5, <3>1
    <2>7. PhaseWithinLimit'
      BY <1>3, <2>1, <2>6, FateNames, FinalizeLimit DEF IInv, CountInv
    <2> QED BY <1>1, <2>1, <2>2, <2>3, <2>4, <2>7
  <1> QED BY <1>3, <1>6, <1>7, <1>8

LEMMA SettleInv == IInv /\ Settle => IInv'
  <1> SUFFICES ASSUME IInv, Settle PROVE IInv'
    OBVIOUS
  <1>1. /\ StoreInv' /\ PhaseWithinLimit' /\ cache' = cache
        /\ \A p : p = thread.plan => Cardinality(Made(p)') <= thread.used
    BY SettledCounts DEF Settle
  <1>2. CASE Stopping = "none"
    <2>1. PICK q : thread' = [thread EXCEPT !.pc = "loop", !.queue = q, !.call = NoCall,
                                     !.reply = NoReply, !.again = {}]
      BY <1>2 DEF Settle
    <2>2. PICK p : p = thread.plan
      OBVIOUS
    <2>3. thread.pc = "settle" /\ thread.pc \in InCall
      BY DEF Settle, At, InCall
    <2>4. /\ DOMAIN thread = Fields /\ p \subseteq Jobs /\ thread.prior \in Nat
          /\ thread.used \in Nat
          /\ DOMAIN thread.record = p /\ DOMAIN thread.history = p
          /\ \A j \in p : thread.history[j].tried \in Nat
          /\ \A j \in p \cap cache : thread.record[j] = "succeeded"
      BY <2>2, <2>3, CallFacts
    <2>5. /\ DOMAIN thread' = Fields /\ thread'.pc = "loop" /\ thread'.plan = p
          /\ thread'.prior = thread.prior /\ thread'.used = thread.used
          /\ thread'.history = thread.history /\ thread'.record = thread.record
          /\ thread'.reply = NoReply
      BY <2>1, <2>2, <2>4 DEF Fields
    <2>6. ThreadInv' /\ CacheInv'
      BY <1>1, <2>4, <2>5 DEF ThreadInv, CacheInv, NoReply, Steps, InCall, Working
    <2>7. CountInv'
      <3>1. Cardinality(Made(p)') <= thread.used
        BY <1>1, <2>2
      <3>2. Made(thread.plan)' = Made(p)'
        BY <2>5 DEF Made, Reserved
      <3> QED BY <1>1, <2>5, <3>1, <3>2 DEF CountInv, At
    <2> QED BY <1>1, <2>6, <2>7 DEF IInv
  <1>3. CASE Stopping # "none"
    <2>1. Stopping \in RunStates
      BY <1>3 DEF Stopping, RunStates
    <2>2. \E mark : Stop(Stopping, mark)
      BY <1>3 DEF Settle
    <2>3. PICK outcome, mark : outcome = Stopping /\ Stop(outcome, mark)
      BY <2>2
    <2> QED BY <1>1, <2>1, <2>3, StopInv
  <1> QED BY <1>2, <1>3

-----------------------------------------------------------------------------
(* The specification. *)

LEMMA StepInv == IInv /\ [Next]_vars => IInv'
  <1> SUFFICES ASSUME IInv, [Next]_vars PROVE IInv'
    OBVIOUS
  <1>1. CASE Start \/ Cancel \/ Crash
    BY <1>1, CommandInv
  <1>2. CASE ThreadStep
    BY <1>2, ResumeInv, StopsInv, ReserveInv, AnswersInv, InterruptInv, FinalizeInv, FailuresInv,
       AcceptInv, RollBackInv, SettleInv, PhasesInv DEF ThreadStep
  <1>3. CASE UNCHANGED vars
    <2>1. UNCHANGED <<storeVars, sent, thread>>
      BY <1>3 DEF vars
    <2>2. StoreInv' /\ PhaseWithinLimit'
      BY <2>1, StoreKept, LimitKept DEF IInv, CountInv, storeVars
    <2>3. ThreadInv' /\ CacheInv'
      BY <2>1 DEF IInv, ThreadInv, CacheInv, storeVars
    <2>4. CountInv'
      <3>1. calls' = calls /\ thread' = thread
        BY <2>1 DEF storeVars
      <3>2. Made(thread.plan)' = Made(thread.plan)
        BY <3>1 DEF Made, Reserved
      <3> QED BY <3>1, <3>2, <2>2 DEF IInv, CountInv, Others, At
    <2> QED BY <2>2, <2>3, <2>4 DEF IInv
  <1> QED BY <1>1, <1>2, <1>3 DEF Next

LEMMA Invariance == Spec => []IInv
  BY InitInv, StepInv, PTL DEF Spec

\* Types: the records and the thread keep their shape, and a call in progress is reserved.
THEOREM NarrativeTypeCorrect == Spec => []NarrativeTypeOK
  <1>1. IInv => NarrativeTypeOK
    BY DEF IInv, StoreInv, ThreadInv, NarrativeTypeOK, InCall
  <1> QED BY <1>1, Invariance, PTL

\* However often the run is restarted, the calls of a phase stay within the consent's limit.
THEOREM PhaseStaysWithinLimit == Spec => []PhaseWithinLimit
  <1>1. IInv => PhaseWithinLimit
    BY DEF IInv, CountInv
  <1> QED BY <1>1, Invariance, PTL

\* Only a submission changes what was sent.
LEMMA OnlySubmissionsSend ==
    ASSUME IInv, [Next]_vars, NEW r \in DOMAIN sent \cap DOMAIN sent', sent'[r] # sent[r]
    PROVE  At("submit") /\ r = thread.call
  <1>1. CASE UNCHANGED sent
    BY <1>1
  <1>2. CASE Submitted /\ At("submit")
    BY <1>2 DEF Submitted
  <1>3. CASE Reserve
    BY <1>3 DEF Reserve, IInv, StoreInv
  <1>4. \/ UNCHANGED sent
        \/ Submitted /\ At("submit")
        \/ Reserve
    <2>1. CASE Start \/ Cancel \/ Crash
      BY <2>1 DEF Start, Cancel, Crash, Silent
    <2>2. CASE UNCHANGED vars
      BY <2>2 DEF vars
    <2>3. CASE ThreadStep
      <3>1. CASE Resume \/ StopCancelled \/ Drained \/ StopAtLimit
        BY <3>1 DEF Resume, StopCancelled, Drained, StopAtLimit, Silent
      <3>2. CASE \E kind \in Failures, left \in BOOLEAN : Fail(kind, left)
        BY <3>2 DEF Fail
      <3>3. CASE Interrupt \/ Respond
        BY <3>3 DEF Interrupt, Respond
      <3>4. CASE \E kind \in ResponseKinds : Finalize(kind)
        BY <3>4 DEF Finalize
      <3>5. CASE \/ \E job \in thread.todo : RecordError(job)
                 \/ \E job \in thread.todo, kind \in {"refused item", "bad item", "withdrawn"} :
                        RecordItem(job, kind)
        BY <3>5 DEF RecordError, RecordItem, RecordFailure
      <3>6. CASE (\E job \in thread.todo : Accept(job)) \/ (\E job \in thread.todo : RollBack(job))
        BY <3>6 DEF Accept, RollBack, Silent
      <3>7. CASE Settle \/ FinishPhase \/ Aggregate \/ Persist
        BY <3>7 DEF Settle, FinishPhase, Aggregate, Persist
      <3> QED BY <2>3, <3>1, <3>2, <3>3, <3>4, <3>5, <3>6, <3>7 DEF ThreadStep
    <2> QED BY <2>1, <2>2, <2>3 DEF Next
  <1> QED BY <1>1, <1>2, <1>3, <1>4

\* A request is never submitted for a job whose artifact was accepted.
THEOREM AcceptedIsNeverResent == Spec => AcceptedNeverResent
  <1>1. IInv /\ [Next]_vars =>
           \A r \in DOMAIN sent \cap DOMAIN sent' : sent'[r] # sent[r] => r.batch \cap cache = {}
    BY OnlySubmissionsSend DEF IInv, CacheInv, At
  <1> QED BY <1>1, Invariance, PTL DEF Spec, AcceptedNeverResent

-----------------------------------------------------------------------------
(* Batches: Pack, Singletons, Halves and the queue made of them. *)

OneEach(jobs) == \A j, k \in jobs : j.unit = k.unit => j = k

\* The ranks of the jobs of a plan count them.
LEMMA RanksCount ==
    ASSUME NEW S, IsFiniteSet(S), S \subseteq Jobs, OneEach(S)
    PROVE  /\ Cardinality(S) \in Nat
           /\ \A j \in S : Rank(j, S) \in 1..Cardinality(S)
           /\ \A j, k \in S : Rank(j, S) = Rank(k, S) => j = k
           /\ \A n \in 1..Cardinality(S) : \E j \in S : Rank(j, S) = n
  <1> DEFINE Upto(j) == {k \in S : Order[k.unit] <= Order[j.unit]}
  <1>1. \A j \in S : Order[j.unit] \in Nat
    BY UnitsAssumption DEF Jobs
  <1>2. \A j, k \in S : Order[j.unit] = Order[k.unit] => j = k
    <2>1. \A j \in S : j.unit \in Scenes \cup Segments
      BY DEF Jobs
    <2> QED BY <2>1, UnitsAssumption DEF OneEach
  <1>3. ASSUME NEW j \in S
        PROVE  IsFiniteSet(Upto(j)) /\ Rank(j, S) = Cardinality(Upto(j))
               /\ Rank(j, S) \in 1..Cardinality(S)
    <2>1. Upto(j) \in SUBSET S /\ j \in Upto(j)
      BY <1>1
    <2>2. IsFiniteSet(Upto(j)) /\ Cardinality(Upto(j)) <= Cardinality(S)
      BY <2>1, FS_Subset
    <2>3. Cardinality(Upto(j)) \in Nat /\ Cardinality(S) \in Nat
      BY <2>2, FS_CardinalityType
    <2>4. Cardinality(Upto(j)) # 0
      BY <2>1, <2>2, FS_EmptySet
    <2>5. Rank(j, S) = Cardinality(Upto(j))
      BY DEF Rank
    <2> HIDE DEF Upto
    <2> QED BY <2>2, <2>3, <2>4, <2>5
  <1>4. ASSUME NEW j \in S, NEW k \in S, Order[j.unit] < Order[k.unit]
        PROVE  Rank(j, S) < Rank(k, S)
    <2>1. Upto(j) \in SUBSET Upto(k) /\ k \in Upto(k) /\ k \notin Upto(j)
      BY <1>1, <1>4
    <2>2. Cardinality(Upto(j)) <= Cardinality(Upto(k))
          /\ Cardinality(Upto(j)) # Cardinality(Upto(k))
      BY <1>3, <2>1, FS_Subset
    <2>3. Cardinality(Upto(j)) \in Nat /\ Cardinality(Upto(k)) \in Nat
      BY <1>3, FS_CardinalityType
    <2> HIDE DEF Upto
    <2> QED BY <1>3, <2>2, <2>3
  <1>5. \A j, k \in S : Rank(j, S) = Rank(k, S) => j = k
    <2> SUFFICES ASSUME NEW j \in S, NEW k \in S, Rank(j, S) = Rank(k, S), j # k PROVE FALSE
      OBVIOUS
    <2>1. Order[j.unit] < Order[k.unit] \/ Order[k.unit] < Order[j.unit]
      BY <1>1, <1>2
    <2>2. Rank(j, S) \in Int /\ Rank(k, S) \in Int
      <3>1. Cardinality(S) \in Nat
        BY FS_CardinalityType
      <3>2. Rank(j, S) \in 1..Cardinality(S)
        BY <1>3
      <3>3. Rank(k, S) \in 1..Cardinality(S)
        BY <1>3
      <3> QED BY <3>1, <3>2, <3>3
    <2>3. Rank(j, S) < Rank(k, S) \/ Rank(k, S) < Rank(j, S)
      BY <1>4, <2>1
    <2> QED BY <2>2, <2>3
  <1>6. Cardinality(S) \in Nat
    BY FS_CardinalityType
  <1>7. \A n \in 1..Cardinality(S) : \E j \in S : Rank(j, S) = n
    <2>1. PICK f : f = [j \in S |-> Rank(j, S)]
      OBVIOUS
    <2>2. f \in Injection(S, 1..Cardinality(S))
      <3>1. f \in [S -> 1..Cardinality(S)]
        BY <1>3, <2>1
      <3>2. \A j, k \in S : f[j] = f[k] => j = k
        BY <1>5, <2>1
      <3> QED BY <3>1, <3>2 DEF Injection, IsInjective
    <2>3. PICK T : T = 1..Cardinality(S)
      OBVIOUS
    <2>4. IsFiniteSet(T) /\ Cardinality(T) = Cardinality(S)
      BY <1>6, <2>3, FS_Interval
    <2>5. f \in Surjection(S, T)
      BY <2>2, <2>3, <2>4, FS_Injection
    <2> QED BY <2>1, <2>3, <2>5 DEF Surjection
  <1> QED BY <1>3, <1>5, <1>6, <1>7

\* A queue of batches of different jobs.
Batches(queue, jobs) ==
    /\ queue \in Seq((SUBSET jobs) \ {{}})
    /\ \A i, k \in DOMAIN queue : i # k => queue[i] \cap queue[k] = {}

LEMMA NoBatches == ASSUME NEW S PROVE Batches(<<>>, S)
  BY DEF Batches

LEMMA OneBatch == ASSUME NEW S, S # {} PROVE Batches(<<S>>, S)
  <1>1. S \in (SUBSET S) \ {{}}
    OBVIOUS
  <1>2. <<S>> \in Seq((SUBSET S) \ {{}}) /\ DOMAIN <<S>> = 1..1
    BY <1>1
  <1>3. \A i, k \in 1..1 : i = k
    OBVIOUS
  <1> QED BY <1>2, <1>3 DEF Batches

LEMMA BatchesWithin ==
    ASSUME NEW q, NEW S, NEW T, Batches(q, S), S \subseteq T
    PROVE  Batches(q, T)
  <1>1. \A i \in 1..Len(q) : q[i] \in (SUBSET T) \ {{}}
    BY DEF Batches
  <1>2. q \in Seq((SUBSET T) \ {{}})
    BY <1>1 DEF Batches
  <1> QED BY <1>2 DEF Batches

LEMMA JoinedBatches ==
    ASSUME NEW q, NEW r, NEW S, NEW T, NEW U, Batches(q, S), Batches(r, T), S \cap T = {},
           S \subseteq U, T \subseteq U
    PROVE  Batches(q \o r, U)
  <1>1. q \in Seq((SUBSET U) \ {{}}) /\ r \in Seq((SUBSET U) \ {{}})
    BY BatchesWithin DEF Batches
  <1>2. /\ q \o r \in Seq((SUBSET U) \ {{}}) /\ Len(q \o r) = Len(q) + Len(r)
        /\ DOMAIN (q \o r) = 1..(Len(q) + Len(r))
        /\ \A i \in 1..(Len(q) + Len(r)) :
              (q \o r)[i] = IF i <= Len(q) THEN q[i] ELSE r[i - Len(q)]
    BY <1>1
  <1>3. /\ Len(q) \in Nat /\ Len(r) \in Nat
        /\ \A i \in 1..Len(q) : q[i] \subseteq S
        /\ \A i \in 1..Len(r) : r[i] \subseteq T
        /\ \A i, k \in 1..Len(q) : i # k => q[i] \cap q[k] = {}
        /\ \A i, k \in 1..Len(r) : i # k => r[i] \cap r[k] = {}
    BY DEF Batches
  <1>4. ASSUME NEW i \in DOMAIN (q \o r), NEW k \in DOMAIN (q \o r), i # k
        PROVE  (q \o r)[i] \cap (q \o r)[k] = {}
    <2>1. CASE i <= Len(q) /\ k <= Len(q)
      BY <1>2, <1>3, <1>4, <2>1
    <2>2. CASE i <= Len(q) /\ ~(k <= Len(q))
      BY <1>2, <1>3, <1>4, <2>2
    <2>3. CASE ~(i <= Len(q)) /\ k <= Len(q)
      BY <1>2, <1>3, <1>4, <2>3
    <2>4. CASE ~(i <= Len(q)) /\ ~(k <= Len(q))
      <3>1. i - Len(q) \in 1..Len(r) /\ k - Len(q) \in 1..Len(r) /\ i - Len(q) # k - Len(q)
        BY <1>2, <1>3, <1>4, <2>4
      <3> QED BY <1>2, <1>3, <2>4, <3>1
    <2> QED BY <2>1, <2>2, <2>3, <2>4
  <1> QED BY <1>2, <1>4 DEF Batches

LEMMA RestOfBatches ==
    ASSUME NEW q, NEW S, Batches(q, S), q # <<>>
    PROVE  /\ Head(q) \subseteq S /\ Head(q) # {}
           /\ Batches(Tail(q), S \ Head(q))
  <1> DEFINE T == (SUBSET S) \ {{}}
             U == (SUBSET (S \ Head(q))) \ {{}}
  <1>1. q \in Seq(T) /\ \A i, k \in DOMAIN q : i # k => q[i] \cap q[k] = {}
    BY DEF Batches
  <1>2. /\ Len(q) \in Nat /\ Len(q) > 0 /\ DOMAIN q = 1..Len(q)
        /\ \A i \in 1..Len(q) : q[i] \in T
        /\ Head(q) = q[1]
        /\ Tail(q) \in Seq(T) /\ Len(Tail(q)) = Len(q) - 1
        /\ \A i \in 1..(Len(q) - 1) : Tail(q)[i] = q[i + 1]
    <2> HIDE DEF T
    <2>1. q \in Seq(T) /\ q # <<>>
      BY <1>1
    <2> QED BY <2>1
  <1>3. ASSUME NEW i \in 1..(Len(q) - 1) PROVE Tail(q)[i] \in U
    <2>1. i + 1 \in 1..Len(q) /\ 1 \in 1..Len(q) /\ i + 1 # 1
      BY <1>2
    <2>2. q[i + 1] \cap q[1] = {} /\ q[i + 1] \subseteq S /\ q[i + 1] # {}
      BY <1>1, <1>2, <2>1
    <2>3. Tail(q)[i] = q[i + 1] /\ Head(q) = q[1]
      <3> HIDE DEF T, U
      <3> QED BY <1>2
    <2>4. q[i + 1] \in U
      BY <2>2, <2>3
    <2> HIDE DEF T, U
    <2> QED BY <2>3, <2>4
  <1>4. Tail(q) \in Seq(U)
    <2>1. PICK t : t = Tail(q)
      OBVIOUS
    <2>2. t \in Seq(T)
      BY <1>2, <2>1
    <2>3. \A i \in 1..Len(t) : t[i] \in U
      BY <1>2, <1>3, <2>1
    <2>4. t \in Seq(U)
      <3> HIDE DEF T, U
      <3> QED BY <2>2, <2>3
    <2> QED BY <2>1, <2>4
  <1>5. ASSUME NEW i \in DOMAIN Tail(q), NEW k \in DOMAIN Tail(q), i # k
        PROVE  Tail(q)[i] \cap Tail(q)[k] = {}
    <2>0. DOMAIN Tail(q) = 1..(Len(q) - 1)
      <3> HIDE DEF T
      <3> QED BY <1>2
    <2>1. /\ i \in 1..(Len(q) - 1) /\ k \in 1..(Len(q) - 1)
          /\ i + 1 \in 1..Len(q) /\ k + 1 \in 1..Len(q) /\ i + 1 # k + 1
      BY <1>2, <1>5, <2>0
    <2>2. q[i + 1] \cap q[k + 1] = {}
      BY <1>1, <1>2, <2>1
    <2> QED BY <1>2, <2>1, <2>2
  <1>6. Head(q) \subseteq S /\ Head(q) # {}
    <2>1. q[1] \in T
      BY <1>2
    <2> QED BY <1>2, <2>1
  <1> QED BY <1>4, <1>5, <1>6 DEF Batches

\* A function on an interval whose values are disjoint, not empty and within S.
Spread(q, n, S) ==
    /\ n \in Nat /\ q = [i \in 1..n |-> q[i]]
    /\ \A i \in 1..n : q[i] \subseteq S /\ q[i] # {}
    /\ \A i, k \in 1..n : i < k => q[i] \cap q[k] = {}

LEMMA BatchesOf == ASSUME NEW S, NEW n, NEW q, Spread(q, n, S) PROVE Batches(q, S)
  <1> USE DEF Spread
  <1>1. DOMAIN q = 1..n
    OBVIOUS
  <1>2. \A i \in 1..n : q[i] \in (SUBSET S) \ {{}}
    OBVIOUS
  <1>3. PICK T : T = (SUBSET S) \ {{}}
    OBVIOUS
  <1>4. q \in [1..n -> T]
    BY <1>2, <1>3
  <1>5. q \in Seq(T)
    BY <1>4
  <1>6. \A i, k \in 1..n : i # k => q[i] \cap q[k] = {}
    <2> SUFFICES ASSUME NEW i \in 1..n, NEW k \in 1..n, i # k PROVE q[i] \cap q[k] = {}
      OBVIOUS
    <2>1. i < k \/ k < i
      OBVIOUS
    <2> QED BY <2>1
  <1> QED BY <1>1, <1>3, <1>5, <1>6 DEF Batches

LEMMA SingletonBatches ==
    ASSUME NEW S, IsFiniteSet(S), S \subseteq Jobs, OneEach(S)
    PROVE  Batches(Singletons(S), S)
  <1>1. PICK n : n = Cardinality(S)
    OBVIOUS
  <1>2. n \in Nat /\ \A i \in 1..n : \E j \in S : Rank(j, S) = i
    BY <1>1, RanksCount
  <1>3. PICK q : q = [i \in 1..n |-> {j \in S : Rank(j, S) = i}]
    OBVIOUS
  <1>4. \A i \in 1..n : q[i] = {j \in S : Rank(j, S) = i}
    BY <1>3
  <1>5. \A i \in 1..n : q[i] \subseteq S /\ q[i] # {}
    BY <1>2, <1>4
  <1>6. \A i, k \in 1..n : i < k => q[i] \cap q[k] = {}
    BY <1>2, <1>4
  <1>7. q = [i \in 1..n |-> q[i]]
    BY <1>3
  <1>8. Batches(q, S)
    <2>1. Spread(q, n, S)
      BY <1>2, <1>5, <1>6, <1>7 DEF Spread
    <2> QED BY <2>1, BatchesOf
  <1> QED BY <1>1, <1>3, <1>8 DEF Singletons

LEMMA HalfBatches ==
    ASSUME NEW S, IsFiniteSet(S), S \subseteq Jobs, OneEach(S), Cardinality(S) > 1,
           NEW half, half = {j \in S : Rank(j, S) <= Cardinality(S) \div 2}
    PROVE  Batches(<<half, S \ half>>, S)
  <1>1. PICK n : n = Cardinality(S)
    OBVIOUS
  <1>2. /\ n \in Nat /\ \A i \in 1..n : \E j \in S : Rank(j, S) = i
        /\ \A j \in S : Rank(j, S) \in 1..n
    BY <1>1, RanksCount
  <1>3. n > 1 /\ 1 <= n \div 2 /\ ~(n <= n \div 2) /\ 1 \in 1..n /\ n \in 1..n
    BY <1>1, <1>2
  <1>4. half # {}
    <2>1. PICK j \in S : Rank(j, S) = 1
      BY <1>2, <1>3
    <2> QED BY <1>1, <1>3, <2>1
  <1>5. S \ half # {}
    <2>1. PICK j \in S : Rank(j, S) = n
      BY <1>2, <1>3
    <2>2. j \notin half
      BY <1>1, <1>3, <2>1
    <2> QED BY <2>1, <2>2
  <1>6. PICK a, b : a = half /\ b = S \ half
    OBVIOUS
  <1>7. a \subseteq S /\ b \subseteq S /\ a # {} /\ b # {} /\ a \cap b = {} /\ b \cap a = {}
    BY <1>4, <1>5, <1>6
  <1>8. PICK q : q = <<a, b>>
    OBVIOUS
  <1>9. q[1] = a /\ q[2] = b /\ q = [i \in 1..2 |-> q[i]]
    BY <1>8
  <1>10. \A i \in 1..2 : i = 1 \/ i = 2
    OBVIOUS
  <1>11. \A i \in 1..2 : q[i] \subseteq S /\ q[i] # {}
    BY <1>7, <1>9, <1>10
  <1>12. \A i, k \in 1..2 : i < k => q[i] \cap q[k] = {}
    BY <1>7, <1>9, <1>10
  <1>13. Batches(q, S)
    <2>1. Spread(q, 2, S)
      BY <1>9, <1>11, <1>12 DEF Spread
    <2> QED BY <2>1, BatchesOf
  <1> QED BY <1>6, <1>8, <1>13

LEMMA PackBatches ==
    ASSUME NEW S, IsFiniteSet(S), S \subseteq Jobs, OneEach(S)
    PROVE  Batches(Pack(S), S)
  <1>1. PICK n, b : n = Cardinality(S) /\ b = BatchSize
    OBVIOUS
  <1>2. /\ n \in Nat /\ \A i \in 1..n : \E j \in S : Rank(j, S) = i
        /\ \A j \in S : Rank(j, S) \in Int
    <2>1. /\ n \in Nat /\ \A i \in 1..n : \E j \in S : Rank(j, S) = i
          /\ \A j \in S : Rank(j, S) \in 1..n
      BY <1>1, RanksCount
    <2> QED BY <2>1
  <1>3. b \in Nat /\ b > 0
    BY <1>1, PolicyAssumption
  <1>4. PICK m : m = (n + b - 1) \div b
    OBVIOUS
  <1>5. m \in Nat /\ m * b <= n + b - 1
    BY <1>2, <1>3, <1>4
  <1>6. PICK q : q = [k \in 1..m |-> {j \in S : Rank(j, S) \in (k - 1) * b + 1..k * b}]
    OBVIOUS
  <1>7. ASSUME NEW k \in 1..m PROVE q[k] \subseteq S /\ q[k] # {}
    <2>1. q[k] = {j \in S : Rank(j, S) \in (k - 1) * b + 1..k * b}
      BY <1>6
    <2>2. PICK low, high : low = (k - 1) * b + 1 /\ high = k * b
      OBVIOUS
    <2>3. low \in Int /\ high \in Int /\ low >= 1 /\ high = low + b - 1
      <3>1. k \in Int /\ k - 1 >= 0
        BY <1>5
      <3>2. (k - 1) * b >= 0 /\ (k - 1) * b \in Int
        BY <1>3, <3>1
      <3>3. k * b = (k - 1) * b + b
        BY <1>3, <3>1
      <3> QED BY <1>3, <2>2, <3>2, <3>3
    <2>4. high <= m * b
      <3>1. m - k >= 0 /\ m \in Int /\ k \in Int
        BY <1>5
      <3>2. (m - k) * b >= 0
        BY <1>3, <3>1
      <3>3. m * b = k * b + (m - k) * b
        BY <1>3, <3>1
      <3>4. m * b \in Int /\ k * b \in Int /\ (m - k) * b \in Int
        BY <1>3, <3>1
      <3> QED BY <2>2, <3>2, <3>3, <3>4
    <2>5. low <= n
      <3>1. m * b \in Int
        BY <1>3, <1>5
      <3> QED BY <1>2, <1>3, <1>5, <2>3, <2>4, <3>1
    <2>6. PICK j \in S : Rank(j, S) = low
      BY <1>2, <2>3, <2>5
    <2>7. low \in low..high
      BY <1>3, <2>3
    <2>8. j \in q[k]
      BY <2>1, <2>2, <2>6, <2>7
    <2> QED BY <2>1, <2>8
  <1>8. ASSUME NEW i \in 1..m, NEW k \in 1..m, i < k
        PROVE  q[i] \cap q[k] = {}
    <2>1. /\ q[i] = {j \in S : Rank(j, S) \in (i - 1) * b + 1..i * b}
          /\ q[k] = {j \in S : Rank(j, S) \in (k - 1) * b + 1..k * b}
      BY <1>6
    <2>2. PICK low, high, first, last :
             first = (i - 1) * b + 1 /\ low = (k - 1) * b + 1 /\ high = i * b /\ last = k * b
      OBVIOUS
    <2>3. high < low /\ high \in Int /\ low \in Int /\ first \in Int /\ last \in Int
      <3>1. k - 1 - i >= 0 /\ k \in Int /\ i \in Int
        BY <1>5, <1>8
      <3>2. (k - 1 - i) * b >= 0
        BY <1>3, <3>1
      <3>3. (k - 1) * b = i * b + (k - 1 - i) * b
        BY <1>3, <3>1
      <3>4. i * b \in Int /\ (k - 1) * b \in Int /\ (k - 1 - i) * b \in Int /\ (i - 1) * b \in Int
            /\ k * b \in Int
        BY <1>3, <3>1
      <3> QED BY <2>2, <3>2, <3>3, <3>4
    <2>4. q[i] = {j \in S : Rank(j, S) \in first..high} /\ q[k] = {j \in S : Rank(j, S) \in low..last}
      BY <2>1, <2>2
    <2>5. \A j \in S : Rank(j, S) \in first..high => ~(Rank(j, S) \in low..last)
      BY <1>2, <2>3
    <2> QED BY <2>4, <2>5
  <1>9. q = [i \in 1..m |-> q[i]]
    BY <1>6
  <1>10. Batches(q, S)
    <2>1. Spread(q, m, S)
      BY <1>5, <1>7, <1>8, <1>9 DEF Spread
    <2> QED BY <2>1, BatchesOf
  <1>11. q = Pack(S)
    BY <1>1, <1>4, <1>6 DEF Pack
  <1> QED BY <1>10, <1>11

LEMMA FiniteJobs == ASSUME NEW S, S \subseteq Jobs, OneEach(S) PROVE IsFiniteSet(S)
  <1>1. PICK f : f = [j \in S |-> j.unit]
    OBVIOUS
  <1>2. PICK U : U = Scenes \cup Segments
    OBVIOUS
  <1>3. IsFiniteSet(U)
    BY <1>2, UnitsAssumption, FS_Union
  <1>4. \A j \in S : j.unit \in U
    BY <1>2 DEF Jobs
  <1>5. f \in Injection(S, U)
    <2>1. f \in [S -> U]
      BY <1>1, <1>4
    <2>2. \A j, k \in S : f[j] = f[k] => j = k
      BY <1>1 DEF OneEach
    <2> QED BY <2>1, <2>2 DEF Injection, IsInjective
  <1> QED BY <1>3, <1>5, FS_Injection

LEMMA PlansHaveOneEach ==
    /\ OneEach({}) /\ OneEach(ScenePlan) /\ \A parts : OneEach(SegmentPlan(parts))
  BY DEF OneEach, ScenePlan, SegmentPlan, Job

-----------------------------------------------------------------------------
(* What the thread remembers after each step. *)

LEMMA ReserveFields ==
    ASSUME IInv, Reserve, NEW batch, batch = Head(thread.queue), Active(batch) = batch,
           NEW r, r = NextCall
    PROVE  /\ thread'.pc = "submit" /\ thread'.plan = thread.plan /\ thread'.call = r
           /\ thread'.history = thread.history /\ thread'.queue = Tail(thread.queue)
           /\ thread'.used = thread.used + 1
           /\ r.plan = thread.plan /\ r.batch = batch
           /\ r.numbers = [j \in batch |-> thread.history[j].tried + 1]
           /\ ReserveCall(r)
           /\ sent' = [x \in DOMAIN calls' |-> IF x \in DOMAIN calls THEN sent[x] ELSE 0]
  <1>1. DOMAIN thread = Fields
    BY DEF IInv, ThreadInv
  <1>2. thread' = [thread EXCEPT !.pc = "submit", !.queue = Tail(@), !.call = r,
                             !.used = @ + 1,
                             !.record = [j \in DOMAIN @ |->
                                            IF j \in batch THEN "running" ELSE @[j]]]
    BY DEF Reserve
  <1>3. r = Reservation(thread.plan, batch, [j \in batch |-> thread.history[j].tried + 1],
                        thread.prior + thread.used + 1)
    BY DEF NextCall
  <1>4. /\ thread'.pc = "submit" /\ thread'.plan = thread.plan /\ thread'.call = r
        /\ thread'.history = thread.history /\ thread'.queue = Tail(thread.queue)
        /\ thread'.used = thread.used + 1
    BY <1>1, <1>2 DEF Fields
  <1>5. /\ r.plan = thread.plan /\ r.batch = batch
        /\ r.numbers = [j \in batch |-> thread.history[j].tried + 1]
    BY <1>3 DEF Reservation
  <1>6. /\ ReserveCall(r)
        /\ sent' = [x \in DOMAIN calls' |-> IF x \in DOMAIN calls THEN sent[x] ELSE 0]
    BY DEF Reserve
  <1> QED BY <1>4, <1>5, <1>6

LEMMA RegroupFields ==
    ASSUME IInv, Reserve, NEW batch, batch = Head(thread.queue), Active(batch) # batch
    PROVE  /\ thread'.pc = "loop" /\ thread'.plan = thread.plan
           /\ thread'.history = thread.history /\ thread'.used = thread.used
           /\ thread'.queue = Singletons(Active(batch)) \o Tail(thread.queue)
           /\ UNCHANGED <<calls, attempts, sent>>
  <1>1. DOMAIN thread = Fields /\ thread.pc = "loop"
    BY DEF IInv, ThreadInv, Reserve, At
  <1>2. thread' = [thread EXCEPT !.queue = Singletons(Active(batch)) \o Tail(@)]
        /\ UNCHANGED <<storeVars, sent>>
    BY DEF Reserve
  <1> QED BY <1>1, <1>2 DEF Fields, storeVars

LEMMA AnsweredFields ==
    ASSUME IInv, NEW pc, NEW kind, NEW left, Answered(pc, kind, left)
    PROVE  /\ thread'.pc = pc /\ thread'.plan = thread.plan /\ thread'.call = thread.call
           /\ thread'.history = thread.history /\ thread'.queue = thread.queue
           /\ thread'.todo = thread.call.batch /\ thread'.again = {}
           /\ thread'.used = IF left THEN thread.used ELSE thread.used - 1
           /\ thread'.reply = [kind |-> kind, left |-> left]
  <1>1. DOMAIN thread = Fields
    BY DEF IInv, ThreadInv
  <1>2. thread' = [thread EXCEPT !.pc = pc, !.reply = [kind |-> kind, left |-> left],
                             !.todo = thread.call.batch, !.again = {},
                             !.used = IF left THEN @ ELSE @ - 1]
    BY DEF Answered
  <1> QED BY <1>1, <1>2 DEF Fields

LEMMA FinalizeFields ==
    ASSUME IInv, NEW kind, Finalize(kind)
    PROVE  /\ thread'.pc = "record" /\ thread'.plan = thread.plan /\ thread'.call = thread.call
           /\ thread'.history = thread.history /\ thread'.queue = thread.queue
           /\ thread'.todo = thread.todo /\ thread'.again = thread.again
           /\ thread'.used = thread.used /\ thread'.reply.left = thread.reply.left
  <1>1. DOMAIN thread = Fields /\ DOMAIN thread.reply = {"kind", "left"}
    BY DEF IInv, ThreadInv
  <1>2. PICK k : thread' = [thread EXCEPT !.pc = "record", !.reply.kind = k]
    BY DEF Finalize
  <1> QED BY <1>1, <1>2 DEF Fields

\* The attempt of one job is taken note of.
Logged(job, outcome, retry) ==
    /\ thread'.pc = IF thread.todo \ {job} = {} THEN "settle" ELSE "record"
    /\ thread'.plan = thread.plan /\ thread'.call = thread.call
    /\ thread'.queue = thread.queue /\ thread'.used = thread.used
    /\ thread'.history = [thread.history EXCEPT ![job] = Tried(thread.history[job], outcome)]
    /\ thread'.todo = thread.todo \ {job}
    /\ thread'.again = IF retry THEN thread.again \cup {job} ELSE thread.again
    /\ thread'.reply.left = thread.reply.left
    /\ thread'.reply.kind \in {thread.reply.kind, "withdrawn"}

LEMMA RecordedFields ==
    ASSUME IInv, NEW job, NEW outcome, NEW state, NEW retry,
           NEW t, t = Recorded(job, outcome, state, retry),
           thread.pc \in Working,
           \/ thread' = t
           \/ \E k : thread' = [t EXCEPT !.reply.kind = k] /\ k \in {thread.reply.kind, "withdrawn"}
    PROVE  Logged(job, outcome, retry)
  <1>1. /\ DOMAIN thread = Fields /\ DOMAIN thread.reply = {"kind", "left"}
        /\ DOMAIN thread.history = thread.plan
    BY DEF IInv, ThreadInv
  <1>2. PICK rest, pc, again :
           /\ rest = thread.todo \ {job} /\ pc = IF rest = {} THEN "settle" ELSE "record"
           /\ again = IF retry THEN thread.again \cup {job} ELSE thread.again
    OBVIOUS
  <1>3. PICK h, x : /\ h = [thread.history EXCEPT ![job] = Tried(thread.history[job], outcome)]
                    /\ x = [thread.record EXCEPT ![job] = state]
    OBVIOUS
  <1>4. t = [thread EXCEPT !.todo = rest, !.pc = pc, !.history = h, !.record = x,
                           !.again = again]
    <2>1. t = [thread EXCEPT !.todo = rest, !.pc = pc,
                           !.history[job] = Tried(thread.history[job], outcome),
                           !.record[job] = state, !.again = again]
      BY <1>2 DEF Recorded
    <2>2. PICK u : u = [thread EXCEPT !.todo = rest, !.pc = pc]
      OBVIOUS
    <2>3. u.history = thread.history /\ u.record = thread.record /\ DOMAIN u = Fields
      BY <1>1, <2>2 DEF Fields
    <2> QED BY <1>1, <1>3, <2>1, <2>2, <2>3 DEF Fields
  <1>5. /\ t.pc = pc /\ t.plan = thread.plan /\ t.call = thread.call /\ t.queue = thread.queue
        /\ t.used = thread.used /\ t.history = h /\ t.todo = rest /\ t.again = again
        /\ t.reply = thread.reply /\ DOMAIN t = Fields
    BY <1>1, <1>4 DEF Fields
  <1>6. CASE thread' = t
    BY <1>2, <1>3, <1>5, <1>6 DEF Logged
  <1>7. CASE \E k : thread' = [t EXCEPT !.reply.kind = k] /\ k \in {thread.reply.kind, "withdrawn"}
    <2>1. PICK k : thread' = [t EXCEPT !.reply.kind = k] /\ k \in {thread.reply.kind, "withdrawn"}
      BY <1>7
    <2>2. /\ thread'.pc = t.pc /\ thread'.plan = t.plan /\ thread'.call = t.call
          /\ thread'.queue = t.queue /\ thread'.used = t.used /\ thread'.history = t.history
          /\ thread'.todo = t.todo /\ thread'.again = t.again
      BY <1>5, <2>1 DEF Fields
    <2>3. thread'.reply = [thread.reply EXCEPT !.kind = k]
      BY <1>5, <2>1 DEF Fields
    <2>4. thread'.reply.left = thread.reply.left /\ thread'.reply.kind = k
      BY <1>1, <2>3
    <2> QED BY <1>2, <1>3, <1>5, <2>1, <2>2, <2>4 DEF Logged
  <1> QED BY <1>6, <1>7

\* An attempt is recorded and taken note of; the job is tried again only below its limits.
Records(job, outcome, left) ==
    /\ At("record") /\ job \in thread.todo
    /\ \E retry \in BOOLEAN :
          /\ Logged(job, outcome, retry)
          /\ retry => Tried(thread.history[job], outcome).tried < MaxAttempts
    /\ \E a : /\ a = Attempt(job, thread.call, outcome, left)
              /\ \/ attempts' = {b \in attempts : ~SameAttempt(a, b)} \cup {a}
                 \/ attempts' = attempts \cup {a}
    /\ UNCHANGED <<calls, sent>>

LEMMA FailureRecords ==
    ASSUME IInv, At("record"), NEW job, Current(job), NEW kind, RecordFailure(job, kind)
    PROVE  \E outcome \in Outcomes : Records(job, outcome, thread.reply.left)
  <1>1. PICK outcome : outcome = OutcomeOf(kind)
    OBVIOUS
  <1>2. outcome \in Outcomes
    BY <1>1, OutcomesOf
  <1>3. PICK retry : retry = Eligible(kind, Tried(thread.history[job], outcome))
    OBVIOUS
  <1>4. retry \in BOOLEAN /\ (retry => Tried(thread.history[job], outcome).tried < MaxAttempts)
    BY <1>3 DEF Eligible
  <1>5. PICK state : thread' = [Recorded(job, outcome, state, retry)
                        EXCEPT !.reply.kind = IF kind = "withdrawn" THEN kind ELSE @]
    BY <1>1, <1>3 DEF RecordFailure
  <1>6. PICK t : t = Recorded(job, outcome, state, retry)
    OBVIOUS
  <1>7. t.reply = thread.reply /\ DOMAIN t = Fields
    BY <1>6 DEF Recorded, Fields, IInv, ThreadInv
  <1>8. PICK k : k = IF kind = "withdrawn" THEN kind ELSE thread.reply.kind
    OBVIOUS
  <1>9. k \in {thread.reply.kind, "withdrawn"}
    BY <1>8
  <1>10. thread' = [t EXCEPT !.reply.kind = k]
    BY <1>5, <1>6, <1>7, <1>8
  <1>11. Logged(job, outcome, retry)
    BY <1>6, <1>9, <1>10, RecordedFields DEF At, Working, InCall
  <1>12. PICK a : a = Attempt(job, thread.call, outcome, thread.reply.left)
    OBVIOUS
  <1>13. /\ attempts' = {b \in attempts : ~SameAttempt(a, b)} \cup {a}
         /\ UNCHANGED <<calls, sent>>
    BY <1>1, <1>12 DEF RecordFailure, RecordAttempt
  <1>14. job \in thread.todo
    BY DEF Current
  <1> QED BY <1>2, <1>4, <1>11, <1>12, <1>13, <1>14 DEF Records

LEMMA AcceptRecords ==
    ASSUME IInv, NEW job \in thread.todo, Accept(job)
    PROVE  Records(job, "accepted", TRUE)
  <1>1. PICK t, retry, state : /\ retry = FALSE /\ state = "succeeded"
                               /\ t = Recorded(job, "accepted", state, retry)
    OBVIOUS
  <1>2. thread' = t /\ At("record")
    BY <1>1 DEF Accept
  <1>3. Logged(job, "accepted", retry)
    BY <1>1, <1>2, RecordedFields DEF At, Working, InCall
  <1>4. PICK a : a = Attempt(job, thread.call, "accepted", TRUE)
    OBVIOUS
  <1>5. attempts' = attempts \cup {a} /\ UNCHANGED <<calls, sent>>
    BY <1>4 DEF Accept, Publish
  <1>6. retry \in BOOLEAN /\ ~retry
    BY <1>1
  <1> QED BY <1>2, <1>3, <1>4, <1>5, <1>6 DEF Records

LEMMA SettledFields ==
    ASSUME IInv, Settle, Stopping = "none"
    PROVE  /\ thread'.pc = "loop" /\ thread'.plan = thread.plan
           /\ thread'.history = thread.history /\ thread'.used = thread.used
           /\ thread'.queue = Retries \o thread.queue
  <1>1. DOMAIN thread = Fields
    BY DEF IInv, ThreadInv
  <1>2. thread' = [thread EXCEPT !.pc = "loop", !.queue = Retries \o @, !.call = NoCall,
                                     !.reply = NoReply, !.again = {}]
    BY DEF Settle
  <1> QED BY <1>1, <1>2 DEF Fields

\* The steps after which no phase is at work: the plan stays or is one of a new phase.
Leaves ==
    /\ thread'.pc \notin Working
    /\ \/ thread'.plan \in {thread.plan, {}, ScenePlan}
       \/ \E parts : thread'.plan = SegmentPlan(parts)

LEMMA FinishedLeaves ==
    ASSUME NEW t, NEW outcome, NEW record, DOMAIN t = Fields, t.plan = thread.plan,
           thread' = Finished(t, outcome, record)
    PROVE  Leaves
  <1>1. thread'.pc = "finish" /\ thread'.plan = t.plan
    BY DEF Finished, Fields
  <1> QED BY <1>1 DEF Leaves, Working, InCall

LEMMA RaiseLeaves == ASSUME Raise PROVE Leaves
  BY DEF Raise, Resting, Leaves, Working, InCall

LEMMA StopLeaves == ASSUME IInv, NEW outcome, NEW mark, Stop(outcome, mark) PROVE Leaves
  <1>1. PICK t : t = thread
    OBVIOUS
  <1>2. \E record : thread' = Finished(t, outcome, record)
    BY <1>1 DEF Stop
  <1> QED BY <1>1, <1>2, FinishedLeaves DEF IInv, ThreadInv

LEMMA StepLeaves ==
    ASSUME IInv, Start \/ Crash \/ StopCancelled \/ Drained \/ StopAtLimit \/ Interrupt
                 \/ (\E job \in thread.todo : RollBack(job)) \/ FinishPhase \/ Aggregate \/ Persist
    PROVE  Leaves
  <1>1. CASE Start
    BY <1>1 DEF Start, Resting, Leaves, Working, InCall
  <1>2. CASE Crash \/ Interrupt \/ (\E job \in thread.todo : RollBack(job))
    BY <1>2, RaiseLeaves DEF Crash, Interrupt, RollBack
  <1>3. CASE StopCancelled \/ StopAtLimit
    BY <1>3, StopLeaves DEF StopCancelled, StopAtLimit
  <1>4. CASE Drained
    <2>1. PICK t : t = thread
      OBVIOUS
    <2>2. thread' = Finished(t, Derived(t.record), t.record)
      BY <1>4, <2>1 DEF Drained
    <2> QED BY <2>1, <2>2, FinishedLeaves DEF IInv, ThreadInv
  <1>5. CASE FinishPhase
    <2>1. CASE \E ends : thread' = [Resting EXCEPT !.pc = "aggregate", !.ends = ends]
      BY <2>1 DEF Resting, Leaves, Working, InCall
    <2>2. CASE \E ends : thread' = [Resting EXCEPT !.pc = "resume", !.segments = TRUE, !.ends = ends,
                                         !.plan = SegmentPlan(AcceptedParts),
                                         !.prior = thread.prior + thread.used]
      <3>1. thread'.pc = "resume" /\ thread'.plan = SegmentPlan(AcceptedParts)
        BY <2>2 DEF Resting
      <3> QED BY <3>1 DEF Leaves, Working, InCall
    <2> QED BY <1>5, <2>1, <2>2 DEF FinishPhase
  <1>6. CASE Aggregate
    <2>1. thread' = [thread EXCEPT !.pc = "persist", !.outcome = PipelineState]
      BY <1>6 DEF Aggregate
    <2>2. thread'.pc = "persist" /\ thread'.plan = thread.plan
      BY <2>1 DEF IInv, ThreadInv, Fields
    <2> QED BY <2>2 DEF Leaves, Working, InCall
  <1>7. CASE Persist
    BY <1>7 DEF Persist, Resting, Leaves, Working, InCall
  <1> QED BY <1>1, <1>2, <1>3, <1>4, <1>5, <1>6, <1>7

LEMMA ResumeFields ==
    ASSUME IInv, Resume
    PROVE  \/ Leaves
           \/ /\ thread'.pc = "loop" /\ thread'.plan = thread.plan
              /\ thread'.used = Charged(thread.plan)
              /\ thread'.history = [j \in thread.plan |-> HistoryOf(j, thread.plan)]
              /\ \E open \in SUBSET thread.plan :
                    /\ \A j \in open : ~CeilingReached(thread'.history[j])
                    /\ thread'.queue = Pack(open)
  <1>1. DOMAIN thread = Fields
    BY DEF IInv, ThreadInv
  <1>2. PICK h : h = [j \in thread.plan |-> HistoryOf(j, thread.plan)]
    OBVIOUS
  <1>3. PICK record : record = [j \in thread.plan |->
                                   IF Cached(j) THEN "succeeded"
                                   ELSE IF CeilingReached(h[j]) THEN "failed" ELSE "queued"]
    OBVIOUS
  <1>4. PICK t : t = [thread EXCEPT !.used = Charged(thread.plan), !.history = h]
    OBVIOUS
  <1>5. DOMAIN t = Fields /\ t.plan = thread.plan /\ t.used = Charged(thread.plan) /\ t.history = h
    BY <1>1, <1>4 DEF Fields
  <1>6. PICK open : open = {j \in thread.plan : record[j] = "queued"}
    OBVIOUS
  <1>7. \/ \E outcome, x : thread' = Finished(t, outcome, x)
        \/ Raise
        \/ thread' = [t EXCEPT !.pc = "loop", !.record = record, !.queue = Pack(open)]
    <2> DEFINE H == [j \in thread.plan |-> HistoryOf(j, thread.plan)]
               R == [j \in thread.plan |->
                        IF Cached(j) THEN "succeeded"
                        ELSE IF CeilingReached(H[j]) THEN "failed" ELSE "queued"]
               T == [thread EXCEPT !.used = Charged(thread.plan), !.history = H]
               O == {j \in thread.plan : R[j] = "queued"}
    <2>1. \/ thread' = Finished(T, "cancelled", [j \in thread.plan |-> "cancelled"])
          \/ Raise
          \/ thread' = Finished(T, Derived(R), R)
          \/ thread' = [T EXCEPT !.pc = "loop", !.record = R, !.queue = Pack(O)]
          \/ thread' = Finished(T, "failed",
                         [j \in thread.plan |-> IF R[j] = "queued" THEN "refused" ELSE R[j]])
      BY DEF Resume
    <2>2. h = H /\ record = R /\ t = T /\ open = O
      BY <1>2, <1>3, <1>4, <1>6
    <2> HIDE DEF H, R, T, O
    <2> QED BY <2>1, <2>2
  <1>8. CASE \E outcome, x : thread' = Finished(t, outcome, x)
    BY <1>5, <1>8, FinishedLeaves
  <1>9. CASE Raise
    BY <1>9, RaiseLeaves
  <1>10. CASE thread' = [t EXCEPT !.pc = "loop", !.record = record, !.queue = Pack(open)]
    <2>1. /\ thread'.pc = "loop" /\ thread'.plan = t.plan /\ thread'.used = t.used
          /\ thread'.history = t.history /\ thread'.queue = Pack(open)
      BY <1>5, <1>10 DEF Fields
    <2>2. open \in SUBSET thread.plan /\ \A j \in open : ~CeilingReached(h[j])
      BY <1>3, <1>6
    <2> QED BY <1>2, <1>5, <2>1, <2>2
  <1> QED BY <1>7, <1>8, <1>9, <1>10

-----------------------------------------------------------------------------
(* The queue. *)

\* The jobs that may be tried once more.
Untired == {j \in thread.plan : thread.history[j].tried < MaxAttempts}

\* The queue holds batches of different jobs that may be tried once more.  A call in progress has
\* taken its batch from them, and what it leaves to be tried again is of that batch.
QueueInv ==
    /\ OneEach(thread.plan)
    /\ At("loop") => Batches(thread.queue, Untired)
    /\ thread.pc \in InCall =>
          /\ thread.call.batch # {}
          /\ Batches(thread.queue, Untired \ thread.call.batch)
    /\ thread.pc \in {"finalize", "record", "settle"} =>
          thread.again \subseteq Untired \cap thread.call.batch
    /\ thread.pc \in {"finalize", "record"} => thread.again \cap thread.todo = {}

LEMMA QueueLeaves == ASSUME QueueInv, Leaves PROVE QueueInv'
  <1>1. OneEach(thread.plan)'
    BY PlansHaveOneEach DEF QueueInv, Leaves, OneEach
  <1> QED BY <1>1 DEF QueueInv, Leaves, At, InCall, Working

LEMMA QueueResume == ASSUME IInv, QueueInv, Resume PROVE QueueInv'
  <1>1. CASE Leaves
    BY <1>1, QueueLeaves
  <1>2. ASSUME thread'.pc = "loop", thread'.plan = thread.plan,
               thread'.history = [j \in thread.plan |-> HistoryOf(j, thread.plan)],
               NEW open \in SUBSET thread.plan,
               \A j \in open : ~CeilingReached(thread'.history[j]),
               thread'.queue = Pack(open)
        PROVE  QueueInv'
    <2>1. PICK p : p = thread.plan
      OBVIOUS
    <2>2. p \subseteq Jobs /\ OneEach(p)
      BY <2>1 DEF IInv, ThreadInv, QueueInv
    <2>3. open \subseteq Jobs /\ OneEach(open)
      BY <2>1, <2>2 DEF OneEach
    <2>4. Batches(Pack(open), open)
      BY <2>3, FiniteJobs, PackBatches
    <2>5. open \subseteq Untired'
      <3> SUFFICES ASSUME NEW j \in open PROVE j \in p /\ thread'.history[j].tried < MaxAttempts
        BY <1>2, <2>1 DEF Untired
      <3>1. thread'.history[j].tried \in Nat
        BY <1>2, TriedCounts DEF IInv
      <3> QED BY <1>2, <2>1, <3>1, PolicyAssumption DEF CeilingReached
    <2>6. Batches(thread.queue, Untired)'
      BY <1>2, <2>4, <2>5, BatchesWithin
    <2>7. OneEach(thread.plan)'
      BY <1>2, <2>1, <2>2
    <2> QED BY <1>2, <2>6, <2>7 DEF QueueInv, At, InCall
  <1> QED BY <1>1, <1>2, ResumeFields

LEMMA QueueReserve == ASSUME IInv, QueueInv, Reserve PROVE QueueInv'
  <1>1. PICK batch : batch = Head(thread.queue)
    OBVIOUS
  <1>2. /\ OneEach(thread.plan) /\ thread.plan \subseteq Jobs
        /\ Batches(thread.queue, Untired) /\ thread.queue # <<>>
    BY DEF Reserve, At, QueueInv, IInv, ThreadInv
  <1>3. /\ batch \subseteq Untired /\ batch # {}
        /\ Batches(Tail(thread.queue), Untired \ batch)
    BY <1>1, <1>2, RestOfBatches
  <1>4. CASE Active(batch) = batch
    <2>1. PICK r : r = NextCall
      OBVIOUS
    <2>2. /\ thread'.pc = "submit" /\ thread'.plan = thread.plan /\ thread'.call = r
          /\ thread'.history = thread.history /\ thread'.queue = Tail(thread.queue)
          /\ r.batch = batch
      BY <1>1, <1>4, <2>1, ReserveFields
    <2>3. Untired' = Untired
      BY <2>2 DEF Untired
    <2>4. OneEach(thread.plan)'
      BY <1>2, <2>2
    <2>5. thread'.call.batch = batch
      BY <2>2
    <2>6. Batches(thread'.queue, Untired' \ thread'.call.batch)
      BY <1>3, <2>2, <2>3, <2>5
    <2> QED BY <1>3, <2>2, <2>4, <2>5, <2>6 DEF QueueInv, At, InCall
  <1>5. CASE Active(batch) # batch
    <2>1. /\ thread'.pc = "loop" /\ thread'.plan = thread.plan
          /\ thread'.history = thread.history
          /\ thread'.queue = Singletons(Active(batch)) \o Tail(thread.queue)
      BY <1>1, <1>5, RegroupFields
    <2>2. PICK S : S = Active(batch)
      OBVIOUS
    <2>3. S \subseteq batch /\ S \subseteq thread.plan
      BY <2>2 DEF Active
    <2>4. Batches(Singletons(S), S)
      <3>1. S \subseteq Jobs /\ OneEach(S)
        BY <1>2, <2>3 DEF OneEach
      <3> QED BY <3>1, FiniteJobs, SingletonBatches
    <2>5. Batches(Singletons(S) \o Tail(thread.queue), Untired)
      <3>1. S \cap (Untired \ batch) = {} /\ S \subseteq Untired /\ Untired \ batch \subseteq Untired
        BY <1>3, <2>3
      <3> QED BY <1>3, <2>4, <3>1, JoinedBatches
    <2>6. Untired' = Untired
      BY <2>1 DEF Untired
    <2>7. Batches(thread.queue, Untired)'
      BY <2>1, <2>2, <2>5, <2>6
    <2>8. OneEach(thread.plan)'
      BY <1>2, <2>1
    <2> QED BY <2>1, <2>7, <2>8 DEF QueueInv, At, InCall
  <1> QED BY <1>4, <1>5

LEMMA QueueAnswered ==
    ASSUME IInv, QueueInv, At("submit"), NEW pc \in {"record", "finalize"}, NEW kind, NEW left,
           Answered(pc, kind, left)
    PROVE  QueueInv'
  <1>1. /\ thread'.pc = pc /\ thread'.plan = thread.plan /\ thread'.call = thread.call
        /\ thread'.history = thread.history /\ thread'.queue = thread.queue
        /\ thread'.again = {}
    BY AnsweredFields
  <1>2. Untired' = Untired
    BY <1>1 DEF Untired
  <1>3. /\ OneEach(thread.plan) /\ thread.call.batch # {}
        /\ Batches(thread.queue, Untired \ thread.call.batch)
    BY DEF QueueInv, At, InCall
  <1>4. OneEach(thread.plan)'
    BY <1>1, <1>3
  <1>5. Batches(thread.queue, Untired \ thread.call.batch)'
    BY <1>1, <1>2, <1>3
  <1> QED BY <1>1, <1>3, <1>4, <1>5 DEF QueueInv, At, InCall

LEMMA QueueFinalize ==
    ASSUME IInv, QueueInv, NEW kind, Finalize(kind)
    PROVE  QueueInv'
  <1>1. /\ thread'.pc = "record" /\ thread'.plan = thread.plan /\ thread'.call = thread.call
        /\ thread'.history = thread.history /\ thread'.queue = thread.queue
        /\ thread'.todo = thread.todo /\ thread'.again = thread.again
    BY FinalizeFields
  <1>2. Untired' = Untired
    BY <1>1 DEF Untired
  <1>3. /\ OneEach(thread.plan) /\ thread.call.batch # {}
        /\ Batches(thread.queue, Untired \ thread.call.batch)
        /\ thread.again \subseteq Untired \cap thread.call.batch
        /\ thread.again \cap thread.todo = {}
    BY DEF Finalize, QueueInv, At, InCall
  <1>4. OneEach(thread.plan)'
    BY <1>1, <1>3
  <1>5. Batches(thread.queue, Untired \ thread.call.batch)'
    BY <1>1, <1>2, <1>3
  <1> QED BY <1>1, <1>2, <1>3, <1>4, <1>5 DEF QueueInv, At, InCall

LEMMA QueueRecords ==
    ASSUME IInv, QueueInv, NEW job, NEW outcome, NEW left, Records(job, outcome, left)
    PROVE  QueueInv'
  <1>1. PICK retry \in BOOLEAN : /\ Logged(job, outcome, retry)
                                 /\ retry => Tried(thread.history[job], outcome).tried < MaxAttempts
    BY DEF Records
  <1>2. PICK p, c : p = thread.plan /\ c = thread.call
    OBVIOUS
  <1>3. /\ OneEach(p) /\ c.batch # {} /\ Batches(thread.queue, Untired \ c.batch)
        /\ thread.again \subseteq Untired \cap c.batch /\ thread.again \cap thread.todo = {}
        /\ thread.pc \in InCall
    BY <1>2 DEF Records, QueueInv, At, InCall
  <1>4. /\ job \in thread.todo /\ thread.todo \subseteq c.batch /\ c.batch \subseteq p
        /\ DOMAIN thread.history = p
    <2>1. job \in thread.todo /\ thread.todo \subseteq c.batch
      BY <1>2 DEF Records, At, IInv, ThreadInv
    <2> QED BY <1>2, <1>3, <2>1, CallFacts
  <1>5. /\ thread'.pc \in {"record", "settle"}
        /\ thread'.plan = p /\ thread'.call = c /\ thread'.queue = thread.queue
        /\ thread'.history = [thread.history EXCEPT ![job] = Tried(thread.history[job], outcome)]
        /\ thread'.todo = thread.todo \ {job}
        /\ thread'.again = IF retry THEN thread.again \cup {job} ELSE thread.again
    BY <1>1, <1>2 DEF Logged
  <1>6. \A j \in p : j # job => (j \in Untired' <=> j \in Untired)
    BY <1>2, <1>4, <1>5 DEF Untired
  <1>7. Untired' \ c.batch = Untired \ c.batch
    BY <1>2, <1>4, <1>5, <1>6 DEF Untired
  <1>8. retry => job \in Untired'
    <2>1. thread'.history[job] = Tried(thread.history[job], outcome)
      BY <1>4, <1>5
    <2> QED BY <1>1, <1>4, <1>5, <2>1 DEF Untired
  <1>9. thread'.again \subseteq Untired' \cap c.batch
    <2>1. ASSUME NEW j \in thread.again PROVE j \in Untired' /\ j \in c.batch
      <3>1. j # job /\ j \in p /\ j \in Untired
        BY <1>3, <1>4
      <3> QED BY <1>3, <1>6, <3>1
    <2>2. CASE retry
      BY <1>4, <1>5, <1>8, <2>1, <2>2
    <2>3. CASE ~retry
      BY <1>5, <2>1, <2>3
    <2> QED BY <2>2, <2>3
  <1>10. thread'.again \cap thread'.todo = {}
    BY <1>3, <1>5
  <1>11. OneEach(thread.plan)'
    BY <1>3, <1>5
  <1>12. Batches(thread.queue, Untired \ thread.call.batch)'
    BY <1>3, <1>5, <1>7
  <1> QED BY <1>3, <1>5, <1>9, <1>10, <1>11, <1>12 DEF QueueInv, At

LEMMA RetriesAreBatches ==
    ASSUME IInv, QueueInv, At("settle")
    PROVE  Batches(Retries, thread.again)
  <1>1. PICK S, again : S = thread.call.batch /\ again = thread.again
    OBVIOUS
  <1>2. /\ OneEach(thread.plan) /\ thread.plan \subseteq Jobs /\ S # {} /\ again \subseteq S
        /\ S \subseteq thread.plan
    <2>1. thread.pc \in InCall
      BY DEF At, InCall
    <2>2. S \subseteq thread.plan
      BY <1>1, <2>1, CallFacts
    <2> QED BY <1>1, <2>1, <2>2 DEF QueueInv, At, IInv, ThreadInv
  <1>3. /\ S \subseteq Jobs /\ OneEach(S) /\ again \subseteq Jobs /\ OneEach(again)
    BY <1>2 DEF OneEach
  <1>4. Batches(Singletons(again), again)
    BY <1>3, FiniteJobs, SingletonBatches
  <1>5. CASE again = {}
    BY <1>1, <1>5, NoBatches DEF Retries
  <1>6. CASE again # {} /\ again = S /\ Retries = <<S>>
    BY <1>1, <1>2, <1>6, OneBatch
  <1>7. CASE again = S /\ Cardinality(S) > 1 /\ Retries = Halves
    <2>1. PICK half : half = {j \in S : Rank(j, S) <= Cardinality(S) \div 2}
      OBVIOUS
    <2>2. Batches(<<half, S \ half>>, S)
      BY <1>3, <1>7, <2>1, FiniteJobs, HalfBatches
    <2>3. Halves = <<half, S \ half>>
      BY <1>1, <2>1 DEF Halves, Batch
    <2> QED BY <1>1, <1>7, <2>2, <2>3
  <1>8. CASE Retries = Singletons(again)
    BY <1>1, <1>4, <1>8
  <1>9. \/ again = {} \/ (again # {} /\ again = S /\ Retries = <<S>>)
        \/ (again = S /\ Cardinality(S) > 1 /\ Retries = Halves)
        \/ Retries = Singletons(again)
    BY <1>1 DEF Retries, Batch
  <1> QED BY <1>5, <1>6, <1>7, <1>8, <1>9

LEMMA QueueSettle == ASSUME IInv, QueueInv, Settle PROVE QueueInv'
  <1>1. CASE Stopping = "none"
    <2>1. /\ thread'.pc = "loop" /\ thread'.plan = thread.plan /\ thread'.history = thread.history
          /\ thread'.queue = Retries \o thread.queue
      BY <1>1, SettledFields
    <2>2. PICK S, again : S = thread.call.batch /\ again = thread.again
      OBVIOUS
    <2>3. /\ Batches(thread.queue, Untired \ S) /\ again \subseteq Untired \cap S
          /\ OneEach(thread.plan)
      BY <2>2 DEF Settle, QueueInv, At, InCall
    <2>4. Batches(Retries, again)
      BY <2>2, RetriesAreBatches DEF Settle
    <2>5. Batches(Retries \o thread.queue, Untired)
      <3>1. again \cap (Untired \ S) = {} /\ again \subseteq Untired /\ Untired \ S \subseteq Untired
        BY <2>3
      <3> QED BY <2>3, <2>4, <3>1, JoinedBatches
    <2>6. Untired' = Untired
      BY <2>1 DEF Untired
    <2>7. Batches(thread.queue, Untired)'
      BY <2>1, <2>5, <2>6
    <2>8. OneEach(thread.plan)'
      BY <2>1, <2>3
    <2> QED BY <2>1, <2>7, <2>8 DEF QueueInv, At, InCall
  <1>2. CASE Stopping # "none"
    <2>1. \E outcome, mark : Stop(outcome, mark)
      BY <1>2 DEF Settle
    <2> QED BY <2>1, StopLeaves, QueueLeaves
  <1> QED BY <1>1, <1>2

-----------------------------------------------------------------------------
(* The numbers of attempts. *)

\* The calls that a job was reserved in.
Asked(j, plan) == {r \in Reserved(plan) : j \in r.batch}
Tries(j, plan) == Cardinality(Asked(j, plan))

\* They are numbered from one, at most MaxAttempts, and each attempt belongs to one of them.
Numbered(j, plan) ==
    /\ Tries(j, plan) <= MaxAttempts
    /\ \A r \in Asked(j, plan) : r.numbers[j] \in 1..Tries(j, plan)
    /\ \A r, x \in Asked(j, plan) : r.numbers[j] = x.numbers[j] => r = x
    /\ \A a \in attempts : a.job = j => \E r \in Asked(j, plan) : Matches(a, j, r)
    /\ \A a, b \in attempts : a.job = j /\ SameAttempt(a, b) => a = b

NumberInv == \A plan \in SUBSET Jobs : Unshared(plan) => \A j \in plan : Numbered(j, plan)

LEMMA AskedFinite ==
    ASSUME StoreInv, NEW j, NEW p
    PROVE  IsFiniteSet(Asked(j, p)) /\ Tries(j, p) \in Nat
  <1>1. Asked(j, p) \in SUBSET DOMAIN calls
    BY DEF Asked, Reserved
  <1>2. IsFiniteSet(Asked(j, p))
    BY <1>1, FS_Subset DEF StoreInv
  <1> QED BY <1>2, FS_CardinalityType DEF Tries

LEMMA NumberedKept ==
    ASSUME NEW j, NEW p, Numbered(j, p), Asked(j, p)' = Asked(j, p),
           \A b : b.job = j => (b \in attempts' <=> b \in attempts),
           \A a \in attempts : \A r \in Asked(j, p) : Matches(a, j, r) => Matches(a, j, r)'
    PROVE  Numbered(j, p)'
  <1>1. PICK S, n : S = Asked(j, p) /\ n = Cardinality(S)
    OBVIOUS
  <1>2. Asked(j, p)' = S /\ Tries(j, p)' = n /\ Tries(j, p) = n
    BY <1>1 DEF Tries
  <1>3. /\ n <= MaxAttempts
        /\ \A r \in S : r.numbers[j] \in 1..n
        /\ \A r, x \in S : r.numbers[j] = x.numbers[j] => r = x
        /\ \A a \in attempts : a.job = j => \E r \in S : Matches(a, j, r)
        /\ \A a, b \in attempts : a.job = j /\ SameAttempt(a, b) => a = b
    BY <1>1, <1>2 DEF Numbered
  <1>4. \A a \in attempts' : a.job = j => \E r \in S : Matches(a, j, r)'
    BY <1>1, <1>3
  <1>5. \A a, b \in attempts' : a.job = j /\ SameAttempt(a, b) => a = b
    BY <1>3 DEF SameAttempt
  <1> QED BY <1>2, <1>3, <1>4, <1>5 DEF Numbered

\* A step about one call is no matter of the plans that share no job with its plan.
LEMMA NumbersKept ==
    ASSUME NumberInv, NEW c, c.batch \subseteq c.plan, c.plan \in SUBSET Jobs,
           DOMAIN calls' = DOMAIN calls \cup {c},
           \A x \in DOMAIN calls \ {c} : calls'[x] = calls[x],
           \A b : b.job \notin c.batch => (b \in attempts' <=> b \in attempts),
           Unshared(c.plan)' => \A j \in c.plan : Numbered(j, c.plan)'
    PROVE  NumberInv'
  <1> SUFFICES ASSUME NEW p \in SUBSET Jobs, Unshared(p)', NEW j \in p
               PROVE  Numbered(j, p)'
    BY DEF NumberInv
  <1>1. CASE p = c.plan
    BY <1>1
  <1>2. CASE p # c.plan
    <2>1. c.plan \cap p = {} /\ Unshared(p)
      BY <1>2 DEF Unshared
    <2>2. Numbered(j, p)
      BY <2>1 DEF NumberInv
    <2>3. Asked(j, p)' = Asked(j, p)
      BY <1>2 DEF Asked, Reserved
    <2>4. \A b : b.job = j => (b \in attempts' <=> b \in attempts)
      BY <2>1
    <2>5. \A r \in Asked(j, p) : r \in DOMAIN calls \ {c}
      BY <1>2 DEF Asked, Reserved
    <2>6. \A a \in attempts : \A r \in Asked(j, p) : Matches(a, j, r) => Matches(a, j, r)'
      BY <2>5 DEF Matches
    <2> QED BY <2>2, <2>3, <2>4, <2>6, NumberedKept
  <1> QED BY <1>1, <1>2

LEMMA NumbersSame == ASSUME NumberInv, UNCHANGED <<calls, attempts>> PROVE NumberInv'
  <1> SUFFICES ASSUME NEW p \in SUBSET Jobs, Unshared(p)', NEW j \in p
               PROVE  Numbered(j, p)'
    BY DEF NumberInv
  <1>1. Numbered(j, p)
    BY DEF NumberInv, Unshared
  <1>2. Asked(j, p)' = Asked(j, p)
    BY DEF Asked, Reserved
  <1>3. \A a \in attempts : \A r \in Asked(j, p) : Matches(a, j, r) => Matches(a, j, r)'
    BY DEF Matches
  <1> QED BY <1>1, <1>2, <1>3, NumberedKept

\* Finalizing a call leaves the attempts with it that were recorded for it.
LEMMA NumbersFinalized ==
    ASSUME StoreInv, NumberInv, NEW c \in DOMAIN calls, NEW fate \in Fates, FinalizeCall(c, fate),
           Unshared(c.plan) => \A a \in attempts :
              a.job \in c.batch /\ a.number = c.numbers[a.job] =>
                  a.call = c.call \/ fate = "not_transmitted"
    PROVE  NumberInv'
  <1>1. /\ DOMAIN calls' = DOMAIN calls /\ attempts' = attempts
        /\ \A x \in DOMAIN calls : calls'[x] = IF x = c THEN fate ELSE calls[x]
    BY FinalizeMade DEF FinalizeCall
  <1>2. c.batch \subseteq c.plan /\ c.plan \in SUBSET Jobs
    BY DEF StoreInv, ReservationOK
  <1>3. ASSUME Unshared(c.plan)', NEW j \in c.plan PROVE Numbered(j, c.plan)'
    <2>1. Unshared(c.plan)
      BY <1>1, <1>3 DEF Unshared
    <2>2. Numbered(j, c.plan)
      BY <1>2, <2>1 DEF NumberInv
    <2>3. Asked(j, c.plan)' = Asked(j, c.plan)
      BY <1>1 DEF Asked, Reserved
    <2>4. ASSUME NEW a \in attempts, NEW r \in Asked(j, c.plan), Matches(a, j, r)
          PROVE  Matches(a, j, r)'
      <3>1. r \in DOMAIN calls /\ j \in r.batch
        BY DEF Asked, Reserved
      <3>2. CASE r # c
        BY <1>1, <2>4, <3>1, <3>2 DEF Matches
      <3>3. CASE r = c
        <4>1. a.job = j /\ a.number = c.numbers[j] /\ a.batch = c.batch /\ j \in c.batch
              /\ (a.call = c.call \/ a.call = 0)
          BY <2>4, <3>1, <3>3 DEF Matches
        <4>2. a.call = c.call \/ fate = "not_transmitted"
          BY <2>1, <4>1
        <4>3. calls'[c] = fate
          BY <1>1
        <4> QED BY <3>3, <4>1, <4>2, <4>3 DEF Matches
      <3> QED BY <3>2, <3>3
    <2> QED BY <1>1, <2>2, <2>3, <2>4, NumberedKept
  <1> QED BY <1>1, <1>2, <1>3, NumbersKept

LEMMA HistoryIs ==
    ASSUME StoreInv, NEW p, NEW j, Numbered(j, p)
    PROVE  HistoryOf(j, p).tried = Tries(j, p)
  <1> DEFINE A == AttemptsOf(j, Outcomes)
             Q == Asked(j, p)
             N == Recovered(j, p)
             M == Q \ N
  <1>1. IsFiniteSet(Q) /\ Cardinality(Q) \in Nat
    BY AskedFinite DEF Tries
  <1>2. N \subseteq Q
    BY DEF Recovered, Asked
  <1>3. IsFiniteSet(N) /\ IsFiniteSet(M) /\ Cardinality(M) = Cardinality(Q) - Cardinality(N)
    <2> HIDE DEF Q, N
    <2>1. N \in SUBSET Q /\ Q \cap N = N
      BY <1>2
    <2>2. IsFiniteSet(N)
      BY <1>1, <2>1, FS_Subset
    <2>3. IsFiniteSet(Q \ N) /\ Cardinality(Q \ N) = Cardinality(Q) - Cardinality(Q \cap N)
      BY <1>1, FS_Difference
    <2> QED BY <2>1, <2>2, <2>3
  <1>4. Cardinality(N) \in Nat
    BY <1>3, FS_CardinalityType
  <1>5. \A a \in attempts : a.job = j <=> a \in A
    BY DEF AttemptsOf, StoreInv
  <1>6. \A a \in A : a \in attempts /\ a.job = j
    BY DEF AttemptsOf
  <1>7. \A a \in A : \E r \in Q : Matches(a, j, r)
    BY <1>6 DEF Numbered
  <1>8. PICK f : f = [a \in A |-> CHOOSE r \in Q : Matches(a, j, r)]
    OBVIOUS
  <1>9. \A a \in A : f[a] \in Q /\ Matches(a, j, f[a])
    BY <1>7, <1>8
  <1>10. \A a \in A : f[a] \in M
    BY <1>6, <1>9 DEF Recovered
  <1>11. \A a, b \in A : f[a] = f[b] => a = b
    <2> SUFFICES ASSUME NEW a \in A, NEW b \in A, f[a] = f[b] PROVE a = b
      OBVIOUS
    <2>1. SameAttempt(a, b)
      BY <1>9 DEF Matches, SameAttempt
    <2> QED BY <1>6, <2>1 DEF Numbered
  <1>12. \A r \in M : \E a \in A : f[a] = r
    <2> SUFFICES ASSUME NEW r \in M PROVE \E a \in A : f[a] = r
      OBVIOUS
    <2>1. PICK a \in attempts : Matches(a, j, r)
      BY DEF Recovered, Asked
    <2>2. a \in A
      BY <1>5, <2>1 DEF Matches
    <2>3. f[a] \in Q /\ r \in Q /\ f[a].numbers[j] = r.numbers[j]
      BY <1>9, <2>1, <2>2 DEF Matches
    <2> QED BY <2>2, <2>3 DEF Numbered
  <1>13. f \in Injection(A, M) /\ f \in Surjection(A, M)
    <2>1. f \in [A -> M]
      BY <1>8, <1>10
    <2> QED BY <1>11, <1>12, <2>1 DEF Injection, Surjection, IsInjective
  <1>14. Cardinality(A) = Cardinality(M)
    <2> HIDE DEF A, M
    <2> QED BY <1>3, <1>13, FS_Injection
  <1>15. HistoryOf(j, p).tried = Cardinality(A) + Cardinality(N)
    BY DEF HistoryOf
  <1> HIDE DEF A, Q, N, M
  <1>16. Tries(j, p) = Cardinality(Q)
    BY DEF Tries, Q
  <1> QED BY <1>1, <1>3, <1>4, <1>14, <1>15, <1>16

LEMMA ChargedIs ==
    ASSUME StoreInv, NEW p, \A j \in p : Numbered(j, p)
    PROVE  Charged(p) = Cardinality(Made(p))
  <1>1. Unaccounted(p) = {}
    <2> SUFFICES ASSUME NEW b \in attempts, b.job \in p PROVE Matched(b, p)
      BY DEF Unaccounted
    <2>1. PICK r \in Asked(b.job, p) : Matches(b, b.job, r)
      BY DEF Numbered
    <2> QED BY <2>1 DEF Matched, Asked
  <1>2. Max({0} \cup Unaccounted(p)) = 0
    <2>1. PICK S : S = {0} \cup Unaccounted(p)
      OBVIOUS
    <2>2. S = {0} /\ S \subseteq Int /\ S # {} /\ IsFiniteSet(S)
      BY <1>1, <2>1, FS_Singleton
    <2>3. Max(S) \in S
      BY <2>2, MaxOfFinite
    <2> QED BY <2>1, <2>2, <2>3
  <1>3. Charged(p) = Cardinality(Made(p)) + Max({0} \cup Unaccounted(p))
    BY DEF Charged, Made
  <1>4. Cardinality(Made(p)) \in Nat
    BY MadeFinite
  <1> QED BY <1>2, <1>3, <1>4

-----------------------------------------------------------------------------
(* What the thread and the records say of a call. *)

\* The jobs of the call in progress whose attempts are not recorded yet.
Pending == IF At("submit") THEN thread.call.batch
           ELSE IF thread.pc \in {"finalize", "record"} THEN thread.todo ELSE {}

Failed(j, outcome) == Cardinality(AttemptsOf(j, {outcome}))

\* The counters of a job, which are behind by the attempt that is pending.
Remembered(j, plan) ==
    /\ thread.history[j] = [tried |-> thread.history[j].tried,
                            transient |-> Failed(j, "transient"),
                            malformed |-> Failed(j, "malformed")]
    /\ Tries(j, plan) = thread.history[j].tried + (IF j \in Pending THEN 1 ELSE 0)
    /\ j \in Pending =>
          /\ thread.call.numbers[j] = Tries(j, plan)
          /\ \A a \in attempts : a.job = j => a.number # thread.call.numbers[j]

HistoryInv ==
    thread.pc \in Working /\ Unshared(thread.plan) =>
        \A j \in thread.plan : Remembered(j, thread.plan)

SentInv ==
    \A r \in DOMAIN calls : Unshared(r.plan) =>
        sent[r] <= (IF calls[r] = "not_transmitted" THEN 0 ELSE 1)

\* The count of calls is right, save for a call that did not leave and is still to be written off.
CallCounts(plan, c) ==
    /\ At("loop") => thread.used = Cardinality(Made(plan))
    /\ At("submit") => sent[c] = 0
    /\ thread.pc \in {"submit", "finalize"} =>
          calls[c] = "reserved" /\ thread.used = Cardinality(Made(plan))
    /\ thread.pc \in {"record", "settle"} =>
          IF thread.reply.left
          THEN /\ calls[c] \in {"reserved", "transmitted"}
               /\ thread.used = Cardinality(Made(plan))
               /\ \A a \in attempts :
                     a.job \in c.batch /\ a.number = c.numbers[a.job] => a.call = c.call
          ELSE /\ calls[c] = "reserved" /\ sent[c] = 0
               /\ thread.used + 1 = Cardinality(Made(plan))

CallInv ==
    /\ At("finalize") => thread.todo = thread.call.batch /\ thread.reply.left
    /\ At("record") /\ thread.reply.kind = "items" => thread.reply.left
    /\ thread.pc \in Working /\ Unshared(thread.plan) => CallCounts(thread.plan, thread.call)

BookInv == NumberInv /\ HistoryInv /\ SentInv /\ CallInv

LEMMA BookInit == Init => QueueInv /\ BookInv
  <1> SUFFICES ASSUME Init PROVE QueueInv /\ BookInv
    OBVIOUS
  <1>1. DOMAIN calls = {} /\ attempts = {} /\ thread = Resting
    BY DEF Init, StoreInit
  <1>2. thread.pc = "idle" /\ thread.plan = {}
    BY <1>1 DEF Resting
  <1>3. QueueInv
    BY <1>2 DEF QueueInv, OneEach, At, InCall
  <1>4. NumberInv
    <2> SUFFICES ASSUME NEW p \in SUBSET Jobs, NEW j \in p PROVE Numbered(j, p)
      BY DEF NumberInv
    <2>1. Asked(j, p) = {}
      BY <1>1 DEF Asked, Reserved
    <2>2. Tries(j, p) = 0
      BY <2>1, FS_EmptySet DEF Tries
    <2> QED BY <1>1, <2>1, <2>2, PolicyAssumption DEF Numbered
  <1>5. HistoryInv /\ SentInv /\ CallInv
    BY <1>1, <1>2 DEF HistoryInv, SentInv, CallInv, At, Working, InCall
  <1> QED BY <1>3, <1>4, <1>5 DEF BookInv

LEMMA SentSame == ASSUME SentInv, UNCHANGED <<calls, sent>> PROVE SentInv'
  BY DEF SentInv, Unshared

LEMMA BookLeaves ==
    ASSUME BookInv, Leaves, NumberInv', SentInv'
    PROVE  BookInv'
  BY DEF BookInv, Leaves, HistoryInv, CallInv, At, Working, InCall

\* As long as the jobs are asked for as often, and the same attempts are pending.
LEMMA HistoryKept ==
    ASSUME HistoryInv, thread.pc \in Working, attempts' = attempts, DOMAIN calls' = DOMAIN calls,
           thread'.plan = thread.plan, thread'.history = thread.history, Pending' = Pending,
           Pending = {} \/ thread'.call = thread.call
    PROVE  HistoryInv'
  <1>1. PICK p, w : p = thread.plan /\ w = Pending
    OBVIOUS
  <1> SUFFICES ASSUME Unshared(p)', NEW j \in p PROVE Remembered(j, p)'
    BY <1>1 DEF HistoryInv
  <1>2. Unshared(p)
    BY DEF Unshared
  <1>3. Remembered(j, p)
    BY <1>1, <1>2 DEF HistoryInv
  <1>4. Tries(j, p)' = Tries(j, p)
    BY DEF Tries, Asked, Reserved
  <1>5. Failed(j, "transient")' = Failed(j, "transient")
        /\ Failed(j, "malformed")' = Failed(j, "malformed")
    BY DEF Failed, AttemptsOf
  <1>6. Pending' = w /\ Pending = w
    BY <1>1
  <1>7. thread'.history[j] = [tried |-> thread'.history[j].tried,
                            transient |-> Failed(j, "transient")',
                            malformed |-> Failed(j, "malformed")']
    BY <1>3, <1>5 DEF Remembered
  <1>8. Tries(j, p)' = thread'.history[j].tried + (IF j \in w THEN 1 ELSE 0)
    BY <1>3, <1>4, <1>6 DEF Remembered
  <1>9. j \in w => /\ thread'.call.numbers[j] = Tries(j, p)'
                   /\ \A a \in attempts' : a.job = j => a.number # thread'.call.numbers[j]
    BY <1>3, <1>4, <1>6 DEF Remembered
  <1> QED BY <1>6, <1>7, <1>8, <1>9 DEF Remembered

LEMMA BookResume == ASSUME IInv, BookInv, Resume PROVE BookInv'
  <1>1. UNCHANGED <<calls, attempts, sent>> /\ thread.pc = "resume"
    BY DEF Resume, Silent, storeVars, At
  <1>2. NumberInv' /\ SentInv'
    BY <1>1, NumbersSame, SentSame DEF BookInv
  <1>3. CASE Leaves
    BY <1>2, <1>3, BookLeaves
  <1>4. ASSUME thread'.pc = "loop", thread'.plan = thread.plan,
               thread'.used = Charged(thread.plan),
               thread'.history = [j \in thread.plan |-> HistoryOf(j, thread.plan)]
        PROVE  BookInv'
    <2>1. PICK p : p = thread.plan
      OBVIOUS
    <2>2. p \in SUBSET Jobs
      BY <2>1 DEF IInv, ThreadInv
    <2>3. Pending' = {}
      BY <1>4 DEF Pending, At
    <2>4. Unshared(p)' => Unshared(p)
      BY <1>1 DEF Unshared
    <2>5. ASSUME Unshared(p)', NEW j \in p PROVE Remembered(j, p)'
      <3>1. Numbered(j, p)
        BY <2>2, <2>4, <2>5 DEF BookInv, NumberInv
      <3>2. HistoryOf(j, p).tried = Tries(j, p) /\ Tries(j, p) \in Nat
        BY <3>1, HistoryIs, AskedFinite DEF IInv
      <3>3. Tries(j, p)' = Tries(j, p)
        BY <1>1 DEF Tries, Asked, Reserved
      <3>4. Failed(j, "transient")' = Failed(j, "transient")
            /\ Failed(j, "malformed")' = Failed(j, "malformed")
        BY <1>1 DEF Failed, AttemptsOf
      <3>5. thread'.history[j] = HistoryOf(j, p)
        BY <1>4, <2>1
      <3>6. HistoryOf(j, p) = [tried |-> HistoryOf(j, p).tried,
                               transient |-> Failed(j, "transient"),
                               malformed |-> Failed(j, "malformed")]
        BY DEF HistoryOf, Failed
      <3>7. thread'.history[j] = [tried |-> thread'.history[j].tried,
                                  transient |-> Failed(j, "transient")',
                                  malformed |-> Failed(j, "malformed")']
        BY <3>4, <3>5, <3>6
      <3>8. Tries(j, p)' = thread'.history[j].tried + (IF j \in Pending' THEN 1 ELSE 0)
        BY <2>3, <3>2, <3>3, <3>5
      <3> QED BY <2>3, <3>7, <3>8 DEF Remembered
    <2>6. HistoryInv'
      BY <1>4, <2>1, <2>5 DEF HistoryInv
    <2>7. CallInv'
      <3>1. ASSUME Unshared(p)' PROVE thread'.used = Cardinality(Made(p)')
        <4>1. \A j \in p : Numbered(j, p)
          BY <2>2, <2>4, <3>1 DEF BookInv, NumberInv
        <4>2. Charged(p) = Cardinality(Made(p))
          BY <4>1, ChargedIs DEF IInv
        <4>3. Made(p)' = Made(p)
          BY <1>1, CallsKept
        <4> QED BY <1>4, <2>1, <4>2, <4>3
      <3> QED BY <1>4, <2>1, <3>1 DEF CallInv, CallCounts, At
    <2> QED BY <1>2, <2>6, <2>7 DEF BookInv
  <1> QED BY <1>3, <1>4, ResumeFields

LEMMA BookRegroup ==
    ASSUME IInv, BookInv, Reserve, NEW batch, batch = Head(thread.queue), Active(batch) # batch
    PROVE  BookInv'
  <1>1. /\ thread'.pc = "loop" /\ thread'.plan = thread.plan
        /\ thread'.history = thread.history /\ thread'.used = thread.used
        /\ UNCHANGED <<calls, attempts, sent>>
    BY RegroupFields
  <1>2. thread.pc = "loop"
    BY DEF Reserve, At
  <1>3. NumberInv' /\ SentInv'
    BY <1>1, NumbersSame, SentSame DEF BookInv
  <1>4. Pending' = {} /\ Pending = {}
    BY <1>1, <1>2 DEF Pending, At
  <1>5. HistoryInv'
    BY <1>1, <1>2, <1>4, HistoryKept DEF BookInv, Working
  <1>6. CallInv'
    <2>1. PICK p : p = thread.plan
      OBVIOUS
    <2>2. ASSUME Unshared(p)' PROVE thread'.used = Cardinality(Made(p)')
      <3>1. Unshared(p)
        BY <1>1, <2>2 DEF Unshared
      <3>2. thread.used = Cardinality(Made(p))
        BY <1>2, <2>1, <3>1 DEF BookInv, CallInv, CallCounts, At, Working
      <3>3. Made(p)' = Made(p)
        BY <1>1, CallsKept
      <3> QED BY <1>1, <3>2, <3>3
    <2> QED BY <1>1, <2>1, <2>2 DEF CallInv, CallCounts, At
  <1> QED BY <1>3, <1>5, <1>6 DEF BookInv

\* The next call is a new one, and the next attempt of each of its jobs.
LEMMA NextIsNew ==
    ASSUME IInv, BookInv, NEW p, p = thread.plan, At("loop"), Unshared(p),
           NEW r, r.plan = p, r.batch \subseteq Untired, r.batch # {},
           r.numbers = [j \in r.batch |-> thread.history[j].tried + 1]
    PROVE  /\ r \notin DOMAIN calls
           /\ \A j \in r.batch : /\ Numbered(j, p) /\ Tries(j, p) \in Nat
                                 /\ thread.history[j].tried = Tries(j, p)
                                 /\ Tries(j, p) < MaxAttempts
                                 /\ r.numbers[j] = Tries(j, p) + 1
  <1>1. p \in SUBSET Jobs /\ r.batch \subseteq p
    BY DEF IInv, ThreadInv, Untired
  <1>2. Pending = {}
    BY DEF Pending, At
  <1>3. ASSUME NEW j \in r.batch
        PROVE  /\ Numbered(j, p) /\ Tries(j, p) \in Nat
               /\ thread.history[j].tried = Tries(j, p)
               /\ Tries(j, p) < MaxAttempts
               /\ r.numbers[j] = Tries(j, p) + 1
    <2>1. Numbered(j, p)
      BY <1>1 DEF BookInv, NumberInv
    <2>2. Tries(j, p) \in Nat
      BY AskedFinite DEF IInv
    <2>3. Remembered(j, p)
      BY <1>1 DEF BookInv, HistoryInv, At, Working
    <2>4. thread.history[j].tried \in Nat
      BY <1>1 DEF IInv, ThreadInv, At, Working
    <2>5. thread.history[j].tried = Tries(j, p)
      BY <1>2, <2>2, <2>3, <2>4 DEF Remembered
    <2>6. thread.history[j].tried < MaxAttempts
      BY DEF Untired
    <2> QED BY <2>1, <2>2, <2>5, <2>6
  <1>4. r \notin DOMAIN calls
    <2> SUFFICES ASSUME r \in DOMAIN calls PROVE FALSE
      OBVIOUS
    <2>1. PICK j \in r.batch : TRUE
      OBVIOUS
    <2>2. r \in Asked(j, p)
      BY <2>1 DEF Asked, Reserved
    <2>3. r.numbers[j] \in 1..Tries(j, p)
      BY <1>3, <2>1, <2>2 DEF Numbered
    <2> QED BY <1>3, <2>1, <2>3
  <1> QED BY <1>3, <1>4

\* A new call numbers its jobs anew.
LEMMA ReservedNumbers ==
    ASSUME StoreInv, NEW r, r \notin DOMAIN calls, NEW p, r.plan = p, NEW j,
           ReserveCall(r), Numbered(j, p),
           j \in r.batch => r.numbers[j] = Tries(j, p) + 1 /\ Tries(j, p) < MaxAttempts
    PROVE  /\ Numbered(j, p)'
           /\ Tries(j, p)' = IF j \in r.batch THEN Tries(j, p) + 1 ELSE Tries(j, p)
  <1>1. /\ DOMAIN calls' = DOMAIN calls \cup {r} /\ attempts' = attempts
        /\ \A x \in DOMAIN calls : calls'[x] = calls[x]
    BY ReserveMade DEF ReserveCall
  <1>2. PICK S, n : S = Asked(j, p) /\ n = Tries(j, p)
    OBVIOUS
  <1>3. IsFiniteSet(S) /\ n \in Nat /\ n = Cardinality(S) /\ r \notin S
    BY <1>2, AskedFinite DEF Tries, Asked, Reserved
  <1>4. \A a \in attempts : \A x \in S : Matches(a, j, x) => Matches(a, j, x)'
    BY <1>1, <1>2 DEF Matches, Asked, Reserved
  <1>5. CASE j \notin r.batch
    <2>1. Asked(j, p)' = S
      BY <1>1, <1>2, <1>5 DEF Asked, Reserved
    <2>2. Asked(j, p)' = Asked(j, p)
      BY <1>2, <2>1
    <2>3. Numbered(j, p)'
      BY <1>1, <1>2, <1>4, <2>2, NumberedKept
    <2> QED BY <1>5, <2>2, <2>3 DEF Tries
  <1>6. CASE j \in r.batch
    <2>1. Asked(j, p)' = S \cup {r}
      BY <1>1, <1>2, <1>6 DEF Asked, Reserved
    <2>2. Cardinality(S \cup {r}) = n + 1
      BY <1>3, FS_AddElement
    <2>3. Tries(j, p)' = n + 1
      BY <2>1, <2>2 DEF Tries
    <2>4. r.numbers[j] = n + 1 /\ n < MaxAttempts
      BY <1>2, <1>6
    <2>5. /\ \A x \in S : x.numbers[j] \in 1..n
          /\ \A x, y \in S : x.numbers[j] = y.numbers[j] => x = y
          /\ \A a \in attempts : a.job = j => \E x \in S : Matches(a, j, x)
          /\ \A a, b \in attempts : a.job = j /\ SameAttempt(a, b) => a = b
      BY <1>2 DEF Numbered
    <2>6. n + 1 <= MaxAttempts
      BY <1>3, <2>4, PolicyAssumption
    <2>7. \A x \in S \cup {r} : x.numbers[j] \in 1..(n + 1)
      BY <1>3, <2>4, <2>5
    <2>8. \A x, y \in S \cup {r} : x.numbers[j] = y.numbers[j] => x = y
      BY <1>3, <2>4, <2>5
    <2>9. \A a \in attempts' : a.job = j => \E x \in S \cup {r} : Matches(a, j, x)'
      BY <1>1, <1>4, <2>5
    <2>10. \A a, b \in attempts' : a.job = j /\ SameAttempt(a, b) => a = b
      BY <1>1, <2>5 DEF SameAttempt
    <2>11. Numbered(j, p)'
      BY <2>1, <2>3, <2>6, <2>7, <2>8, <2>9, <2>10 DEF Numbered
    <2> QED BY <1>2, <1>6, <2>3, <2>11
  <1> QED BY <1>5, <1>6

LEMMA BookReserve ==
    ASSUME IInv, QueueInv, BookInv, Reserve, NEW batch, batch = Head(thread.queue),
           Active(batch) = batch
    PROVE  BookInv'
  <1>1. PICK p : p = thread.plan
    OBVIOUS
  <1>2. PICK r : r = NextCall
    OBVIOUS
  <1>3. /\ thread'.pc = "submit" /\ thread'.plan = p /\ thread'.call = r
        /\ thread'.history = thread.history /\ thread'.used = thread.used + 1
        /\ r.plan = p /\ r.batch = batch
        /\ r.numbers = [j \in batch |-> thread.history[j].tried + 1]
        /\ ReserveCall(r)
        /\ sent' = [x \in DOMAIN calls' |-> IF x \in DOMAIN calls THEN sent[x] ELSE 0]
    BY <1>1, <1>2, ReserveFields
  <1>4. At("loop") /\ thread.queue # <<>> /\ thread.pc = "loop"
    BY DEF Reserve, At
  <1>5. batch \subseteq Untired /\ batch # {}
    BY <1>4, RestOfBatches DEF QueueInv
  <1>6. p \in SUBSET Jobs /\ batch \subseteq p /\ thread.used \in Nat
    BY <1>1, <1>5 DEF IInv, ThreadInv, Untired
  <1>7. /\ DOMAIN calls' = DOMAIN calls \cup {r} /\ attempts' = attempts
        /\ \A x \in DOMAIN calls : calls'[x] = calls[x]
        /\ r \notin DOMAIN calls => calls'[r] = "reserved" /\ Made(p)' = Made(p) \cup {r}
    <2>1. /\ DOMAIN calls' = DOMAIN calls \cup {r}
          /\ \A x \in DOMAIN calls : calls'[x] = calls[x]
          /\ r \notin DOMAIN calls => calls'[r] = "reserved"
          /\ r \notin DOMAIN calls => Made(r.plan)' = Made(r.plan) \cup {r}
      BY <1>3, ReserveMade
    <2>2. attempts' = attempts
      BY <1>3 DEF ReserveCall
    <2>3. r \notin DOMAIN calls => Made(p)' = Made(p) \cup {r}
      <3>1. PICK q : q = r.plan
        OBVIOUS
      <3>2. q = p /\ (r \notin DOMAIN calls => Made(q)' = Made(q) \cup {r})
        BY <1>3, <2>1, <3>1
      <3> QED BY <3>2
    <2> QED BY <2>1, <2>2, <2>3
  <1>8. ASSUME Unshared(p)'
        PROVE  /\ Unshared(p) /\ r \notin DOMAIN calls
               /\ \A j \in p : /\ Numbered(j, p)'
                               /\ Tries(j, p)' = IF j \in batch THEN Tries(j, p) + 1
                                                 ELSE Tries(j, p)
               /\ \A j \in batch : /\ Numbered(j, p) /\ Tries(j, p) \in Nat
                                   /\ thread.history[j].tried = Tries(j, p)
                                   /\ r.numbers[j] = Tries(j, p) + 1
    <2>1. Unshared(p)
      BY <1>7, <1>8 DEF Unshared
    <2>2. /\ r \notin DOMAIN calls
          /\ \A j \in r.batch : /\ Numbered(j, p) /\ Tries(j, p) \in Nat
                                /\ thread.history[j].tried = Tries(j, p)
                                /\ Tries(j, p) < MaxAttempts
                                /\ r.numbers[j] = Tries(j, p) + 1
      BY <1>1, <1>3, <1>4, <1>5, <2>1, NextIsNew
    <2>3. \A j \in p : Numbered(j, p)
      BY <1>6, <2>1 DEF BookInv, NumberInv
    <2>4. ASSUME NEW j \in p
          PROVE  /\ Numbered(j, p)'
                 /\ Tries(j, p)' = IF j \in r.batch THEN Tries(j, p) + 1 ELSE Tries(j, p)
      <3>1. Numbered(j, p)
        BY <2>3
      <3>2. j \in r.batch => r.numbers[j] = Tries(j, p) + 1 /\ Tries(j, p) < MaxAttempts
        BY <2>2
      <3>3. StoreInv /\ r \notin DOMAIN calls /\ r.plan = p /\ ReserveCall(r)
        BY <1>3, <2>2 DEF IInv
      <3> QED BY <3>1, <3>2, <3>3, ReservedNumbers
    <2> QED BY <1>3, <2>1, <2>2, <2>4
  <1>9. NumberInv'
    <2>1. r.batch \subseteq r.plan /\ r.plan \in SUBSET Jobs
      BY <1>3, <1>6
    <2>2. Unshared(r.plan)' => \A j \in r.plan : Numbered(j, r.plan)'
      BY <1>3, <1>8
    <2> QED BY <1>7, <2>1, <2>2, NumbersKept DEF BookInv
  <1>10. SentInv'
    <2> SUFFICES ASSUME NEW x \in DOMAIN calls', Unshared(x.plan)'
                 PROVE  sent'[x] <= (IF calls'[x] = "not_transmitted" THEN 0 ELSE 1)
      BY DEF SentInv
    <2>1. CASE x \in DOMAIN calls
      <3>1. Unshared(x.plan)
        BY <1>7 DEF Unshared
      <3>2. sent[x] <= (IF calls[x] = "not_transmitted" THEN 0 ELSE 1)
        BY <2>1, <3>1 DEF BookInv, SentInv
      <3> QED BY <1>3, <1>7, <2>1, <3>2
    <2>2. CASE x \notin DOMAIN calls
      BY <1>3, <2>2
    <2> QED BY <2>1, <2>2
  <1>11. HistoryInv'
    <2> SUFFICES ASSUME Unshared(p)', NEW j \in p PROVE Remembered(j, p)'
      BY <1>3 DEF HistoryInv
    <2>1. Remembered(j, p) /\ Pending = {}
      BY <1>1, <1>4, <1>8 DEF BookInv, HistoryInv, Pending, At, Working
    <2>2. Pending' = batch
      BY <1>3 DEF Pending, At
    <2>3. thread'.history[j] = [tried |-> thread'.history[j].tried,
                                transient |-> Failed(j, "transient")',
                                malformed |-> Failed(j, "malformed")']
      BY <1>3, <1>7, <2>1 DEF Remembered, Failed, AttemptsOf
    <2>4. Tries(j, p) \in Nat /\ Tries(j, p) = thread.history[j].tried
      <3>1. Tries(j, p) \in Nat /\ thread.history[j].tried \in Nat
        BY <1>1, <1>4, AskedFinite DEF IInv, ThreadInv, Working
      <3>2. Tries(j, p) = thread.history[j].tried + 0
        BY <2>1 DEF Remembered
      <3> QED BY <3>1, <3>2
    <2>5. Tries(j, p)' = IF j \in batch THEN Tries(j, p) + 1 ELSE Tries(j, p)
      BY <1>8
    <2>6. Tries(j, p)' = thread'.history[j].tried + (IF j \in Pending' THEN 1 ELSE 0)
      BY <1>3, <2>2, <2>4, <2>5
    <2>7. ASSUME j \in batch
          PROVE  /\ thread'.call.numbers[j] = Tries(j, p)'
                 /\ \A a \in attempts' : a.job = j => a.number # thread'.call.numbers[j]
      <3>1. Numbered(j, p) /\ r.numbers[j] = Tries(j, p) + 1
        BY <1>8, <2>7
      <3>2. \A a \in attempts : a.job = j => a.number \in 1..Tries(j, p)
        BY <3>1 DEF Numbered, Matches
      <3>3. \A a \in attempts : a.job = j => a.number # r.numbers[j]
        BY <2>4, <3>1, <3>2
      <3> QED BY <1>3, <1>7, <2>5, <2>7, <3>1, <3>3
    <2> QED BY <2>2, <2>3, <2>6, <2>7 DEF Remembered
  <1>12. CallInv'
    <2>1. ASSUME Unshared(p)'
          PROVE  /\ sent'[r] = 0 /\ calls'[r] = "reserved"
                 /\ thread'.used = Cardinality(Made(p)')
      <3>1. r \notin DOMAIN calls /\ Unshared(p)
        BY <1>8, <2>1
      <3>2. sent'[r] = 0 /\ calls'[r] = "reserved" /\ Made(p)' = Made(p) \cup {r}
        BY <1>3, <1>7, <3>1
      <3>3. thread.used = Cardinality(Made(p))
        BY <1>1, <1>4, <3>1 DEF BookInv, CallInv, CallCounts, Working
      <3>4. r \notin Made(p)
        BY <3>1 DEF Made, Reserved
      <3>5. Cardinality(Made(p) \cup {r}) = Cardinality(Made(p)) + 1
        BY <3>4, MadeFinite, FS_AddElement DEF IInv
      <3> QED BY <1>3, <3>2, <3>3, <3>5
    <2> QED BY <1>3, <2>1 DEF CallInv, CallCounts, At
  <1> QED BY <1>9, <1>10, <1>11, <1>12 DEF BookInv

\* What is known of a call that is in progress, as far as the plan's jobs are its own.
LEMMA PendingFacts ==
    ASSUME IInv, BookInv, NEW c, c = thread.call, NEW p, p = thread.plan, thread.pc \in InCall
    PROVE  /\ c \in DOMAIN calls /\ c.plan = p /\ c.batch \subseteq p /\ p \in SUBSET Jobs
           /\ Unshared(p) => /\ CallCounts(p, c)
                             /\ \A j \in p : Remembered(j, p) /\ Numbered(j, p)
                             /\ \A a \in attempts :
                                   a.job \in Pending \cap c.batch => a.number # c.numbers[a.job]
  <1>1. c \in DOMAIN calls /\ c.plan = p /\ c.batch \subseteq p /\ p \in SUBSET Jobs
    BY CallFacts
  <1>2. ASSUME Unshared(p)
        PROVE  /\ CallCounts(p, c) /\ \A j \in p : Remembered(j, p) /\ Numbered(j, p)
    BY <1>1, <1>2 DEF BookInv, CallInv, HistoryInv, NumberInv, Working
  <1>3. ASSUME Unshared(p), NEW a \in attempts, a.job \in Pending \cap c.batch
        PROVE  a.number # c.numbers[a.job]
    <2>1. Remembered(a.job, p)
      BY <1>1, <1>2, <1>3
    <2> QED BY <1>3, <2>1 DEF Remembered
  <1> QED BY <1>1, <1>2, <1>3

LEMMA SubmittedSends ==
    ASSUME IInv, BookInv, At("submit"), Submitted, NEW c, c = thread.call
    PROVE  /\ \A r \in DOMAIN sent : r # c => sent'[r] = sent[r]
           /\ DOMAIN sent' = DOMAIN sent /\ DOMAIN sent = DOMAIN calls
           /\ Unshared(c.plan) => sent'[c] = 1
  <1>1. c \in DOMAIN calls /\ c.plan = thread.plan /\ DOMAIN sent = DOMAIN calls
    BY CallFacts DEF At, InCall, IInv, StoreInv
  <1>2. Unshared(c.plan) => sent[c] = 0
    BY <1>1 DEF BookInv, CallInv, CallCounts, At, Working, InCall
  <1> QED BY <1>1, <1>2 DEF Submitted

LEMMA BookAnswered ==
    ASSUME IInv, BookInv, At("submit"), NEW pc, NEW kind, NEW left \in BOOLEAN,
           Answered(pc, kind, left), UNCHANGED storeVars,
           \/ pc = "finalize" /\ left
           \/ pc = "record" /\ kind # "items",
           IF left THEN Submitted ELSE UNCHANGED sent
    PROVE  BookInv'
  <1>1. PICK p, c : p = thread.plan /\ c = thread.call
    OBVIOUS
  <1>2. /\ thread'.pc = pc /\ thread'.plan = p /\ thread'.call = c
        /\ thread'.history = thread.history /\ thread'.todo = c.batch
        /\ thread'.used = IF left THEN thread.used ELSE thread.used - 1
        /\ thread'.reply.kind = kind /\ thread'.reply.left = left
    <2>1. /\ thread'.pc = pc /\ thread'.plan = thread.plan /\ thread'.call = thread.call
          /\ thread'.history = thread.history /\ thread'.todo = thread.call.batch
          /\ thread'.used = IF left THEN thread.used ELSE thread.used - 1
          /\ thread'.reply = [kind |-> kind, left |-> left]
      BY AnsweredFields
    <2>2. thread'.reply.kind = kind /\ thread'.reply.left = left
      BY <2>1
    <2> QED BY <1>1, <2>1, <2>2
  <1>3. UNCHANGED <<calls, attempts>> /\ thread.pc = "submit" /\ pc \in {"record", "finalize"}
    BY DEF storeVars, At
  <1>4. /\ c \in DOMAIN calls /\ c.plan = p /\ c.batch \subseteq p
        /\ Unshared(p) => /\ CallCounts(p, c)
                          /\ \A a \in attempts :
                                a.job \in Pending \cap c.batch => a.number # c.numbers[a.job]
    BY <1>1, <1>3, PendingFacts DEF InCall
  <1>5. Pending = c.batch /\ Pending' = c.batch
    BY <1>1, <1>2, <1>3 DEF Pending, At
  <1>6. Unshared(p)' => Unshared(p)
    BY <1>3 DEF Unshared
  <1>7. NumberInv'
    BY <1>3, NumbersSame DEF BookInv
  <1>8. HistoryInv'
    BY <1>1, <1>2, <1>3, <1>5, HistoryKept DEF BookInv, Working, InCall
  <1>9. SentInv'
    <2>1. CASE ~left
      BY <1>3, <2>1, SentSame DEF BookInv
    <2>2. CASE left
      <3>1. /\ \A r \in DOMAIN sent : r # c => sent'[r] = sent[r]
            /\ DOMAIN sent = DOMAIN calls
            /\ Unshared(c.plan) => sent'[c] = 1
        BY <1>1, <2>2, SubmittedSends
      <3> SUFFICES ASSUME NEW x \in DOMAIN calls, Unshared(x.plan)
                   PROVE  sent'[x] <= (IF calls[x] = "not_transmitted" THEN 0 ELSE 1)
        BY <1>3 DEF SentInv, Unshared
      <3>2. CASE x # c
        BY <3>1, <3>2 DEF BookInv, SentInv
      <3>3. CASE x = c
        <4>1. calls[c] = "reserved"
          BY <1>3, <1>4, <3>3 DEF CallCounts
        <4> QED BY <3>1, <3>3, <4>1
      <3> QED BY <3>2, <3>3
    <2> QED BY <2>1, <2>2
  <1>10. CallInv'
    <2>1. ASSUME Unshared(p)' PROVE CallCounts(p, c)'
      <3>1. /\ calls[c] = "reserved" /\ sent[c] = 0 /\ thread.used = Cardinality(Made(p))
            /\ \A a \in attempts : a.job \in c.batch => a.number # c.numbers[a.job]
        BY <1>3, <1>4, <1>5, <1>6, <2>1 DEF CallCounts, At
      <3>2. PICK m : m = Made(p)
        OBVIOUS
      <3>3. Made(p)' = m /\ Cardinality(m) = thread.used /\ thread.used \in Nat
        BY <1>3, <3>1, <3>2, CallsKept DEF IInv, ThreadInv
      <3>4. calls'[c] = "reserved" /\ attempts' = attempts /\ (~left => sent'[c] = 0)
        BY <1>3, <3>1
      <3>5. left => thread'.used = Cardinality(m)
        BY <1>2, <3>3
      <3>6. ~left => thread'.used + 1 = Cardinality(m)
        BY <1>2, <3>3
      <3>7. \A a \in attempts' : a.job \in c.batch /\ a.number = c.numbers[a.job] => a.call = c.call
        BY <3>1, <3>4
      <3>8. thread'.pc = "finalize" => left
        BY <1>2
      <3>9. thread'.pc \in {"record", "finalize"}
        BY <1>2, <1>3
      <3>10. calls'[c] \in {"reserved", "transmitted"}
        BY <3>4
      <3> QED BY <1>2, <3>3, <3>4, <3>5, <3>6, <3>7, <3>8, <3>9, <3>10 DEF CallCounts, At
    <2>2. (At("finalize") => thread.todo = thread.call.batch /\ thread.reply.left)'
      BY <1>2 DEF At
    <2>3. (At("record") /\ thread.reply.kind = "items" => thread.reply.left)'
      BY <1>2 DEF At
    <2> QED BY <1>2, <2>1, <2>2, <2>3 DEF CallInv
  <1> QED BY <1>7, <1>8, <1>9, <1>10 DEF BookInv

LEMMA BookAnswers ==
    ASSUME IInv, BookInv,
           (\E kind \in Failures, left \in BOOLEAN : Fail(kind, left)) \/ Respond
    PROVE  BookInv'
  <1>1. CASE \E kind \in Failures, left \in BOOLEAN : Fail(kind, left)
    <2>1. PICK kind \in Failures, left \in BOOLEAN : Fail(kind, left)
      BY <1>1
    <2>2. kind # "items"
      BY PolicyAssumption DEF FailureKinds
    <2>3. /\ At("submit") /\ Answered("record", kind, left) /\ UNCHANGED storeVars
          /\ IF left THEN Submitted ELSE UNCHANGED sent
      BY <2>1 DEF Fail
    <2> QED BY <2>2, <2>3, BookAnswered
  <1>2. CASE Respond
    BY <1>2, BookAnswered DEF Respond
  <1> QED BY <1>1, <1>2

LEMMA BookInterrupt == ASSUME IInv, BookInv, Interrupt PROVE BookInv'
  <1>1. PICK p, c : p = thread.plan /\ c = thread.call
    OBVIOUS
  <1>2. /\ FinalizeCall(c, "unknown") /\ Raise /\ Submitted /\ At("submit")
        /\ thread.pc = "submit"
    BY <1>1 DEF Interrupt, At
  <1>3. /\ c \in DOMAIN calls /\ c.plan = p
        /\ Unshared(p) => \A a \in attempts :
              a.job \in Pending \cap c.batch => a.number # c.numbers[a.job]
    BY <1>1, <1>2, PendingFacts DEF InCall
  <1>4. Pending = c.batch
    BY <1>1, <1>2 DEF Pending
  <1>5. NumberInv'
    BY <1>2, <1>3, <1>4, FateNames, NumbersFinalized DEF BookInv, IInv
  <1>6. SentInv'
    <2>1. /\ DOMAIN calls' = DOMAIN calls /\ calls'[c] = "unknown"
          /\ \A x \in DOMAIN calls : x # c => calls'[x] = calls[x]
      BY <1>2, <1>3, FateNames, FinalizeMade
    <2>2. /\ \A r \in DOMAIN calls : r # c => sent'[r] = sent[r]
          /\ Unshared(c.plan) => sent'[c] = 1
      BY <1>1, <1>2, SubmittedSends
    <2> SUFFICES ASSUME NEW x \in DOMAIN calls, Unshared(x.plan)
                 PROVE  sent'[x] <= (IF calls'[x] = "not_transmitted" THEN 0 ELSE 1)
      BY <2>1 DEF SentInv, Unshared
    <2>3. CASE x # c
      BY <2>1, <2>2, <2>3 DEF BookInv, SentInv
    <2>4. CASE x = c
      BY <2>1, <2>2, <2>4
    <2> QED BY <2>3, <2>4
  <1> QED BY <1>2, <1>5, <1>6, RaiseLeaves, BookLeaves

LEMMA BookFinalize == ASSUME IInv, BookInv, NEW kind, Finalize(kind) PROVE BookInv'
  <1>1. PICK p, c : p = thread.plan /\ c = thread.call
    OBVIOUS
  <1>2. /\ FinalizeCall(c, "transmitted") /\ UNCHANGED sent /\ thread.pc = "finalize"
    BY <1>1 DEF Finalize, At
  <1>3. /\ thread'.pc = "record" /\ thread'.plan = p /\ thread'.call = c
        /\ thread'.history = thread.history /\ thread'.todo = thread.todo
        /\ thread'.used = thread.used /\ thread'.reply.left = thread.reply.left
    BY <1>1, FinalizeFields
  <1>4. /\ c \in DOMAIN calls /\ c.plan = p
        /\ Unshared(p) => /\ CallCounts(p, c)
                          /\ \A a \in attempts :
                                a.job \in Pending \cap c.batch => a.number # c.numbers[a.job]
    BY <1>1, <1>2, PendingFacts DEF InCall
  <1>5. thread.todo = c.batch /\ thread.reply.left
    BY <1>1, <1>2 DEF BookInv, CallInv, At
  <1>6. Pending = c.batch /\ Pending' = c.batch
    BY <1>2, <1>3, <1>5 DEF Pending, At
  <1>7. /\ DOMAIN calls' = DOMAIN calls /\ attempts' = attempts /\ calls'[c] = "transmitted"
        /\ \A x \in DOMAIN calls : x # c => calls'[x] = calls[x]
        /\ Made(p)' = Made(p) \cup {c}
    BY <1>2, <1>4, FateNames, FinalizeMade DEF FinalizeCall
  <1>8. NumberInv'
    BY <1>2, <1>4, <1>6, FateNames, NumbersFinalized DEF BookInv, IInv
  <1>9. HistoryInv'
    BY <1>1, <1>2, <1>3, <1>6, <1>7, HistoryKept DEF BookInv, Working, InCall
  <1>10. Unshared(p)' => Unshared(p)
    BY <1>7 DEF Unshared
  <1>11. SentInv'
    <2> SUFFICES ASSUME NEW x \in DOMAIN calls, Unshared(x.plan)
                 PROVE  sent[x] <= (IF calls'[x] = "not_transmitted" THEN 0 ELSE 1)
      BY <1>2, <1>7 DEF SentInv, Unshared
    <2>1. sent[x] <= (IF calls[x] = "not_transmitted" THEN 0 ELSE 1)
      BY DEF BookInv, SentInv
    <2>2. CASE x # c
      BY <1>7, <2>1, <2>2
    <2>3. CASE x = c
      <3>1. calls[c] = "reserved"
        BY <1>2, <1>4, <2>3 DEF CallCounts
      <3> QED BY <1>7, <2>1, <2>3, <3>1
    <2> QED BY <2>2, <2>3
  <1>12. CallInv'
    <2>1. ASSUME Unshared(p)' PROVE CallCounts(p, c)'
      <3>1. /\ calls[c] = "reserved" /\ thread.used = Cardinality(Made(p))
            /\ \A a \in attempts : a.job \in c.batch => a.number # c.numbers[a.job]
        BY <1>2, <1>4, <1>6, <1>10, <2>1 DEF CallCounts
      <3>2. Made(p)' = Made(p)
        <4>1. c \in Made(p)
          BY <1>4, <3>1 DEF Made, Reserved
        <4> QED BY <1>7, <4>1
      <3>3. thread'.used = Cardinality(Made(p)')
        BY <1>3, <3>1, <3>2
      <3>4. \A a \in attempts' : a.job \in c.batch /\ a.number = c.numbers[a.job] => a.call = c.call
        BY <1>7, <3>1
      <3> QED BY <1>3, <1>5, <1>7, <3>3, <3>4 DEF CallCounts, At
    <2> QED BY <1>3, <1>5, <2>1 DEF CallInv, At
  <1> QED BY <1>8, <1>9, <1>11, <1>12 DEF BookInv

\* The attempt of a call is recorded where none was.
LEMMA RecordedNumbers ==
    ASSUME NEW c \in DOMAIN calls, NEW p, c.plan = p, NEW job \in c.batch, Numbered(job, p),
           \A b \in attempts : b.job = job => b.number # c.numbers[job],
           NEW a, Matches(a, job, c), attempts' = attempts \cup {a}, UNCHANGED calls
    PROVE  Numbered(job, p)'
  <1>1. PICK S, n : S = Asked(job, p) /\ n = Tries(job, p)
    OBVIOUS
  <1>2. Asked(job, p)' = S
    BY <1>1 DEF Asked, Reserved
  <1>3. Tries(job, p)' = n
    BY <1>1, <1>2 DEF Tries
  <1>4. /\ n <= MaxAttempts
        /\ \A r \in S : r.numbers[job] \in 1..n
        /\ \A r, x \in S : r.numbers[job] = x.numbers[job] => r = x
        /\ \A b \in attempts : b.job = job => \E r \in S : Matches(b, job, r)
        /\ \A b, d \in attempts : b.job = job /\ SameAttempt(b, d) => b = d
    BY <1>1 DEF Numbered
  <1>5. c \in S /\ a.job = job /\ a.number = c.numbers[job]
    BY <1>1 DEF Asked, Reserved, Matches
  <1>6. \A b \in attempts' : b.job = job => \E r \in S : Matches(b, job, r)'
    <2>1. \A b, r : Matches(b, job, r)' <=> Matches(b, job, r)
      BY DEF Matches
    <2> QED BY <1>4, <1>5, <2>1
  <1>7. \A b, d \in attempts' : b.job = job /\ SameAttempt(b, d) => b = d
    <2> SUFFICES ASSUME NEW b \in attempts', NEW d \in attempts', b.job = job, SameAttempt(b, d)
                 PROVE  b = d
      BY DEF SameAttempt
    <2>1. b.job = job /\ d.job = job /\ b.number = d.number
      BY DEF SameAttempt
    <2>2. CASE b = a \/ d = a
      BY <1>5, <2>1, <2>2
    <2>3. CASE b # a /\ d # a
      BY <1>4, <2>3
    <2> QED BY <2>2, <2>3
  <1> QED BY <1>2, <1>3, <1>4, <1>6, <1>7 DEF Numbered

\* One more attempt of a kind.
LEMMA CountedOutcome ==
    ASSUME StoreInv, NEW job, NEW a, a.job = job, a \notin attempts,
           attempts' = attempts \cup {a}, NEW outcome
    PROVE  /\ Failed(job, outcome) \in Nat
           /\ Failed(job, outcome)' = Failed(job, outcome)
                                         + (IF a.outcome = outcome THEN 1 ELSE 0)
  <1>1. PICK S : S = AttemptsOf(job, {outcome})
    OBVIOUS
  <1>2. S \in SUBSET attempts /\ a \notin S
    BY <1>1 DEF AttemptsOf
  <1>3. IsFiniteSet(S) /\ Cardinality(S) \in Nat
    BY <1>2, FS_Subset, FS_CardinalityType DEF StoreInv
  <1>4. CASE a.outcome = outcome
    <2>1. AttemptsOf(job, {outcome})' = S \cup {a}
      BY <1>1, <1>4 DEF AttemptsOf
    <2>2. Cardinality(S \cup {a}) = Cardinality(S) + 1
      BY <1>2, <1>3, FS_AddElement
    <2> QED BY <1>1, <1>3, <1>4, <2>1, <2>2 DEF Failed
  <1>5. CASE a.outcome # outcome
    <2>1. AttemptsOf(job, {outcome})' = S
      BY <1>1, <1>5 DEF AttemptsOf
    <2> QED BY <1>1, <1>3, <1>5, <2>1 DEF Failed
  <1> QED BY <1>4, <1>5

LEMMA BookRecords ==
    ASSUME IInv, BookInv, NEW job, NEW outcome \in Outcomes, NEW left, left = thread.reply.left,
           Records(job, outcome, left)
    PROVE  BookInv'
  <1>1. PICK p, c : p = thread.plan /\ c = thread.call
    OBVIOUS
  <1>2. PICK retry \in BOOLEAN : Logged(job, outcome, retry)
    BY DEF Records
  <1>3. PICK a : /\ a = Attempt(job, c, outcome, left)
                 /\ \/ attempts' = {b \in attempts : ~SameAttempt(a, b)} \cup {a}
                    \/ attempts' = attempts \cup {a}
    BY <1>1 DEF Records
  <1>4. /\ a.job = job /\ a.number = c.numbers[job] /\ a.batch = c.batch /\ a.outcome = outcome
        /\ a.call = IF left THEN c.call ELSE 0
    BY <1>3 DEF Attempt
  <1>5. UNCHANGED <<calls, sent>> /\ thread.pc = "record" /\ job \in thread.todo
    BY DEF Records, At
  <1>6. /\ thread'.pc \in {"record", "settle"} /\ thread'.plan = p /\ thread'.call = c
        /\ thread'.used = thread.used /\ thread'.reply.left = thread.reply.left
        /\ thread'.history = [thread.history EXCEPT ![job] = Tried(thread.history[job], outcome)]
        /\ thread'.todo = thread.todo \ {job}
        /\ thread'.pc = "settle" => thread.todo \ {job} = {}
        /\ thread'.reply.kind \in {thread.reply.kind, "withdrawn"}
    BY <1>1, <1>2 DEF Logged
  <1>7. /\ c \in DOMAIN calls /\ c.plan = p /\ c.batch \subseteq p /\ p \in SUBSET Jobs
        /\ Unshared(p) => /\ CallCounts(p, c)
                          /\ \A j \in p : Remembered(j, p) /\ Numbered(j, p)
                          /\ \A b \in attempts :
                                b.job \in Pending \cap c.batch => b.number # c.numbers[b.job]
    BY <1>1, <1>5, PendingFacts DEF InCall
  <1>8. job \in c.batch /\ left \in BOOLEAN
    BY <1>1, <1>5 DEF IInv, ThreadInv
  <1>9. Pending = thread.todo /\ Pending' = thread.todo \ {job}
    BY <1>5, <1>6 DEF Pending, At
  <1>10. Unshared(p)' => Unshared(p)
    BY <1>5 DEF Unshared
  <1>11. \A b : b.job # job => (b \in attempts' <=> b \in attempts)
    BY <1>3, <1>4 DEF SameAttempt
  <1>12. ASSUME Unshared(p)
         PROVE  /\ \A b \in attempts : b.job = job => b.number # c.numbers[job]
                /\ a \notin attempts /\ attempts' = attempts \cup {a}
                /\ Matches(a, job, c)
    <2>1. \A b \in attempts : b.job = job => b.number # c.numbers[job]
      BY <1>5, <1>7, <1>8, <1>9, <1>12
    <2>2. a \notin attempts /\ attempts' = attempts \cup {a}
      BY <1>3, <1>4, <2>1 DEF SameAttempt
    <2>3. ~left => calls[c] = "reserved"
      BY <1>5, <1>7, <1>12 DEF CallCounts
    <2> QED BY <1>4, <2>1, <2>2, <2>3 DEF Matches
  <1>13. ASSUME Unshared(p), NEW j \in p PROVE Numbered(j, p)'
    <2>1. CASE j = job
      BY <1>5, <1>7, <1>8, <1>12, <1>13, <2>1, RecordedNumbers
    <2>2. CASE j # job
      <3>1. Asked(j, p)' = Asked(j, p)
        BY <1>5 DEF Asked, Reserved
      <3>2. \A b \in attempts : \A r \in Asked(j, p) : Matches(b, j, r) => Matches(b, j, r)'
        BY <1>5 DEF Matches
      <3>3. \A b : b.job = j => (b \in attempts' <=> b \in attempts)
        BY <1>11, <2>2
      <3> QED BY <1>7, <1>13, <3>1, <3>2, <3>3, NumberedKept
    <2> QED BY <2>1, <2>2
  <1>14. NumberInv'
    <2>1. DOMAIN calls' = DOMAIN calls \cup {c}
      BY <1>5, <1>7
    <2>2. \A x \in DOMAIN calls \ {c} : calls'[x] = calls[x]
      BY <1>5
    <2>3. \A b : b.job \notin c.batch => (b \in attempts' <=> b \in attempts)
      BY <1>8, <1>11
    <2>4. Unshared(c.plan)' => \A j \in c.plan : Numbered(j, c.plan)'
      BY <1>7, <1>10, <1>13
    <2> QED BY <1>7, <2>1, <2>2, <2>3, <2>4, NumbersKept DEF BookInv
  <1>15. SentInv'
    BY <1>5, SentSame DEF BookInv
  <1>16. HistoryInv'
    <2> SUFFICES ASSUME Unshared(p), NEW j \in p PROVE Remembered(j, p)'
      BY <1>6, <1>10 DEF HistoryInv
    <2>1. Remembered(j, p)
      BY <1>7
    <2>2. Tries(j, p)' = Tries(j, p)
      BY <1>5 DEF Tries, Asked, Reserved
    <2>3. DOMAIN thread.history = p /\ thread.history[j].tried \in Nat
      BY <1>1, <1>5 DEF IInv, ThreadInv, Working, InCall
    <2>4. CASE j # job
      <3>1. thread'.history[j] = thread.history[j]
        BY <1>6, <2>3, <2>4
      <3>2. j \in Pending' <=> j \in Pending
        BY <1>9, <2>4
      <3>3. AttemptsOf(j, {"transient"})' = AttemptsOf(j, {"transient"})
            /\ AttemptsOf(j, {"malformed"})' = AttemptsOf(j, {"malformed"})
        BY <1>11, <2>4 DEF AttemptsOf
      <3>4. Failed(j, "transient")' = Failed(j, "transient")
            /\ Failed(j, "malformed")' = Failed(j, "malformed")
        BY <3>3 DEF Failed
      <3>5. thread'.history[j] = [tried |-> thread'.history[j].tried,
                                  transient |-> Failed(j, "transient")',
                                  malformed |-> Failed(j, "malformed")']
        BY <2>1, <3>1, <3>4 DEF Remembered
      <3>6. Tries(j, p)' = thread'.history[j].tried + (IF j \in Pending' THEN 1 ELSE 0)
        BY <2>1, <2>2, <3>1, <3>2 DEF Remembered
      <3>7. ASSUME j \in Pending'
            PROVE  /\ thread'.call.numbers[j] = Tries(j, p)'
                   /\ \A b \in attempts' : b.job = j => b.number # thread'.call.numbers[j]
        BY <1>1, <1>6, <1>11, <2>1, <2>2, <2>4, <3>2, <3>7 DEF Remembered
      <3> QED BY <3>5, <3>6, <3>7 DEF Remembered
    <2>5. CASE j = job
      <3>1. thread'.history[j] = Tried(thread.history[j], outcome)
        BY <1>6, <2>3, <2>5
      <3>2. j \notin Pending' /\ j \in Pending
        BY <1>5, <1>9, <2>5
      <3>3. /\ Failed(j, "transient")' = Failed(j, "transient")
                                            + (IF outcome = "transient" THEN 1 ELSE 0)
            /\ Failed(j, "malformed")' = Failed(j, "malformed")
                                            + (IF outcome = "malformed" THEN 1 ELSE 0)
        <4>1. StoreInv /\ a.job = job /\ a \notin attempts /\ attempts' = attempts \cup {a}
          BY <1>4, <1>12, <2>5 DEF IInv
        <4>2. \A o : Failed(job, o)' = Failed(job, o) + (IF a.outcome = o THEN 1 ELSE 0)
          BY <4>1, CountedOutcome
        <4> QED BY <1>4, <2>5, <4>2
      <3>4. /\ thread.history[j].transient = Failed(j, "transient")
            /\ thread.history[j].malformed = Failed(j, "malformed")
        BY <2>1 DEF Remembered
      <3>5. thread'.history[j] = [tried |-> thread.history[j].tried + 1,
                                  transient |-> Failed(j, "transient")',
                                  malformed |-> Failed(j, "malformed")']
        BY <3>1, <3>3, <3>4 DEF Tried
      <3>6. thread'.history[j].tried = thread.history[j].tried + 1
        BY <3>5
      <3>7. Tries(j, p)' = thread'.history[j].tried + (IF j \in Pending' THEN 1 ELSE 0)
        BY <2>1, <2>2, <2>3, <3>2, <3>6 DEF Remembered
      <3> QED BY <3>2, <3>5, <3>6, <3>7 DEF Remembered
    <2> QED BY <2>4, <2>5
  <1>17. CallInv'
    <2>1. ASSUME Unshared(p) PROVE CallCounts(p, c)'
      <3>1. Made(p)' = Made(p)
        BY <1>5, CallsKept
      <3>2. CallCounts(p, c)
        BY <1>7, <2>1
      <3>3. CASE left
        <4>1. /\ calls[c] \in {"reserved", "transmitted"}
              /\ thread.used = Cardinality(Made(p))
              /\ \A b \in attempts :
                    b.job \in c.batch /\ b.number = c.numbers[b.job] => b.call = c.call
          BY <1>5, <3>2, <3>3 DEF CallCounts
        <4>2. \A b \in attempts' :
                    b.job \in c.batch /\ b.number = c.numbers[b.job] => b.call = c.call
          BY <1>4, <1>12, <2>1, <3>3, <4>1
        <4> QED BY <1>5, <1>6, <3>1, <3>3, <4>1, <4>2 DEF CallCounts, At
      <3>4. CASE ~left
        <4>1. /\ calls[c] = "reserved" /\ sent[c] = 0
              /\ thread.used + 1 = Cardinality(Made(p))
          BY <1>5, <3>2, <3>4 DEF CallCounts
        <4> QED BY <1>5, <1>6, <3>1, <3>4, <4>1 DEF CallCounts, At
      <3> QED BY <1>8, <3>3, <3>4
    <2>2. (At("record") /\ thread.reply.kind = "items" => thread.reply.left)'
      <3>1. thread.reply.kind = "items" => thread.reply.left
        BY <1>5 DEF BookInv, CallInv, At
      <3> QED BY <1>6, <3>1 DEF At
    <2> QED BY <1>6, <1>10, <2>1, <2>2 DEF CallInv, At
  <1> QED BY <1>14, <1>15, <1>16, <1>17 DEF BookInv

LEMMA BookRecorded ==
    ASSUME IInv, BookInv,
           \/ \E job \in thread.todo : RecordError(job)
           \/ \E job \in thread.todo, kind \in {"refused item", "bad item", "withdrawn"} :
                  RecordItem(job, kind)
           \/ \E job \in thread.todo : Accept(job)
    PROVE  BookInv' /\ (QueueInv => QueueInv')
  <1>1. CASE \E job \in thread.todo : \E kind :
                At("record") /\ Current(job) /\ RecordFailure(job, kind)
    <2>1. PICK job, kind : At("record") /\ Current(job) /\ RecordFailure(job, kind)
      BY <1>1
    <2>2. PICK outcome \in Outcomes : Records(job, outcome, thread.reply.left)
      BY <2>1, FailureRecords
    <2>3. PICK left : left = thread.reply.left
      OBVIOUS
    <2>4. Records(job, outcome, left)
      BY <2>2, <2>3
    <2> QED BY <2>2, <2>3, <2>4, BookRecords, QueueRecords
  <1>2. CASE \E job \in thread.todo : Accept(job)
    <2>1. PICK job : job \in thread.todo /\ Accept(job)
      BY <1>2
    <2>2. PICK left, outcome : left = TRUE /\ outcome = "accepted"
      OBVIOUS
    <2>3. Records(job, outcome, left)
      BY <2>1, <2>2, AcceptRecords
    <2>4. thread.reply.left = TRUE
      <3>1. At("record") /\ thread.reply.kind = "items"
        BY <2>1 DEF Accept
      <3> QED BY <3>1 DEF BookInv, CallInv, IInv, ThreadInv
    <2>5. outcome \in Outcomes /\ left = thread.reply.left
      BY <2>2, <2>4 DEF Outcomes
    <2> QED BY <2>3, <2>5, BookRecords, QueueRecords
  <1>3. \/ \E job \in thread.todo : \E kind :
              At("record") /\ Current(job) /\ RecordFailure(job, kind)
        \/ \E job \in thread.todo : Accept(job)
    BY DEF RecordError, RecordItem
  <1> QED BY <1>1, <1>2, <1>3

\* What a call becomes that was reserved until its attempts are recorded.
Closed(c, left) ==
    IF calls[c] = "reserved" THEN FinalizeCall(c, IF left THEN "unknown" ELSE "not_transmitted")
    ELSE UNCHANGED storeVars

LEMMA ClosedRecords ==
    ASSUME StoreInv, NEW c \in DOMAIN calls, NEW left \in BOOLEAN, Closed(c, left)
    PROVE  /\ DOMAIN calls' = DOMAIN calls /\ attempts' = attempts
           /\ \A x \in DOMAIN calls : x # c => calls'[x] = calls[x]
           /\ calls'[c] = IF calls[c] # "reserved" THEN calls[c]
                          ELSE IF left THEN "unknown" ELSE "not_transmitted"
           /\ left /\ c \in Made(c.plan) => Made(c.plan)' = Made(c.plan)
           /\ ~left /\ calls[c] = "reserved" => Made(c.plan)' = Made(c.plan) \ {c}
  <1>1. CASE calls[c] # "reserved"
    <2>1. UNCHANGED <<calls, attempts>>
      BY <1>1 DEF Closed, storeVars
    <2> QED BY <1>1, <2>1, CallsKept
  <1>2. CASE calls[c] = "reserved" /\ left
    <2>1. FinalizeCall(c, "unknown")
      BY <1>2 DEF Closed
    <2>2. attempts' = attempts
      BY <2>1 DEF FinalizeCall
    <2>3. /\ DOMAIN calls' = DOMAIN calls
          /\ \A x \in DOMAIN calls : calls'[x] = IF x = c THEN "unknown" ELSE calls[x]
          /\ Made(c.plan)' = Made(c.plan) \cup {c}
      BY <2>1, FateNames, FinalizeMade
    <2>4. c \in Made(c.plan) => Made(c.plan)' = Made(c.plan)
      BY <2>3
    <2> QED BY <1>2, <2>2, <2>3, <2>4
  <1>3. CASE calls[c] = "reserved" /\ ~left
    <2>1. FinalizeCall(c, "not_transmitted")
      BY <1>3 DEF Closed
    <2>2. attempts' = attempts
      BY <2>1 DEF FinalizeCall
    <2>3. /\ DOMAIN calls' = DOMAIN calls
          /\ \A x \in DOMAIN calls : calls'[x] = IF x = c THEN "not_transmitted" ELSE calls[x]
          /\ Made(c.plan)' = Made(c.plan) \ {c}
      BY <2>1, FateNames, FinalizeMade
    <2> QED BY <1>3, <2>2, <2>3
  <1> QED BY <1>1, <1>2, <1>3

LEMMA BookSettle == ASSUME IInv, BookInv, Settle PROVE BookInv'
  <1>1. PICK p, c, left : p = thread.plan /\ c = thread.call /\ left = thread.reply.left
    OBVIOUS
  <1>2. Closed(c, left) /\ UNCHANGED sent /\ thread.pc = "settle" /\ thread.pc \in InCall
    BY <1>1 DEF Settle, At, InCall, Closed
  <1>3. /\ c \in DOMAIN calls /\ c.plan = p /\ left \in BOOLEAN
        /\ Unshared(p) => CallCounts(p, c)
    BY <1>1, <1>2, CallFacts, PendingFacts
  <1>4. /\ DOMAIN calls' = DOMAIN calls /\ attempts' = attempts
        /\ \A x \in DOMAIN calls : x # c => calls'[x] = calls[x]
        /\ calls'[c] = IF calls[c] # "reserved" THEN calls[c]
                       ELSE IF left THEN "unknown" ELSE "not_transmitted"
        /\ left /\ c \in Made(p) => Made(p)' = Made(p)
        /\ ~left /\ calls[c] = "reserved" => Made(p)' = Made(p) \ {c}
    BY <1>2, <1>3, ClosedRecords DEF IInv
  <1>5. ASSUME Unshared(p)
        PROVE  IF left
               THEN /\ calls[c] \in {"reserved", "transmitted"}
                    /\ thread.used = Cardinality(Made(p))
                    /\ \A a \in attempts :
                          a.job \in c.batch /\ a.number = c.numbers[a.job] => a.call = c.call
               ELSE /\ calls[c] = "reserved" /\ sent[c] = 0
                    /\ thread.used + 1 = Cardinality(Made(p))
    BY <1>1, <1>2, <1>3, <1>5 DEF CallCounts
  <1>6. Unshared(p)' => Unshared(p)
    BY <1>4 DEF Unshared
  <1>7. NumberInv'
    <2>1. CASE calls[c] # "reserved"
      BY <1>2, <2>1, NumbersSame DEF BookInv, Closed, storeVars
    <2>2. CASE calls[c] = "reserved"
      <3>1. PICK fate : fate = IF left THEN "unknown" ELSE "not_transmitted"
        OBVIOUS
      <3>2. fate \in Fates /\ FinalizeCall(c, fate)
        BY <1>2, <2>2, <3>1, FateNames DEF Closed
      <3>3. Unshared(c.plan) => \A a \in attempts :
              a.job \in c.batch /\ a.number = c.numbers[a.job] =>
                  a.call = c.call \/ fate = "not_transmitted"
        BY <1>3, <1>5, <3>1
      <3> QED BY <1>3, <3>2, <3>3, NumbersFinalized DEF BookInv, IInv
    <2> QED BY <2>1, <2>2
  <1>8. SentInv'
    <2> SUFFICES ASSUME NEW x \in DOMAIN calls, Unshared(x.plan)
                 PROVE  sent[x] <= (IF calls'[x] = "not_transmitted" THEN 0 ELSE 1)
      BY <1>2, <1>4 DEF SentInv, Unshared
    <2>1. sent[x] <= (IF calls[x] = "not_transmitted" THEN 0 ELSE 1)
      BY DEF BookInv, SentInv
    <2>2. CASE x # c
      BY <1>4, <2>1, <2>2
    <2>3. CASE x = c /\ left
      <3>1. calls[c] # "not_transmitted" /\ calls'[c] # "not_transmitted"
        BY <1>3, <1>4, <1>5, <2>3
      <3> QED BY <2>1, <2>3, <3>1
    <2>4. CASE x = c /\ ~left
      <3>1. sent[c] = 0
        BY <1>3, <1>5, <2>4
      <3> QED BY <2>4, <3>1
    <2> QED BY <1>3, <2>2, <2>3, <2>4
  <1>9. CASE Stopping = "none"
    <2>1. /\ thread'.pc = "loop" /\ thread'.plan = p
          /\ thread'.history = thread.history /\ thread'.used = thread.used
      BY <1>1, <1>9, SettledFields
    <2>2. Pending' = {} /\ Pending = {}
      BY <1>2, <2>1 DEF Pending, At
    <2>3. HistoryInv'
      BY <1>1, <1>2, <1>4, <2>1, <2>2, HistoryKept DEF BookInv, Working
    <2>4. CallInv'
      <3>1. ASSUME Unshared(p)' PROVE thread'.used = Cardinality(Made(p)')
        <4>1. Cardinality(Made(p)) \in Nat /\ thread.used \in Nat /\ IsFiniteSet(Made(p))
          BY MadeFinite DEF IInv, ThreadInv
        <4>2. calls[c] # "not_transmitted"
          BY <1>3, <1>5, <1>6, <3>1
        <4>3. c \in Made(p)
          BY <1>3, <4>2 DEF Made, Reserved
        <4>4. CASE left
          <5>1. thread.used = Cardinality(Made(p))
            BY <1>5, <1>6, <3>1, <4>4
          <5> QED BY <1>4, <2>1, <4>3, <4>4, <5>1
        <4>5. CASE ~left
          <5>1. thread.used + 1 = Cardinality(Made(p)) /\ calls[c] = "reserved"
            BY <1>5, <1>6, <3>1, <4>5
          <5>2. Cardinality(Made(p) \ {c}) = Cardinality(Made(p)) - 1
            BY <4>1, <4>3, FS_RemoveElement
          <5>3. Made(p)' = Made(p) \ {c}
            BY <1>4, <4>5, <5>1
          <5> QED BY <2>1, <4>1, <5>1, <5>2, <5>3
        <4> QED BY <1>3, <4>4, <4>5
      <3> QED BY <2>1, <3>1 DEF CallInv, CallCounts, At
    <2> QED BY <1>7, <1>8, <2>3, <2>4 DEF BookInv
  <1>10. CASE Stopping # "none"
    <2>1. \E outcome, mark : Stop(outcome, mark)
      BY <1>10 DEF Settle
    <2> QED BY <1>7, <1>8, <2>1, StopLeaves, BookLeaves
  <1> QED BY <1>9, <1>10

-----------------------------------------------------------------------------
(* Every step. *)

\* The steps that touch neither calls nor attempts and leave no phase at work.
LEMMA BookRests ==
    ASSUME IInv, BookInv,
           Start \/ Crash \/ StopCancelled \/ Drained \/ StopAtLimit
           \/ (\E job \in thread.todo : RollBack(job)) \/ FinishPhase \/ Aggregate \/ Persist
    PROVE  BookInv' /\ (QueueInv => QueueInv')
  <1>1. Leaves
    BY StepLeaves
  <1>2. UNCHANGED <<calls, attempts, sent>>
    <2>1. CASE Start \/ FinishPhase \/ Aggregate \/ Persist
      BY <2>1 DEF Start, FinishPhase, Aggregate, Persist, WriteRow
    <2>2. CASE Crash \/ StopCancelled \/ Drained \/ StopAtLimit
               \/ (\E job \in thread.todo : RollBack(job))
      BY <2>2 DEF Crash, StopCancelled, Drained, StopAtLimit, RollBack, Silent, storeVars
    <2> QED BY <2>1, <2>2
  <1>3. NumberInv' /\ SentInv'
    BY <1>2, NumbersSame, SentSame DEF BookInv
  <1> QED BY <1>1, <1>3, BookLeaves, QueueLeaves

LEMMA BookUnchanged ==
    ASSUME BookInv, QueueInv, UNCHANGED <<calls, attempts, sent, thread>>
    PROVE  BookInv' /\ QueueInv'
  <1>1. NumberInv' /\ SentInv'
    BY NumbersSame, SentSame DEF BookInv
  <1>3. QueueInv'
    <2>1. Untired' = Untired
      BY DEF Untired
    <2> QED BY <2>1 DEF QueueInv, At, Batches, OneEach
  <1>4. Pending' = Pending /\ \A p : (Unshared(p)' <=> Unshared(p)) /\ Made(p)' = Made(p)
    BY CallsKept DEF Pending, At, Unshared
  <1>5. HistoryInv'
    <2>1. CASE thread.pc \in Working
      BY <1>4, <2>1, HistoryKept DEF BookInv
    <2>2. CASE thread.pc \notin Working
      BY <2>2 DEF HistoryInv
    <2> QED BY <2>1, <2>2
  <1>6. CallInv'
    <2>1. ASSUME Unshared(thread.plan), thread.pc \in Working
          PROVE  CallCounts(thread.plan, thread.call)'
      <3>1. CallCounts(thread.plan, thread.call)
        BY <2>1 DEF BookInv, CallInv
      <3>2. Made(thread.plan)' = Made(thread.plan)
        BY <1>4 DEF Made, Reserved
      <3> QED BY <3>1, <3>2 DEF CallCounts, At
    <2> QED BY <1>4, <2>1 DEF BookInv, CallInv, At
  <1> QED BY <1>1, <1>3, <1>5, <1>6 DEF BookInv

LEMMA BookStep == IInv /\ QueueInv /\ BookInv /\ [Next]_vars => QueueInv' /\ BookInv'
  <1> SUFFICES ASSUME IInv, QueueInv, BookInv, [Next]_vars PROVE QueueInv' /\ BookInv'
    OBVIOUS
  <1>1. CASE \/ Start \/ Crash \/ StopCancelled \/ Drained \/ StopAtLimit
             \/ (\E job \in thread.todo : RollBack(job)) \/ FinishPhase \/ Aggregate \/ Persist
    BY <1>1, BookRests
  <1>2. CASE Cancel \/ UNCHANGED vars
    <2>1. UNCHANGED <<calls, attempts, sent, thread>>
      BY <1>2 DEF Cancel, vars, storeVars
    <2> QED BY <2>1, BookUnchanged
  <1>3. CASE Resume
    BY <1>3, QueueResume, BookResume
  <1>4. CASE Reserve
    <2>1. PICK batch : batch = Head(thread.queue)
      OBVIOUS
    <2> QED BY <1>4, <2>1, QueueReserve, BookReserve, BookRegroup
  <1>5. CASE (\E kind \in Failures, left \in BOOLEAN : Fail(kind, left)) \/ Respond
    <2>1. \E kind, left : \E pc \in {"record", "finalize"} : At("submit") /\ Answered(pc, kind, left)
      BY <1>5 DEF Fail, Respond
    <2>2. QueueInv'
      BY <2>1, QueueAnswered
    <2> QED BY <1>5, <2>2, BookAnswers
  <1>6. CASE Interrupt
    BY <1>6, StepLeaves, QueueLeaves, BookInterrupt
  <1>7. CASE \E kind \in ResponseKinds : Finalize(kind)
    BY <1>7, QueueFinalize, BookFinalize
  <1>8. CASE \/ \E job \in thread.todo : RecordError(job)
             \/ \E job \in thread.todo, kind \in {"refused item", "bad item", "withdrawn"} :
                    RecordItem(job, kind)
             \/ \E job \in thread.todo : Accept(job)
    BY <1>8, BookRecorded
  <1>9. CASE Settle
    BY <1>9, QueueSettle, BookSettle
  <1> QED BY <1>1, <1>2, <1>3, <1>4, <1>5, <1>6, <1>7, <1>8, <1>9 DEF Next, ThreadStep

LEMMA Books == Spec => [](IInv /\ QueueInv /\ BookInv)
  <1>1. Init => QueueInv /\ BookInv
    BY BookInit
  <1> QED BY <1>1, InitInv, StepInv, BookStep, PTL DEF Spec

\* A reservation of jobs that are no other plan's stands for at most one request, for none once it
\* is on record as not transmitted; and the job ceiling bounds how often a job is really sent.
THEOREM SentCallsAreCharged == Spec => []SentIsCharged
  <1>1. IInv /\ BookInv => SentIsCharged
    <2> SUFFICES ASSUME IInv, BookInv, NEW r \in DOMAIN calls, Unshared(r.plan)
                 PROVE  /\ sent[r] <= (IF calls[r] = "not_transmitted" THEN 0 ELSE 1)
                        /\ \A j \in r.batch :
                              Cardinality({x \in Reserved(r.plan) : j \in x.batch /\ sent[x] > 0})
                                 <= MaxAttempts
      BY DEF SentIsCharged
    <2>1. sent[r] <= (IF calls[r] = "not_transmitted" THEN 0 ELSE 1)
      BY DEF BookInv, SentInv
    <2>2. ASSUME NEW j \in r.batch
          PROVE  Cardinality({x \in Reserved(r.plan) : j \in x.batch /\ sent[x] > 0}) <= MaxAttempts
      <3>1. PICK p, S, T : /\ p = r.plan /\ S = Asked(j, p)
                           /\ T = {x \in Reserved(p) : j \in x.batch /\ sent[x] > 0}
        OBVIOUS
      <3>2. p \in SUBSET Jobs /\ j \in p
        BY <2>2, <3>1 DEF IInv, StoreInv, ReservationOK
      <3>3. Numbered(j, p)
        BY <3>1, <3>2 DEF BookInv, NumberInv
      <3>4. IsFiniteSet(S) /\ Cardinality(S) \in Nat /\ Cardinality(S) <= MaxAttempts
        BY <3>1, <3>3, AskedFinite DEF IInv, Numbered, Tries
      <3>5. T \in SUBSET S
        BY <3>1 DEF Asked
      <3>6. IsFiniteSet(T) /\ Cardinality(T) <= Cardinality(S)
        BY <3>4, <3>5, FS_Subset
      <3>7. Cardinality(T) \in Nat /\ MaxAttempts \in Nat
        BY <3>6, FS_CardinalityType, PolicyAssumption
      <3> QED BY <3>1, <3>4, <3>6, <3>7
    <2> QED BY <2>1, <2>2
  <1> QED BY <1>1, Books, PTL

\* Between two calls the counters of the running phase are those a restart would read back.
THEOREM RestartReadsCounters == Spec => []ResumeAgrees
  <1>1. IInv /\ BookInv => ResumeAgrees
    <2> SUFFICES ASSUME IInv, BookInv, At("loop"), Unshared(thread.plan) PROVE CountersAgree
      BY DEF ResumeAgrees
    <2>1. PICK p : p = thread.plan
      OBVIOUS
    <2>2. /\ p \in SUBSET Jobs /\ Pending = {} /\ thread.pc \in Working
          /\ \A j \in p : thread.history[j].tried \in Nat
      BY <2>1 DEF IInv, ThreadInv, Pending, At, Working
    <2>3. \A j \in p : Numbered(j, p)
      BY <2>1, <2>2 DEF BookInv, NumberInv
    <2>4. thread.used = Charged(p)
      <3>1. Charged(p) = Cardinality(Made(p))
        BY <2>3, ChargedIs DEF IInv
      <3>2. thread.used = Cardinality(Made(p))
        BY <2>1, <2>2 DEF BookInv, CallInv, CallCounts
      <3> QED BY <3>1, <3>2
    <2>5. ASSUME NEW j \in p PROVE thread.history[j] = HistoryOf(j, p)
      <3>1. HistoryOf(j, p).tried = Tries(j, p) /\ Tries(j, p) \in Nat
        BY <2>3, HistoryIs, AskedFinite DEF IInv
      <3>2. Remembered(j, p)
        BY <2>1, <2>2 DEF BookInv, HistoryInv
      <3>3. Tries(j, p) = thread.history[j].tried
        <4>1. Tries(j, p) = thread.history[j].tried + 0
          BY <2>2, <3>2 DEF Remembered
        <4> QED BY <2>2, <4>1
      <3>4. thread.history[j] = [tried |-> Tries(j, p), transient |-> Failed(j, "transient"),
                                 malformed |-> Failed(j, "malformed")]
        BY <3>2, <3>3 DEF Remembered
      <3>5. HistoryOf(j, p) = [tried |-> HistoryOf(j, p).tried,
                               transient |-> Failed(j, "transient"),
                               malformed |-> Failed(j, "malformed")]
        BY DEF HistoryOf, Failed
      <3> QED BY <3>1, <3>4, <3>5
    <2> QED BY <2>1, <2>4, <2>5 DEF CountersAgree
  <1> QED BY <1>1, Books, PTL
=============================================================================
