----------------------------- MODULE CallLedger -----------------------------
(***************************************************************************)
(* What the durable repository promises about provider calls, without its  *)
(* leases, statuses, ceilings and transactions.  Every job has a ledger of *)
(* calls that only grows; a call is made again only if it is known not to  *)
(* have left or if the user granted one repetition of it; a job whose      *)
(* outcome is published makes no further call, nor does one whose run is   *)
(* closed by cancellation.                                                 *)
(***************************************************************************)
EXTENDS Naturals, Sequences

CONSTANTS Runs, Jobs, RunOf, PrimaryKinds, ContinuationKinds, Outcomes, NoOutcome

VARIABLES
    calls,      \* the ledger of each job: its calls in order
    granted,    \* the call of each job whose repetition the user granted, or 0
    outcome,    \* what is published for each job
    closed      \* whether each run is cancelled

ledgerVars == <<calls, granted, outcome, closed>>

Fate == {"open", "unsent", "uncertain", "answered"}
Call == [kind : PrimaryKinds \cup ContinuationKinds, fate : Fate, repeats : Nat]

Last(j) == calls[j][Len(calls[j])]
LastIs(j, fate) == calls[j] # <<>> /\ Last(j).fate = fate
New(kind, repeats) == [kind |-> kind, fate |-> "open", repeats |-> repeats]

LedgerInit ==
    /\ calls = [j \in Jobs |-> <<>>]
    /\ granted = [j \in Jobs |-> 0]
    /\ outcome = [j \in Jobs |-> NoOutcome]
    /\ closed = [r \in Runs |-> FALSE]

\* The call a job may make next, and which granted call it repeats (0: none).
MayCall(j, kind, repeats) ==
    \/ calls[j] = <<>> /\ kind \in PrimaryKinds /\ repeats = 0
    \/ LastIs(j, "unsent") /\ kind = Last(j).kind /\ repeats = Last(j).repeats
    \/ /\ LastIs(j, "uncertain") /\ kind = Last(j).kind
       /\ granted[j] = Len(calls[j]) /\ repeats = Len(calls[j])
    \/ /\ LastIs(j, "answered") /\ kind \in ContinuationKinds /\ repeats = 0
       /\ \A o \in DOMAIN calls[j] :
             calls[j][o].kind \in ContinuationKinds => calls[j][o].fate # "answered"

MakeCall(j, kind, repeats) ==
    /\ ~closed[RunOf[j]] /\ outcome[j] = NoOutcome
    /\ MayCall(j, kind, repeats)
    /\ calls' = [calls EXCEPT ![j] = Append(@, New(kind, repeats))]
    /\ UNCHANGED <<granted, outcome, closed>>

\* An open call is settled for good, except that an answer may be lost later.
MaySettle(before, after) ==
    \/ before = "open" /\ after \in Fate \ {"open"}
    \/ before = "answered" /\ after = "uncertain"

\* Recovery settles the last calls of several jobs at once.
Settle(S, fate) ==
    /\ \A j \in S : calls[j] # <<>> /\ MaySettle(Last(j).fate, fate[j])
    /\ calls' = [j \in Jobs |->
                   IF j \in S THEN [calls[j] EXCEPT ![Len(calls[j])].fate = fate[j]]
                   ELSE calls[j]]
    /\ UNCHANGED <<granted, outcome, closed>>

Grant(j) ==
    /\ ~closed[RunOf[j]]
    /\ LastIs(j, "uncertain") /\ granted[j] = 0
    /\ granted' = [granted EXCEPT ![j] = Len(calls[j])]
    /\ UNCHANGED <<calls, outcome, closed>>

Publish(j, result) ==
    /\ ~closed[RunOf[j]]
    /\ outcome[j] = NoOutcome
    /\ ~LastIs(j, "open")
    /\ outcome' = [outcome EXCEPT ![j] = result]
    /\ UNCHANGED <<calls, granted, closed>>

Close(r) ==
    /\ closed' = [closed EXCEPT ![r] = TRUE]
    /\ UNCHANGED <<calls, granted, outcome>>

LedgerNext ==
    \/ \E j \in Jobs, kind \in PrimaryKinds \cup ContinuationKinds :
          \E repeats \in 0..Len(calls[j]) : MakeCall(j, kind, repeats)
    \/ \E S \in SUBSET Jobs, fate \in [Jobs -> Fate] : Settle(S, fate)
    \/ \E j \in Jobs : Grant(j)
    \/ \E j \in Jobs, result \in Outcomes : Publish(j, result)
    \/ \E r \in Runs : Close(r)

LedgerSpec == LedgerInit /\ [][LedgerNext]_ledgerVars
=============================================================================
