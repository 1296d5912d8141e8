----------------------------- MODULE SweepChain -----------------------------
(***************************************************************************)
(* The overlap guard of nd-rating-sync in time: the scheduler callbacks of *)
(* several chains of continuations, which Navidrome may run side by side,  *)
(* and the heartbeat in the KV store that keeps a second sweep from        *)
(* starting.  Reading the record and writing it are separate steps.  What  *)
(* a callback does with songs is the subject of RatingSync.                *)
(*                                                                         *)
(* Ages, not dates, are kept, so that time may pass without a bound.       *)
(***************************************************************************)
EXTENDS Naturals

CONSTANTS
    Chains,            \* slots for sweeps under way
    CallLimit,         \* Navidrome ends a call after this time
    RetryDelay,        \* retryDelaySeconds
    Lag,               \* how late the scheduler may run a callback
    SweepStaleAfter,   \* when a heartbeat counts no more
    MaxPairAttempts,   \* maxPairAttempts
    MaxFaults,         \* bound on failures and changes of the configuration
    None

VARIABLES
    record,      \* sweep-active: age of the heartbeat, interrupted?
    pc,          \* what each chain is doing
    clock,       \* time since its call began, or since it was queued
    delay,       \* the delay it was queued with
    configured,  \* is any library configured?
    faults

vars == <<record, pc, clock, delay, configured, faults>>

(* 30 s + 30 s + 30 s and the lag stay below two minutes: the longest time *)
(* between two heartbeats of a chain.                                      *)
ASSUME TimingAssumption ==
    /\ CallLimit \in Nat /\ RetryDelay \in Nat /\ Lag \in Nat
    /\ SweepStaleAfter \in Nat
    /\ CallLimit + RetryDelay + Lag + CallLimit < SweepStaleAfter

ASSUME AttemptsAssumption == MaxPairAttempts \in Nat \ {0} /\ MaxFaults \in Nat

ASSUME NoneAssumption == None \notin [age: Nat, interrupted: BOOLEAN]

InCall == {"look", "claim", "resume", "work", "done", "refused", "stop"}
InSweep == {"claim", "resume", "work", "done", "refused", "queued"}
Triggered == {"look", "claim", "stop"}

\* The chain has taken up a sweep and not yet ended it.
Alive(c) == pc[c] \in InSweep

-----------------------------------------------------------------------------
(* The sweep record *)

\* Mutant: the age of the heartbeat is not looked at.
ActiveForEver(r) == r # None /\ ~r.interrupted

Active(r) == r # None /\ ~r.interrupted /\ r.age < SweepStaleAfter

Heartbeat == [age |-> 0, interrupted |-> FALSE]

\* An interrupted record is never active, whatever its age.
Interrupted == [age |-> SweepStaleAfter, interrupted |-> TRUE]

\* Mutant: the delay grows with the attempts.
Backoff(retry) == retry * retry * RetryDelay

Delay(retry) == IF retry > 0 THEN RetryDelay ELSE 0

-----------------------------------------------------------------------------
Init ==
    /\ record = None
    /\ pc = [c \in Chains |-> "idle"]
    /\ clock = [c \in Chains |-> 0]
    /\ delay = [c \in Chains |-> 0]
    /\ configured = TRUE
    /\ faults = 0

Goto(c, from, to) == pc[c] \in from /\ pc' = [pc EXCEPT ![c] = to]

Fault == faults < MaxFaults /\ faults' = faults + 1

quiet == <<clock, delay, configured, faults>>

(* The cron fires, or the run right after a load is due. *)
Trigger(c) ==
    /\ Goto(c, {"idle"}, "look")
    /\ clock' = [clock EXCEPT ![c] = 0]
    /\ UNCHANGED <<record, delay, configured, faults>>

\* A sweep is already in progress: skip this run.
Busy(c) ==
    /\ configured /\ Active(record)
    /\ Goto(c, {"look"}, "idle")
    /\ UNCHANGED <<record, quiet>>

\* No sweep is active.  The heartbeat is not written yet.
Claim(c) ==
    /\ configured /\ ~Active(record)
    /\ Goto(c, {"look"}, "claim")
    /\ UNCHANGED <<record, quiet>>

\* No libraries are configured; MarkSweepInterrupted reads the record.
Unconfigured(c) ==
    /\ ~configured
    /\ Goto(c, {"look", "resume"}, IF record = None THEN "idle" ELSE "stop")
    /\ UNCHANGED <<record, quiet>>

\* MarkSweepInterrupted stores what it read.
StoreInterrupted(c) ==
    /\ Goto(c, {"stop", "refused"}, "idle")
    /\ record' = Interrupted
    /\ UNCHANGED quiet

\* Mutant: only the first callback of a sweep writes the heartbeat.
MarkOnce(c) ==
    /\ Goto(c, {"claim", "resume"}, "work")
    /\ record' = IF pc[c] = "claim" THEN Heartbeat ELSE record
    /\ UNCHANGED quiet

\* MarkSweepActive at the start of a callback.
Mark(c) ==
    /\ Goto(c, {"claim", "resume"}, "work")
    /\ record' = Heartbeat
    /\ UNCHANGED quiet

\* MarkSweepActive at the start of a song page.
MarkPage(c) ==
    /\ Goto(c, {"work"}, "work")
    /\ record' = Heartbeat
    /\ UNCHANGED quiet

\* The heartbeat cannot be stored; the sweep goes on.
MarkFails(c) ==
    /\ Goto(c, {"claim", "resume", "work"}, "work")
    /\ Fault
    /\ UNCHANGED <<record, clock, delay, configured>>

\* The budget is used up, or a page failed: queue a continuation.
Reschedule(c) ==
    /\ Goto(c, {"work"}, "queued")
    /\ clock' = [clock EXCEPT ![c] = 0]
    /\ \E retry \in 0..(MaxPairAttempts - 1) :
           delay' = [delay EXCEPT ![c] = Delay(retry)]
    /\ UNCHANGED <<record, configured, faults>>

\* The host refuses the continuation.
Refused(c) ==
    /\ Goto(c, {"work"}, "refused")
    /\ Fault
    /\ UNCHANGED <<record, clock, delay, configured>>

\* Navidrome runs the continuation, at its time or somewhat later.
Continue(c) ==
    /\ clock[c] >= delay[c]
    /\ Goto(c, {"queued"}, "resume")
    /\ clock' = [clock EXCEPT ![c] = 0]
    /\ UNCHANGED <<record, delay, configured, faults>>

\* All pairs are done; the record is still there.
Complete(c) ==
    /\ Goto(c, {"work"}, "done")
    /\ UNCHANGED <<record, quiet>>

\* ClearSweepActive; a failed delete stores a record that is not active.
Clear(c) ==
    /\ Goto(c, {"done"}, "idle")
    /\ \/ record' = None /\ UNCHANGED faults
       \/ record' \in {Interrupted, record} /\ Fault
    /\ UNCHANGED <<clock, delay, configured>>

\* A panic, no memory left, or the limit of the call.
Crash(c) ==
    /\ Goto(c, InCall, "idle")
    /\ Fault
    /\ UNCHANGED <<record, clock, delay, configured>>

\* OnInit: every callback and the queue are gone.
Reload ==
    /\ Fault
    /\ pc' = [c \in Chains |-> "idle"]
    /\ record' = IF record = None THEN None ELSE Interrupted
    /\ UNCHANGED <<clock, delay, configured>>

\* The administrator removes all libraries, or adds the first one.
Configure ==
    /\ Fault
    /\ configured' = ~configured
    /\ UNCHANGED <<record, pc, clock, delay>>

\* Time passes.  A call ends at its limit and no continuation is overdue.
Tick ==
    /\ \A c \in Chains :
           /\ pc[c] \in InCall => clock[c] < CallLimit
           /\ pc[c] = "queued" => clock[c] < delay[c] + Lag
    /\ clock' = [c \in Chains |->
                    IF pc[c] = "idle" THEN clock[c] ELSE clock[c] + 1]
    /\ record' = IF record = None THEN None
                 ELSE IF record.age < SweepStaleAfter
                      THEN [record EXCEPT !.age = @ + 1] ELSE record
    /\ UNCHANGED <<pc, delay, configured, faults>>

-----------------------------------------------------------------------------
Advance(c) ==
    \/ Busy(c) \/ Claim(c) \/ Unconfigured(c) \/ StoreInterrupted(c)
    \/ Mark(c) \/ MarkPage(c) \/ Reschedule(c) \/ Continue(c)
    \/ Complete(c) \/ Clear(c)

Fails(c) == Refused(c) \/ Crash(c)

(* Two triggers are not handled at the same instant, and libraries are     *)
(* removed or added between sweeps.                                        *)
Apart(c) == \A d \in Chains \ {c} : pc[d] \notin Triggered
Between == \A c \in Chains : ~Alive(c)

Next ==
    \/ \E c \in Chains :
          \/ Apart(c) /\ Trigger(c)
          \/ Advance(c) \/ Fails(c)
    \/ Reload
    \/ Between /\ Configure
    \/ Tick

Spec == Init /\ [][Next]_vars

\* Triggers race, heartbeats get lost, libraries go at any time.
WildNext ==
    \/ \E c \in Chains : Trigger(c) \/ Advance(c) \/ Fails(c) \/ MarkFails(c)
    \/ Reload
    \/ Configure
    \/ Tick

(* Time passes, the cron keeps firing, and a callback that Navidrome runs  *)
(* gets on, hands over or is ended.                                        *)
Fairness ==
    /\ WF_vars(Tick)
    /\ \A c \in Chains : WF_vars(Trigger(c)) /\ WF_vars(Advance(c))

FairWildSpec == Init /\ [][WildNext]_vars /\ Fairness

-----------------------------------------------------------------------------
(* Properties *)

ChainTypeOK ==
    /\ record \in [age: 0..SweepStaleAfter, interrupted: BOOLEAN] \union {None}
    /\ pc \in [Chains -> {"idle", "queued"} \union InCall]
    /\ clock \in [Chains -> Nat]
    /\ delay \in [Chains -> 0..RetryDelay]
    /\ configured \in BOOLEAN
    /\ faults \in Nat

(* The guard keeps a second sweep from starting while the first one works, *)
(* waits for its continuation or waits to retry a page.                    *)
(* (types.go:106-110,229-235, kv_store.go:145-148; FEATURES.md, overlap    *)
(* guard.)                                                                 *)
OneChain == \A c, d \in Chains : Alive(c) /\ Alive(d) => c = d

\* The sweep under way, and whether a callback of it is running.
Holder == {c \in Chains : Alive(c)}
Working == \E c \in Holder : pc[c] # "queued"

Lock == INSTANCE SweepLock WITH holder <- Holder, working <- Working

(* The record with its heartbeat works like a lock that a sweep holds from  *)
(* its first callback to its last, over retries and hand-overs: it is taken *)
(* only when free and never changes hands.                                  *)
(* (types.go:101-110,215-255; FEATURES.md, overlap guard.)                  *)
ImplementsLock == Lock!Spec

(* The guard never blocks for good: whatever crashed, was refused, was     *)
(* reloaded or could not be stored, sweeps keep being taken up, even after *)
(* chains have raced.  (types.go:229-250, kv_store.go:127-135.)            *)
SweepsGoOn == <>[]configured => []<>(\E c \in Chains : pc[c] = "work")

-----------------------------------------------------------------------------
(* The inductive invariant behind OneChain.  That a trigger finds the      *)
(* record of a live sweep active depends on how old a heartbeat can be at  *)
(* each point of a chain, which is what Guarded bounds.                    *)

\* How old the heartbeat can be when the call, or the wait, begins.
Slack(c) ==
    CASE pc[c] = "queued" -> CallLimit
      [] pc[c] = "resume" -> CallLimit + RetryDelay + Lag
      [] OTHER -> 0

\* A live sweep has a heartbeat that is young enough.
Guarded(c) ==
    Alive(c) /\ pc[c] # "claim" =>
        /\ record # None /\ ~record.interrupted
        /\ record.age <= clock[c] + Slack(c)

ClockBound(c) ==
    /\ pc[c] \in InCall => clock[c] <= CallLimit
    /\ pc[c] = "queued" => clock[c] <= delay[c] + Lag

\* A trigger that is about to write has the store for itself.
Alone(c) ==
    \A d \in Chains \ {c} :
        /\ pc[c] \in Triggered => pc[d] \notin Triggered
        /\ pc[c] \in {"claim", "stop"} => ~Alive(d)
        /\ Alive(c) => ~Alive(d)

GuardInv ==
    /\ ChainTypeOK
    /\ \A c \in Chains : Guarded(c) /\ ClockBound(c) /\ Alone(c)
    /\ \A c \in Chains : Alive(c) => configured

=============================================================================
