-------------------------- MODULE SweepChainProofs --------------------------
(***************************************************************************)
(* The overlap guard of SweepChain works for every number of chains and    *)
(* all times that satisfy TimingAssumption.                                *)
(***************************************************************************)
EXTENDS SweepChain, TLAPS

-----------------------------------------------------------------------------
(* The heartbeat of a live sweep *)

\* No heartbeat is as old as SweepStaleAfter while its sweep is alive.
LEMMA LiveIsActive ==
    ASSUME GuardInv, NEW c \in Chains, Alive(c), pc[c] # "claim"
    PROVE  Active(record)
<1>1. /\ record # None /\ ~record.interrupted
      /\ record.age <= clock[c] + Slack(c)
      /\ ClockBound(c)
  BY DEF GuardInv, Guarded
<1>2. record.age \in Nat /\ clock[c] \in Nat /\ delay[c] \in 0..RetryDelay
  BY <1>1, TimingAssumption DEF GuardInv, ChainTypeOK
<1>3. CASE pc[c] = "queued"
  <2>1. record.age <= clock[c] + CallLimit /\ clock[c] <= delay[c] + Lag
    BY <1>1, <1>3 DEF Slack, ClockBound
  <2> QED
    BY <1>1, <1>2, <2>1, TimingAssumption DEF Active
<1>4. CASE pc[c] = "resume"
  <2>1. /\ record.age <= clock[c] + (CallLimit + RetryDelay + Lag)
        /\ clock[c] <= CallLimit
    BY <1>1, <1>4 DEF Slack, ClockBound, InCall
  <2> QED
    BY <1>1, <1>2, <2>1, TimingAssumption DEF Active
<1>5. CASE pc[c] \notin {"queued", "resume"}
  <2>1. record.age <= clock[c] + 0 /\ clock[c] <= CallLimit
    BY <1>1, <1>5 DEF Slack, ClockBound, Alive, InSweep, InCall
  <2> QED
    BY <1>1, <1>2, <2>1, TimingAssumption DEF Active
<1> QED
  BY <1>3, <1>4, <1>5

\* A trigger that finds no active sweep is the only one to take one up.
LEMMA NoOtherAlive ==
    ASSUME GuardInv, NEW c \in Chains, pc[c] = "look", ~Active(record),
           NEW d \in Chains
    PROVE  ~Alive(d)
<1>1. CASE d = c
  BY <1>1 DEF Alive, InSweep
<1>2. CASE d # c
  <2>1. pc[d] \notin Triggered
    BY <1>2 DEF GuardInv, Alone, Triggered
  <2> QED
    BY <2>1, LiveIsActive DEF Triggered
<1> QED
  BY <1>1, <1>2

-----------------------------------------------------------------------------
(* Types *)

LEMMA TypeInit == Init => ChainTypeOK
BY TimingAssumption DEF Init, ChainTypeOK

LEMMA TypeStep == ChainTypeOK /\ [Next]_vars => ChainTypeOK'
<1> SUFFICES ASSUME ChainTypeOK, [Next]_vars PROVE ChainTypeOK'
  OBVIOUS
<1>1. /\ Heartbeat \in [age: 0..SweepStaleAfter, interrupted: BOOLEAN]
      /\ Interrupted \in [age: 0..SweepStaleAfter, interrupted: BOOLEAN]
      /\ \A retry : Delay(retry) \in 0..RetryDelay
  BY TimingAssumption DEF Heartbeat, Interrupted, Delay
<1>2. ASSUME NEW c \in Chains, Trigger(c) PROVE ChainTypeOK'
  BY <1>2 DEF Trigger, Goto, ChainTypeOK, InCall
<1>3. ASSUME NEW c \in Chains, Advance(c) PROVE ChainTypeOK'
  <2>1. CASE Busy(c) \/ Claim(c) \/ Unconfigured(c) \/ Complete(c)
    BY <2>1 DEF Busy, Claim, Unconfigured, Complete, Goto, ChainTypeOK, InCall, quiet
  <2>2. CASE StoreInterrupted(c) \/ Mark(c) \/ MarkPage(c)
    BY <2>2, <1>1
       DEF StoreInterrupted, Mark, MarkPage, Goto, ChainTypeOK, InCall, quiet
  <2>3. CASE Reschedule(c)
    BY <2>3, <1>1 DEF Reschedule, Goto, ChainTypeOK
  <2>4. CASE Continue(c)
    BY <2>4 DEF Continue, Goto, ChainTypeOK, InCall
  <2>5. CASE Clear(c)
    BY <2>5, <1>1 DEF Clear, Goto, Fault, ChainTypeOK
  <2> QED
    BY <1>3, <2>1, <2>2, <2>3, <2>4, <2>5 DEF Advance
<1>4. ASSUME NEW c \in Chains, Fails(c) PROVE ChainTypeOK'
  BY <1>4 DEF Fails, Refused, Crash, Goto, Fault, ChainTypeOK, InCall
<1>5. CASE Reload
  BY <1>5, <1>1 DEF Reload, Fault, ChainTypeOK
<1>6. CASE Configure
  BY <1>6 DEF Configure, Fault, ChainTypeOK
<1>7. CASE Tick
  <2>1. record' \in [age: 0..SweepStaleAfter, interrupted: BOOLEAN]
                    \union {None}
    BY <1>7, TimingAssumption DEF Tick, ChainTypeOK
  <2> QED
    BY <1>7, <2>1 DEF Tick, ChainTypeOK
<1>8. CASE UNCHANGED vars
  BY <1>8 DEF vars, ChainTypeOK
<1> QED
  BY <1>2, <1>3, <1>4, <1>5, <1>6, <1>7, <1>8 DEF Next

-----------------------------------------------------------------------------
(* The chains one by one: what a step of c leaves to the others *)

Others(c) ==
    \A d \in Chains \ {c} :
        pc'[d] = pc[d] /\ clock'[d] = clock[d] /\ delay'[d] = delay[d]

\* The records that the others may be left with.
SafeFor(c) ==
    \/ record' = record
    \/ record' = Heartbeat
    \/ \A d \in Chains \ {c} : ~Alive(d)

LEMMA HeartbeatIsRecord == Heartbeat # None
<1>1. Heartbeat \in [age: Nat, interrupted: BOOLEAN]
  BY DEF Heartbeat
<1> QED
  BY <1>1, NoneAssumption

LEMMA OthersGuarded ==
    ASSUME GuardInv, NEW c \in Chains, Others(c), SafeFor(c),
           NEW d \in Chains \ {c}
    PROVE  Guarded(d)' /\ ClockBound(d)'
<1>1. pc'[d] = pc[d] /\ clock'[d] = clock[d] /\ delay'[d] = delay[d]
  BY DEF Others
<1>2. ClockBound(d)'
  BY <1>1 DEF GuardInv, ClockBound
<1>3. Guarded(d) /\ clock[d] \in Nat /\ Slack(d)' = Slack(d)
      /\ Slack(d) \in Nat
  BY <1>1, TimingAssumption DEF GuardInv, ChainTypeOK, Slack
<1>4. CASE record' = record
  BY <1>1, <1>2, <1>3, <1>4 DEF Guarded, Alive
<1>5. CASE record' = Heartbeat
  <2>1. record' # None
    BY <1>5, HeartbeatIsRecord
  <2> QED
    BY <1>1, <1>2, <1>3, <1>5, <2>1 DEF Guarded, Alive, Heartbeat
<1>6. CASE ~Alive(d)
  BY <1>1, <1>2, <1>6 DEF Guarded, Alive
<1> QED
  BY <1>4, <1>5, <1>6 DEF SafeFor

\* A step of c keeps the sweeps apart if it does not make c a trigger, or
\* take up a sweep, next to another one.
LEMMA StillAlone ==
    ASSUME GuardInv, NEW c \in Chains, Others(c),
           \/ Alive(c)' => Alive(c)
           \/ pc[c] \in Triggered /\ \A d \in Chains \ {c} : ~Alive(d),
           pc'[c] \in Triggered =>
               pc[c] \in Triggered \/ Apart(c),
           pc'[c] \in {"claim", "stop"} => \A d \in Chains \ {c} : ~Alive(d)
    PROVE  \A d \in Chains : Alone(d)'
<1>1. \A d \in Chains \ {c} : pc'[d] = pc[d] /\ (Alive(d)' <=> Alive(d))
  BY DEF Others, Alive
<1>2. \A d, e \in Chains : d # e =>
         /\ pc[d] \in Triggered => pc[e] \notin Triggered
         /\ pc[d] \in {"claim", "stop"} => ~Alive(e)
         /\ Alive(d) => ~Alive(e)
  BY DEF GuardInv, Alone
<1>3. Alone(c)'
  <2> SUFFICES ASSUME NEW d \in Chains \ {c}
               PROVE  /\ pc'[c] \in Triggered => pc'[d] \notin Triggered
                      /\ pc'[c] \in {"claim", "stop"} => ~Alive(d)'
                      /\ Alive(c)' => ~Alive(d)'
    BY DEF Alone
  <2> QED
    BY <1>1, <1>2 DEF Apart
<1>4. ASSUME NEW d \in Chains \ {c} PROVE Alone(d)'
  <2> SUFFICES ASSUME NEW e \in Chains \ {d}
               PROVE  /\ pc'[d] \in Triggered => pc'[e] \notin Triggered
                      /\ pc'[d] \in {"claim", "stop"} => ~Alive(e)'
                      /\ Alive(d)' => ~Alive(e)'
    BY DEF Alone
  <2>1. CASE e # c
    BY <1>1, <1>2, <2>1
  <2>2. CASE e = c
    <3>1. pc'[d] \in Triggered => pc'[c] \notin Triggered
      BY <1>1, <1>2 DEF Apart
    <3>2. Alive(d)' => ~Alive(c)'
      BY <1>1, <1>2
    <3>3. pc'[d] \in {"claim", "stop"} => ~Alive(c)'
      BY <1>1, <1>2 DEF Triggered
    <3> QED
      BY <2>2, <3>1, <3>2, <3>3
  <2> QED
    BY <2>1, <2>2
<1> QED
  BY <1>3, <1>4

-----------------------------------------------------------------------------
(* Every step preserves the invariant *)

LEMMA TriggerInv ==
    ASSUME GuardInv, ChainTypeOK', NEW c \in Chains, Apart(c), Trigger(c)
    PROVE  GuardInv'
<1>1. /\ pc[c] = "idle" /\ pc' = [pc EXCEPT ![c] = "look"]
      /\ clock' = [clock EXCEPT ![c] = 0]
      /\ delay' = delay /\ record' = record /\ configured' = configured
  BY DEF Trigger, Goto
<1>2. Others(c) /\ SafeFor(c) /\ pc'[c] = "look" /\ clock'[c] = 0
  BY <1>1 DEF Others, SafeFor, GuardInv, ChainTypeOK
<1>3. ~Alive(c)'
  BY <1>2 DEF Alive, InSweep
<1>4. \A d \in Chains : Alone(d)'
  BY <1>2, <1>3, StillAlone
<1>5. Guarded(c)' /\ ClockBound(c)'
  BY <1>2, <1>3, TimingAssumption DEF Guarded, ClockBound
<1>6. \A d \in Chains : Alive(d)' => configured'
  BY <1>1, <1>2, <1>3 DEF Others, Alive, GuardInv
<1> QED
  BY <1>2, <1>4, <1>5, <1>6, OthersGuarded DEF GuardInv

LEMMA AdvanceInv ==
    ASSUME GuardInv, ChainTypeOK', NEW c \in Chains, Advance(c)
    PROVE  GuardInv'
<1>1. /\ Guarded(c) /\ ClockBound(c) /\ (Alive(c) => configured)
      /\ pc \in [Chains -> {"idle", "queued"} \union InCall]
      /\ clock \in [Chains -> Nat] /\ delay \in [Chains -> 0..RetryDelay]
      /\ pc[c] \in {"claim", "stop"} \/ Alive(c)
            => \A d \in Chains \ {c} : ~Alive(d)
  BY DEF GuardInv, ChainTypeOK, Alone
<1>2. SUFFICES /\ Others(c) /\ SafeFor(c) /\ configured' = configured
               /\ Guarded(c)' /\ ClockBound(c)'
               /\ Alive(c)' => configured
               /\ \/ Alive(c)' => Alive(c)
                  \/ /\ pc[c] \in Triggered
                     /\ \A d \in Chains \ {c} : ~Alive(d)
               /\ pc'[c] \in Triggered => pc[c] \in Triggered
               /\ pc'[c] \in {"claim", "stop"} =>
                     \A d \in Chains \ {c} : ~Alive(d)
  <2>1. \A d \in Chains : Alone(d)'
    BY <1>2, StillAlone
  <2>2. \A d \in Chains \ {c} : Alive(d)' => configured'
    BY <1>2 DEF Others, Alive, GuardInv
  <2> QED
    BY <1>2, <2>1, <2>2, OthersGuarded DEF GuardInv
<1>3. CASE Busy(c)
  <2>1. pc'[c] = "idle" /\ pc[c] = "look"
    BY <1>1, <1>3 DEF Busy, Goto
  <2> QED
    BY <1>1, <1>3, <2>1
       DEF Busy, Goto, quiet, Others, SafeFor, Guarded, ClockBound, Alive,
           InSweep, InCall, Triggered
<1>4. CASE Claim(c)
  <2>1. pc'[c] = "claim" /\ pc[c] = "look"
    BY <1>1, <1>4 DEF Claim, Goto
  <2>2. \A d \in Chains : ~Alive(d)
    BY <1>4, <2>1, NoOtherAlive DEF Claim
  <2> QED
    BY <1>1, <1>4, <2>1, <2>2
       DEF Claim, Goto, quiet, Others, SafeFor, Guarded, ClockBound, Alive,
           InSweep, InCall, Triggered
<1>5. CASE Unconfigured(c)
  <2>1. \A d \in Chains : ~Alive(d)
    BY <1>5 DEF Unconfigured, GuardInv
  <2>2. pc'[c] \in {"idle", "stop"} /\ pc[c] = "look"
    BY <1>1, <1>5, <2>1 DEF Unconfigured, Goto, Alive, InSweep
  <2> QED
    BY <1>1, <1>5, <2>1, <2>2
       DEF Unconfigured, Goto, quiet, Others, SafeFor, Guarded, ClockBound,
           Alive, InSweep, InCall, Triggered
<1>6. CASE StoreInterrupted(c)
  <2>1. pc'[c] = "idle" /\ pc[c] \in {"stop", "refused"}
    BY <1>1, <1>6 DEF StoreInterrupted, Goto
  <2>2. \A d \in Chains \ {c} : ~Alive(d)
    BY <1>1, <2>1 DEF Alive, InSweep
  <2> QED
    BY <1>1, <1>6, <2>1, <2>2
       DEF StoreInterrupted, Goto, quiet, Others, SafeFor, Guarded,
           ClockBound, Alive, InSweep, InCall, Triggered
<1>7. CASE Mark(c) \/ MarkPage(c)
  <2>1. /\ pc'[c] = "work" /\ pc[c] \in {"claim", "resume", "work"}
        /\ record' = Heartbeat
    BY <1>1, <1>7 DEF Mark, MarkPage, Goto
  <2>2. Others(c) /\ UNCHANGED quiet /\ Alive(c)
    BY <1>1, <1>7, <2>1 DEF Mark, MarkPage, Goto, quiet, Others, Alive, InSweep
  <2>3. Guarded(c)'
    BY <1>1, <2>1, <2>2, HeartbeatIsRecord
       DEF Heartbeat, Guarded, Slack, quiet
  <2> QED
    BY <1>1, <2>1, <2>2, <2>3
       DEF SafeFor, ClockBound, Alive, InCall, Triggered, quiet
<1>8. CASE Reschedule(c)
  <2>1. /\ pc'[c] = "queued" /\ pc[c] = "work" /\ clock'[c] = 0
        /\ delay' \in [Chains -> 0..RetryDelay]
    BY <1>1, <1>8 DEF Reschedule, Goto, GuardInv, ChainTypeOK
  <2>2. Others(c) /\ SafeFor(c) /\ configured' = configured /\ Alive(c)
        /\ record' = record
    BY <1>1, <1>8, <2>1
       DEF Reschedule, Goto, Others, SafeFor, Alive, InSweep
  <2>3. Guarded(c)'
    <3>1. /\ record # None /\ ~record.interrupted
          /\ record.age <= clock[c] + 0 /\ clock[c] <= CallLimit
      BY <1>1, <2>1, <2>2 DEF Guarded, Slack, ClockBound, InCall
    <3>2. record.age \in Nat
      BY <3>1 DEF GuardInv, ChainTypeOK
    <3>3. record.age <= 0 + CallLimit
      BY <1>1, <3>1, <3>2, TimingAssumption
    <3> QED
      BY <2>1, <2>2, <3>1, <3>3 DEF Guarded, Slack
  <2>4. ClockBound(c)'
    BY <2>1, TimingAssumption DEF ClockBound, InCall
  <2> QED
    BY <1>1, <2>1, <2>2, <2>3, <2>4 DEF Triggered
<1>9. CASE Continue(c)
  <2>1. /\ pc'[c] = "resume" /\ pc[c] = "queued" /\ clock'[c] = 0
    BY <1>1, <1>9 DEF Continue, Goto
  <2>2. Others(c) /\ SafeFor(c) /\ configured' = configured /\ Alive(c)
        /\ record' = record
    BY <1>1, <1>9, <2>1 DEF Continue, Goto, Others, SafeFor, Alive, InSweep
  <2>3. Guarded(c)'
    <3>1. /\ record # None /\ ~record.interrupted
          /\ record.age <= clock[c] + CallLimit
          /\ clock[c] <= delay[c] + Lag
      BY <1>1, <2>1, <2>2 DEF Guarded, Slack, ClockBound
    <3>2. record.age \in Nat
      BY <3>1 DEF GuardInv, ChainTypeOK
    <3>3. record.age <= 0 + (CallLimit + RetryDelay + Lag)
      BY <1>1, <3>1, <3>2, TimingAssumption
    <3> QED
      BY <2>1, <2>2, <3>1, <3>3 DEF Guarded, Slack
  <2>4. ClockBound(c)'
    BY <2>1, TimingAssumption DEF ClockBound
  <2> QED
    BY <1>1, <2>1, <2>2, <2>3, <2>4 DEF Triggered
<1>10. CASE Complete(c)
  <2>1. pc'[c] = "done" /\ pc[c] = "work"
    BY <1>1, <1>10 DEF Complete, Goto
  <2> QED
    BY <1>1, <1>10, <2>1
       DEF Complete, Goto, quiet, Others, SafeFor, Guarded, Slack, ClockBound,
           Alive, InSweep, InCall, Triggered
<1>11. CASE Clear(c)
  <2>1. pc'[c] = "idle" /\ pc[c] = "done"
    BY <1>1, <1>11 DEF Clear, Goto
  <2>2. \A d \in Chains \ {c} : ~Alive(d)
    BY <1>1, <2>1 DEF Alive, InSweep
  <2> QED
    BY <1>1, <1>11, <2>1, <2>2
       DEF Clear, Goto, Others, SafeFor, Guarded, ClockBound, Alive, InSweep,
           InCall, Triggered
<1> QED
  BY <1>3, <1>4, <1>5, <1>6, <1>7, <1>8, <1>9, <1>10, <1>11 DEF Advance

LEMMA FailsInv ==
    ASSUME GuardInv, ChainTypeOK', NEW c \in Chains, Fails(c)
    PROVE  GuardInv'
<1>1. /\ pc \in [Chains -> {"idle", "queued"} \union InCall]
      /\ UNCHANGED <<record, clock, delay, configured>>
      /\ \/ pc[c] = "work" /\ pc' = [pc EXCEPT ![c] = "refused"]
         \/ pc' = [pc EXCEPT ![c] = "idle"]
  BY DEF Fails, Refused, Crash, Goto, GuardInv, ChainTypeOK
<1>2. Others(c) /\ SafeFor(c)
  BY <1>1 DEF Others, SafeFor
<1>3. /\ Alive(c)' => Alive(c)
      /\ pc'[c] \notin Triggered
  BY <1>1 DEF Alive, InSweep, Triggered
<1>4. \A d \in Chains : Alone(d)'
  BY <1>2, <1>3, StillAlone DEF Triggered
<1>5. Guarded(c) /\ ClockBound(c)
  BY DEF GuardInv
<1>6. Guarded(c)' /\ ClockBound(c)'
  BY <1>1, <1>5 DEF Guarded, Slack, ClockBound, Alive, InSweep, InCall
<1>7. \A d \in Chains : Alive(d)' => configured'
  BY <1>1, <1>2, <1>3 DEF Others, Alive, GuardInv
<1> QED
  BY <1>2, <1>4, <1>6, <1>7, OthersGuarded DEF GuardInv

LEMMA ReloadInv == ASSUME GuardInv, ChainTypeOK', Reload PROVE GuardInv'
<1>1. \A c \in Chains : pc'[c] = "idle"
  BY DEF Reload
<1>2. \A c \in Chains : ~Alive(c)'
  BY <1>1 DEF Alive, InSweep
<1> QED
  BY <1>1, <1>2
     DEF GuardInv, Guarded, ClockBound, Alone, InCall, Triggered

LEMMA ConfigureInv ==
    ASSUME GuardInv, ChainTypeOK', Between, Configure PROVE GuardInv'
<1>1. UNCHANGED <<record, pc, clock, delay>>
  BY DEF Configure
<1>2. \A c \in Chains : ~Alive(c)'
  BY <1>1 DEF Between, Alive
<1>3. \A c \in Chains : Guarded(c)' /\ ClockBound(c)' /\ Alone(c)'
  BY <1>1, <1>2 DEF GuardInv, Guarded, ClockBound, Alone
<1> QED
  BY <1>2, <1>3 DEF GuardInv

\* A heartbeat grows older only as the clock of its chain advances.
LEMMA TickInv == ASSUME GuardInv, ChainTypeOK', Tick PROVE GuardInv'
<1>1. /\ UNCHANGED <<pc, delay, configured>>
      /\ \A c \in Chains :
            /\ clock[c] \in Nat /\ delay[c] \in Nat
            /\ clock'[c] = IF pc[c] = "idle" THEN clock[c] ELSE clock[c] + 1
            /\ pc[c] \in InCall => clock[c] < CallLimit
            /\ pc[c] = "queued" => clock[c] < delay[c] + Lag
  BY TimingAssumption DEF Tick, GuardInv, ChainTypeOK
<1>2. \A c \in Chains : (Alive(c)' <=> Alive(c)) /\ Slack(c)' = Slack(c)
                        /\ Slack(c) \in Nat
  BY <1>1, TimingAssumption DEF Alive, Slack
<1>3. ASSUME NEW c \in Chains PROVE Guarded(c)'
  <2> SUFFICES ASSUME Alive(c), pc[c] # "claim"
               PROVE  /\ record' # None /\ ~record'.interrupted
                      /\ record'.age <= clock'[c] + Slack(c)
    BY <1>1, <1>2 DEF Guarded
  <2>1. /\ record # None /\ ~record.interrupted
        /\ record.age <= clock[c] + Slack(c)
        /\ record \in [age: 0..SweepStaleAfter, interrupted: BOOLEAN]
    BY DEF GuardInv, Guarded, ChainTypeOK
  <2>2. clock'[c] = clock[c] + 1
    BY <1>1 DEF Alive, InSweep
  <2>3. /\ record' \in [age: Nat, interrupted: BOOLEAN]
        /\ ~record'.interrupted
        /\ record'.age <= record.age + 1
    BY <2>1, TimingAssumption DEF Tick
  <2>4. record'.age <= clock'[c] + Slack(c)
    BY <1>1, <1>2, <2>1, <2>2, <2>3
  <2> QED
    BY <2>3, <2>4, NoneAssumption
<1>4. ASSUME NEW c \in Chains PROVE ClockBound(c)'
  BY <1>1, TimingAssumption DEF ClockBound, InCall
<1>5. ASSUME NEW c \in Chains PROVE Alone(c)'
  BY <1>1, <1>2 DEF GuardInv, Alone
<1>6. \A c \in Chains : Alive(c)' => configured'
  BY <1>1, <1>2 DEF GuardInv
<1> QED
  BY <1>3, <1>4, <1>5, <1>6 DEF GuardInv

LEMMA GuardInit == Init => GuardInv
<1> SUFFICES ASSUME Init PROVE GuardInv
  OBVIOUS
<1>1. \A c \in Chains : pc[c] = "idle"
  BY DEF Init
<1> QED
  BY <1>1, TypeInit
     DEF GuardInv, Guarded, ClockBound, Alone, Alive, InSweep, InCall,
         Triggered

LEMMA GuardStep == GuardInv /\ [Next]_vars => GuardInv'
<1> SUFFICES ASSUME GuardInv, [Next]_vars PROVE GuardInv'
  OBVIOUS
<1>1. ChainTypeOK'
  BY TypeStep DEF GuardInv
<1>2. CASE UNCHANGED vars
  <2>1. \A c \in Chains : Guarded(c)' /\ ClockBound(c)' /\ Alone(c)'
    BY <1>2 DEF vars, GuardInv, Guarded, Slack, ClockBound, Alone, Alive
  <2> QED
    BY <1>1, <1>2, <2>1 DEF vars, GuardInv, Alive
<1> QED
  BY <1>1, <1>2, TriggerInv, AdvanceInv, FailsInv, ReloadInv, ConfigureInv,
     TickInv
     DEF Next

-----------------------------------------------------------------------------
(* The theorems *)

\* The clocks and the record stay within their types.
THEOREM ChainTyping == Spec => []ChainTypeOK
<1>1. GuardInv => ChainTypeOK
  BY DEF GuardInv
<1> QED
  BY <1>1, GuardInit, GuardStep, PTL DEF Spec

\* The bounds on the heartbeat of a live sweep hold at all times.
THEOREM HeartbeatYoung == Spec => []GuardInv
BY GuardInit, GuardStep, PTL DEF Spec

(* At most one sweep is under way: a trigger that comes while one works,   *)
(* waits for its continuation or waits to retry is turned away             *)
(* (types.go:106-110,229-235).                                             *)
THEOREM NoOverlap == Spec => []OneChain
<1>1. GuardInv => OneChain
  BY DEF GuardInv, Alone, OneChain
<1> QED
  BY <1>1, HeartbeatYoung, PTL

-----------------------------------------------------------------------------
(* The lock *)

LockStep == [Lock!Next]_(Lock!lockVars)

\* The sweep under way is all there is to the lock.
LEMMA HolderIs ==
    ASSUME GuardInv, NEW c \in Chains, Alive(c)
    PROVE  Holder = {c} /\ (Working <=> pc[c] # "queued")
<1>1. \A d \in Chains : Alive(d) <=> d = c
  BY DEF GuardInv, Alone
<1> QED
  BY <1>1 DEF Holder, Working

LEMMA NoHolder ==
    ASSUME \A c \in Chains : ~Alive(c) PROVE Holder = {} /\ ~Working
BY DEF Holder, Working

\* A step that neither takes up nor ends a sweep, and no wait of one.
LEMMA LockKept ==
    ASSUME \A c \in Chains : /\ Alive(c)' <=> Alive(c)
                             /\ pc'[c] = "queued" <=> pc[c] = "queued"
    PROVE  LockStep
<1>1. Holder' = Holder
  BY DEF Holder
<1>2. Working' <=> Working
  BY <1>1, Zenon DEF Working, Holder
<1>3. Working \in BOOLEAN /\ Working' \in BOOLEAN
  BY DEF Working
<1> QED
  BY <1>1, <1>2, <1>3 DEF LockStep, Lock!lockVars

\* The end of a sweep.
LEMMA LockReleased ==
    ASSUME GuardInv, NEW c \in Chains, Alive(c), \A d \in Chains : ~Alive(d)'
    PROVE  LockStep
<1>1. Holder = {c}
  BY HolderIs
<1>2. Holder' = {} /\ Working' = FALSE
  BY DEF Holder, Working
<1> QED
  BY <1>1, <1>2 DEF LockStep, Lock!Next, Lock!Release

\* One chain moves from one place to another; the rest stay where they are.
LEMMA ChainStep ==
    ASSUME GuardInv, GuardInv', NEW c \in Chains, NEW to,
           pc' = [pc EXCEPT ![c] = to],
           to \in InSweep => Alive(c) \/ \A d \in Chains : ~Alive(d),
           to = "queued" => Alive(c)
    PROVE  LockStep
<1>1. pc'[c] = to /\ \A d \in Chains \ {c} : pc'[d] = pc[d]
  BY DEF GuardInv, ChainTypeOK
<1>2. Alive(c)' <=> to \in InSweep
  BY <1>1 DEF Alive
<1>3. CASE Alive(c) /\ to \in InSweep
  <2>1. Holder = {c} /\ (Working <=> pc[c] # "queued")
    BY <1>3, HolderIs
  <2>2. \A d \in Chains : Alive(d)' <=> Alive(d)
    BY <1>1, <1>2, <1>3 DEF Alive
  <2>3. Holder' = {c}
    BY <2>1, <2>2 DEF Holder
  <2>4. Working' <=> to # "queued"
    BY <1>1, <2>3 DEF Working
  <2>5. Working \in BOOLEAN /\ Working' \in BOOLEAN
    BY DEF Working
  <2> QED
    BY <2>1, <2>3, <2>4, <2>5
       DEF LockStep, Lock!Next, Lock!HandOver, Lock!Resume, Lock!lockVars
<1>4. CASE Alive(c) /\ to \notin InSweep
  <2>1. \A d \in Chains : ~Alive(d)'
    BY <1>1, <1>2, <1>4 DEF Alive, GuardInv, Alone
  <2> QED
    BY <1>4, <2>1, LockReleased
<1>5. CASE ~Alive(c) /\ to \in InSweep /\ to # "queued"
  <2>1. Holder = {}
    BY <1>5, NoHolder
  <2>2. Holder' = {c}
    BY <1>1, <1>2, <1>5 DEF Holder, Alive
  <2>3. Working' = TRUE
    BY <1>1, <1>5, <2>2 DEF Working
  <2> QED
    BY <2>1, <2>2, <2>3 DEF LockStep, Lock!Next, Lock!Acquire
<1>6. CASE ~Alive(c) /\ to \notin InSweep
  BY <1>1, <1>2, <1>6, LockKept DEF Alive, InSweep
<1> QED
  BY <1>3, <1>4, <1>5, <1>6

\* Every step of the guard is a step of the lock, or none.
LEMMA StepIsLockStep == GuardInv /\ GuardInv' /\ [Next]_vars => LockStep
<1> SUFFICES ASSUME GuardInv, GuardInv', [Next]_vars PROVE LockStep
  OBVIOUS
<1>1. ASSUME NEW c \in Chains, Trigger(c) \/ Advance(c) \/ Fails(c)
      PROVE  LockStep
  <2>1. CASE Claim(c)
    <3>1. \A d \in Chains : ~Alive(d)
      BY <2>1, NoOtherAlive DEF Claim, Goto
    <3> QED
      BY <2>1, <3>1, ChainStep DEF Claim, Goto
  <2>2. CASE Trigger(c) \/ Busy(c) \/ StoreInterrupted(c) \/ Clear(c) \/ Crash(c)
    BY <2>2, ChainStep
       DEF Trigger, Busy, StoreInterrupted, Clear, Crash, Goto, InSweep
  <2>3. CASE Unconfigured(c)
    BY <2>3, ChainStep DEF Unconfigured, Goto, InSweep
  <2>4. CASE \/ Mark(c) \/ MarkPage(c) \/ Reschedule(c) \/ Continue(c)
             \/ Complete(c) \/ Refused(c)
    BY <2>4, ChainStep
       DEF Mark, MarkPage, Reschedule, Continue, Complete, Refused, Goto, Alive,
           InSweep
  <2> QED
    BY <1>1, <2>1, <2>2, <2>3, <2>4 DEF Advance, Fails
<1>2. CASE Reload
  <2>1. \A c \in Chains : ~Alive(c)' /\ pc'[c] # "queued"
    BY <1>2 DEF Reload, Alive, InSweep
  <2>2. CASE \E c \in Chains : Alive(c)
    BY <2>1, <2>2, LockReleased
  <2>3. CASE \A c \in Chains : ~Alive(c)
    BY <2>1, <2>3, LockKept DEF Alive, InSweep
  <2> QED
    BY <2>2, <2>3
<1>3. CASE Configure \/ Tick \/ UNCHANGED vars
  <2>1. pc' = pc
    BY <1>3 DEF Configure, Tick, vars
  <2> QED
    BY <2>1, LockKept DEF Alive
<1> QED
  BY <1>1, <1>2, <1>3 DEF Next

\* Whatever is in the record and however old it is, the guard implements a
\* lock: taken only when free, kept over hand-overs and retries, given back.
THEOREM GuardIsALock == Spec => ImplementsLock
<1>1. Init => Lock!Init
  <2> SUFFICES ASSUME Init PROVE Lock!Init
    OBVIOUS
  <2>1. \A c \in Chains : ~Alive(c)
    BY DEF Init, Alive, InSweep
  <2> QED
    BY <2>1 DEF Lock!Init, Holder, Working
<1> QED
  BY <1>1, GuardInit, GuardStep, StepIsLockStep, PTL
     DEF Spec, ImplementsLock, Lock!Spec, LockStep

=============================================================================
