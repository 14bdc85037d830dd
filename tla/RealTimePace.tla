----------------------------- MODULE RealTimePace -----------------------------
(***************************************************************************)
(* The pace of CCiThreadRealTimeComplex: CRealTimeFlavor keeps a base      *)
(* time, a period and the number of rounds since the base time, and Run    *)
(* sleeps until base + period * rounds of the system clock before it lets  *)
(* the complex run a round.  Another thread may set the period and the     *)
(* base time in between; nothing protects the members.  Times are          *)
(* milliseconds and relative to the base time.                             *)
(***************************************************************************)
EXTENDS Integers

CONSTANTS
  Periods,        \* what SetPeriodMillieSec is called with
  LongMax,        \* 0x7FFFFFFFFFFFFFFF, scaled down
  SleepLimit,     \* usleep takes 32 bits of microseconds: 2^32 / 1000, scaled
  Jumps,          \* how far the system clock is set forward or back
  MaxLag          \* bound: how late a round may be

ASSUME PaceConstants ==
  /\ Periods \subseteq Nat /\ Jumps \subseteq Nat
  /\ LongMax \in Nat \ {0} /\ SleepLimit \in Nat \ {0} /\ MaxLag \in Nat

VARIABLES
  elapsed,    \* the system clock minus m_mdBaseTime
  period,     \* m_iPeriodMillieSec
  counter,    \* m_llExecutionCounter
  loaded,     \* the counter that m_llExecutionCounter++ has read
  stage,      \* where Run is
  sleep,      \* what is left of msleep; usleep does not look at the system clock
  setting,    \* what SetPeriodMillieSec of another thread has still to store
  disturbed   \* history: "clock" was set back, or a "setting" of the period overlapped
              \* with the arithmetic of a round, since the base time was stored

paceVars == <<elapsed, period, counter, loaded, stage, sleep, setting, disturbed>>

Steps == {"idle", "loaded", "counted", "sleeping", "round"}
-----------------------------------------------------------------------------
\* GetPeriodStartTime and GetPeriodEndTime, as long as the product fits.
GetPeriodStartTime == period * counter
GetPeriodEndTime == period * counter + period

\* The product in GetPaceInMillieSec: what a signed overflow gives is undefined.
Products == IF period * counter <= LongMax THEN {period * counter}
            ELSE (-LongMax)..LongMax

\* Faulty: a delay is passed to msleep as it is and becomes a huge unsigned.
Mutant_NotClipped(pace) == pace % SleepLimit

\* Run: a delay is no sleep; then castis::msleep, whose microseconds are
\* truncated.
MSleep(pace) == IF pace < 0 THEN 0 ELSE IF pace < SleepLimit THEN pace
                ELSE pace % SleepLimit

\* The constructor: period 0, base time now, counter 0.
PaceInit ==
  /\ elapsed = 0 /\ period = 0 /\ counter = 0 /\ loaded = 0
  /\ stage = "idle" /\ sleep = 0
  /\ setting = "none" /\ disturbed = "no"
-----------------------------------------------------------------------------
(* The thread of the complex.                                              *)

\* Run begins; at the limit of the counter the base time starts anew.
BeginRun ==
  /\ stage = "idle" /\ stage' = "loaded"
  /\ IF counter = LongMax
     THEN elapsed' = 0 /\ counter' = 0 /\ loaded' = 0 /\ disturbed' = "no"
     ELSE loaded' = counter /\ UNCHANGED <<elapsed, counter, disturbed>>
  /\ UNCHANGED <<period, sleep, setting>>

\* m_llExecutionCounter++ stores.
Count ==
  /\ stage = "loaded" /\ stage' = "counted"
  /\ counter' = loaded + 1
  /\ UNCHANGED <<elapsed, period, loaded, sleep, setting, disturbed>>

\* Faulty: the pace of the previous round.
Mutant_PaceBefore ==
  /\ stage = "counted" /\ stage' = "sleeping"
  /\ \E product \in Products : sleep' = MSleep(product - period - elapsed)
  /\ disturbed' = IF setting # "none" THEN "setting" ELSE disturbed
  /\ UNCHANGED <<elapsed, period, counter, loaded, setting>>

\* GetPaceInMillieSec, and msleep begins.
Sleep ==
  /\ stage = "counted" /\ stage' = "sleeping"
  /\ \E product \in Products : sleep' = MSleep(product - elapsed)
  /\ disturbed' = IF setting # "none" THEN "setting" ELSE disturbed
  /\ UNCHANGED <<elapsed, period, counter, loaded, setting>>

\* CCiThreadComplex::Run, a round of all children.
Wake ==
  /\ stage = "sleeping" /\ sleep = 0 /\ stage' = "round"
  /\ UNCHANGED <<elapsed, period, counter, loaded, sleep, setting, disturbed>>

EndRun ==
  /\ stage = "round" /\ stage' = "idle"
  /\ UNCHANGED <<elapsed, period, counter, loaded, sleep, setting, disturbed>>
-----------------------------------------------------------------------------
(* SetPeriodMillieSec of another thread: the period, the base time, the    *)
(* counter.                                                                *)

SetPeriod(p) ==
  /\ setting = "none" /\ setting' = "base"
  /\ period' = p
  /\ UNCHANGED <<elapsed, counter, loaded, stage, sleep, disturbed>>

\* m_mdBaseTime = mdCurrentTime.
SetBase ==
  /\ setting = "base" /\ setting' = "counter"
  /\ elapsed' = 0 /\ disturbed' = "no"
  /\ UNCHANGED <<period, counter, loaded, stage, sleep>>

\* m_llExecutionCounter = 0: a counter that Run has read and not stored comes
\* back.
ResetCounter ==
  /\ setting = "counter" /\ setting' = "none"
  /\ counter' = 0
  /\ disturbed' = IF stage = "loaded" THEN "setting" ELSE disturbed
  /\ UNCHANGED <<elapsed, period, loaded, stage, sleep>>
-----------------------------------------------------------------------------
(* Time.                                                                   *)

Bounded == elapsed < GetPeriodStartTime + MaxLag

\* A millisecond goes by: in a sleep, in a round, or while the thread does not
\* run; a sleep may take longer than it was asked for.
Tick ==
  /\ sleep > 0 \/ Bounded
  /\ elapsed' = elapsed + 1
  /\ sleep' = IF sleep > 0 THEN sleep - 1 ELSE 0
  /\ UNCHANGED <<period, counter, loaded, stage, setting, disturbed>>

\* The system clock is set (once since the base time was stored).
SetClock(jump) ==
  /\ disturbed = "no" /\ Bounded
  /\ elapsed' = elapsed + jump
  /\ disturbed' = IF jump < 0 THEN "clock" ELSE "no"
  /\ UNCHANGED <<period, counter, loaded, stage, sleep, setting>>

PaceNext == \/ BeginRun \/ Count \/ Sleep \/ Wake \/ EndRun
        \/ SetBase \/ ResetCounter \/ \E p \in Periods : SetPeriod(p)
        \/ Tick \/ \E jump \in Jumps : SetClock(jump) \/ SetClock(-jump)

PaceSpec == PaceInit /\ [][PaceNext]_paceVars
-----------------------------------------------------------------------------
PaceTypeOK ==
  /\ elapsed \in Int /\ period \in Nat /\ sleep \in Nat
  /\ counter \in 0..LongMax /\ loaded \in 0..(LongMax - 1)
  /\ stage \in Steps /\ setting \in {"none", "base", "counter"}
  /\ disturbed \in {"no", "clock", "setting"}

\* The pace is that of the code: the product fits, a period fits into msleep,
\* the clock is not set back and the period is not set in the middle of the
\* arithmetic.
Regular ==
  /\ disturbed = "no" /\ setting = "none"
  /\ period * counter <= LongMax /\ period < SleepLimit

\* No round starts before its period, whatever the delays of earlier rounds and
\* the changes of the period; so the rounds do not drift ahead of the base time.
OnSchedule ==
  /\ PaceTypeOK
  /\ Regular => /\ stage \in {"idle", "round"} => elapsed >= GetPeriodStartTime
                /\ stage = "sleeping" => elapsed + sleep >= GetPeriodStartTime

\* A thread that is late does not sleep, and one that is not sleeps until its
\* period starts and no longer: at most one period.
SleepBounded ==
  [][stage = "counted" /\ stage' = "sleeping" /\ Regular =>
       /\ sleep' <= period
       /\ elapsed >= GetPeriodStartTime => sleep' = 0
       /\ sleep' > 0 => elapsed + sleep' + period = GetPeriodEndTime]_paceVars
=============================================================================
