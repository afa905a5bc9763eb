------------------------------ MODULE AppTimers ------------------------------
(***************************************************************************)
(* Application timers (timer.c): each is started, stopped and changed by   *)
(* one thread, and its callback, which rt_timer_check calls in             *)
(* SysTick_Handler with the interrupts disabled, may stop or start it too. *)
(* Between its critical sections the thread may be interrupted.            *)
(*                                                                         *)
(*   doing[t]  where the thread of timer t is: "none" outside of timer.c,  *)
(*             "start" and "insert" in rt_timer_start before it reads the  *)
(*             tick and before it inserts, "stop" and "stopped" in         *)
(*             rt_timer_stop before it removes and before it clears the    *)
(*             flag, "on" and "off" in rt_timer_control with the flag read *)
(*             when ACTIVATED was set or not, "gone" when t is detached    *)
(*   checking  SysTick_Handler is in the loop of rt_timer_check            *)
(*   fresh     the timers put on the list since that loop last ended       *)
(*   entered   the timers on the list in the order they were inserted      *)
(*   stops     the timers stopped, with RT_EOK, and not started since      *)
(*   restarts  the one-shot timers that their own callback started         *)
(*   lost      the timers that expired between the two halves of a         *)
(*             change of their flag                                        *)
(* The timeout_tick of a timer that is off the list is not read again: it  *)
(* goes back to 0.                                                         *)
(***************************************************************************)
EXTENDS Integers, SequencesExt

CONSTANTS
  Tmr,     \* the timers
  Times,   \* the delays they are given
  TickMod  \* the values of rt_tick_t

HalfTick == (TickMod - 1) \div 2

ASSUME AppTimersAssumption ==
  /\ TickMod \in Nat \ {0}
  /\ Times # {} /\ Times \subseteq 1 .. HalfTick - 1

VARIABLES rt_tick, rt_timer_list, timeout_tick, init_tick, activated, periodic,
          doing, checking, fresh, entered, stops, restarts, lost
history == <<fresh, entered, stops, restarts, lost>>
timer_vars == <<rt_tick, rt_timer_list, timeout_tick, init_tick, activated,
                periodic, doing, checking, history>>

TimersInit ==
  /\ rt_tick = 0 /\ rt_timer_list = << >>
  /\ timeout_tick = [t \in Tmr |-> 0]
  /\ init_tick \in [Tmr -> Times]
  /\ activated = {} /\ periodic \in SUBSET Tmr
  /\ doing = [t \in Tmr |-> "none"] /\ checking = FALSE
  /\ fresh = {} /\ entered = << >> /\ stops = {} /\ restarts = {} /\ lost = {}

TickDiff(x, y) == (x - y) % TickMod
Linked == ToSet(rt_timer_list)

\* Mutant: a timer goes before those that expire at the same tick.
SoonerOrEqual(timeout, t, u) == TickDiff(timeout[u], timeout[t]) < HalfTick

\* Timer t expires before timer u.
Sooner(timeout, t, u) ==
  /\ TickDiff(timeout[u], timeout[t]) # 0
  /\ TickDiff(timeout[u], timeout[t]) < HalfTick

\* The search of rt_timer_start: t goes before the first timer that expires
\* later.
Place(list, timeout, t) ==
  LET later == {i \in 1 .. Len(list) : Sooner(timeout, t, list[i])}
  IN  IF later = {} THEN Len(list) + 1 ELSE Min(later)

Inserted(list, timeout, t) == InsertAt(list, Place(list, timeout, t), t)

-----------------------------------------------------------------------------
\* The thread of timer t: no handler runs.
At(t, point) == ~checking /\ doing[t] = point
Goes(t, point) == doing' = [doing EXCEPT ![t] = point]

Unlink(t) ==
  /\ rt_timer_list' = RemoveFirst(rt_timer_list, t)
  /\ timeout_tick' = [timeout_tick EXCEPT ![t] = 0]
  /\ entered' = RemoveFirst(entered, t)
  /\ fresh' = fresh \ {t}

\* rt_timer_start in three steps.
StartRemove(t) ==
  /\ At(t, "none")
  /\ Unlink(t)
  /\ activated' = activated \ {t}
  /\ Goes(t, "start")
  /\ stops' = stops \ {t} /\ restarts' = restarts \ {t} /\ lost' = lost \ {t}
  /\ UNCHANGED <<rt_tick, init_tick, periodic, checking>>

StartCompute(t) ==
  /\ At(t, "start")
  /\ timeout_tick' = [timeout_tick EXCEPT ![t] = (rt_tick + init_tick[t]) % TickMod]
  /\ Goes(t, "insert")
  /\ UNCHANGED <<rt_tick, rt_timer_list, init_tick, activated, periodic, checking, history>>

StartInsert(t) ==
  /\ At(t, "insert")
  /\ rt_timer_list' = Inserted(rt_timer_list, timeout_tick, t)
  /\ activated' = activated \cup {t}
  /\ entered' = Append(entered, t) /\ fresh' = fresh \cup {t}
  /\ Goes(t, "none")
  /\ UNCHANGED <<rt_tick, timeout_tick, init_tick, periodic, checking, stops, restarts, lost>>

\* rt_timer_stop: it refuses a timer that is not ACTIVATED.
StopTest(t) ==
  /\ At(t, "none") /\ t \in activated
  /\ Goes(t, "stop")
  /\ UNCHANGED <<rt_tick, rt_timer_list, timeout_tick, init_tick, activated,
                 periodic, checking, history>>

StopRemove(t) ==
  /\ At(t, "stop")
  /\ Unlink(t)
  /\ Goes(t, "stopped")
  /\ UNCHANGED <<rt_tick, init_tick, activated, periodic, checking,
                 stops, restarts, lost>>

StopClear(t) ==
  /\ At(t, "stopped")
  /\ activated' = activated \ {t}
  /\ stops' = stops \cup {t} /\ lost' = lost \ {t}
  /\ Goes(t, "none")
  /\ UNCHANGED <<rt_tick, rt_timer_list, timeout_tick, init_tick, periodic, checking,
                 fresh, entered, restarts>>

\* rt_timer_control: SET_TIME is one store; SET_ONESHOT and SET_PERIODIC
\* read the flag and write it back, ACTIVATED included.
SetTime(t, time) ==
  /\ At(t, "none") /\ time # init_tick[t]
  /\ init_tick' = [init_tick EXCEPT ![t] = time]
  /\ UNCHANGED <<rt_tick, rt_timer_list, timeout_tick, activated, periodic, doing,
                 checking, history>>

ControlRead(t) ==
  /\ At(t, "none")
  /\ Goes(t, IF t \in activated THEN "on" ELSE "off")
  /\ UNCHANGED <<rt_tick, rt_timer_list, timeout_tick, init_tick, activated,
                 periodic, checking, history>>

ControlWrite(t) ==
  /\ At(t, "on") \/ At(t, "off")
  /\ activated' = IF doing[t] = "on" THEN activated \cup {t} ELSE activated \ {t}
  /\ \/ periodic' = periodic \cup {t}
     \/ periodic' = periodic \ {t}
  /\ Goes(t, "none")
  /\ UNCHANGED <<rt_tick, rt_timer_list, timeout_tick, init_tick, checking, history>>

\* rt_timer_detach, and rt_timer_init of the same structure later.
Detach(t) ==
  /\ At(t, "none")
  /\ Unlink(t)
  /\ Goes(t, "gone")
  /\ UNCHANGED <<rt_tick, init_tick, activated, periodic, checking,
                 stops, restarts, lost>>

InitAgain(t) ==
  /\ At(t, "gone")
  /\ activated' = activated \ {t}
  /\ Goes(t, "none")
  /\ stops' = stops \ {t} /\ restarts' = restarts \ {t} /\ lost' = lost \ {t}
  /\ UNCHANGED <<rt_tick, rt_timer_list, timeout_tick, init_tick, periodic, checking, fresh, entered>>

-----------------------------------------------------------------------------
\* How long timer t has to go, below zero when it is late.
ToGo(t) == TickDiff(timeout_tick[t] - rt_tick + HalfTick, 0) - HalfTick

\* A bound: rt_timer_start is not interrupted until its timer is so late that
\* the ticks of it and of one that expires last are half the range apart.
StartIsShort ==
  \A t \in Tmr : doing[t] = "insert" => Max(Times) - (ToGo(t) - 1) < HalfTick

SysTick ==
  /\ ~checking /\ StartIsShort
  /\ rt_tick' = (rt_tick + 1) % TickMod
  /\ checking' = TRUE
  /\ UNCHANGED <<rt_timer_list, timeout_tick, init_tick, activated, periodic,
                 doing, history>>

TimerDue(t) == TickDiff(rt_tick, timeout_tick[t]) < HalfTick

\* Mutant: a periodic timer goes on though its callback stopped it.
GoesOnAnyway(t, on) == t \in periodic

GoesOn(t, on) == t \in periodic /\ on

\* Mutant: the flag of a one-shot timer is left as it was.
FlagLeft(t, on) == activated

FlagAfter(t, on) == IF GoesOn(t, on) THEN activated \cup {t} ELSE activated \ {t}

\* One round of the loop of rt_timer_check.  The callback of t returns, stops
\* t or starts it; then t is started again or its flag is cleared.
Expire(callback) ==
  /\ checking /\ rt_timer_list # << >>
  /\ LET t    == Head(rt_timer_list)
         rest == RemoveFirst(rt_timer_list, t)
         next == [timeout_tick EXCEPT ![t] = (rt_tick + init_tick[t]) % TickMod]
         on   == callback = "start" \/ (callback = "return" /\ t \in activated)
         link == callback = "start" \/ GoesOn(t, on)
     IN  /\ TimerDue(t)
         /\ callback = "stop" => t \in activated
         /\ IF link
            THEN /\ timeout_tick' = next
                 /\ rt_timer_list' = Inserted(rest, next, t)
                 /\ entered' = Append(RemoveFirst(entered, t), t)
            ELSE /\ rt_timer_list' = rest
                 /\ entered' = RemoveFirst(entered, t)
                 /\ timeout_tick' = [timeout_tick EXCEPT ![t] = 0]
         /\ activated' = FlagAfter(t, on)
         /\ stops' = IF callback = "stop" THEN stops \cup {t} ELSE stops
         /\ restarts' = IF callback = "start" /\ t \notin periodic
                        THEN restarts \cup {t} ELSE restarts \ {t}
         /\ lost' = IF doing[t] \in {"on", "off"} THEN lost \cup {t} ELSE lost
         /\ fresh' = fresh \ {t}
  /\ UNCHANGED <<rt_tick, init_tick, periodic, doing, checking>>

CheckEnds ==
  /\ checking
  /\ rt_timer_list # << >> => ~TimerDue(Head(rt_timer_list))
  /\ checking' = FALSE /\ fresh' = {}
  /\ UNCHANGED <<rt_tick, rt_timer_list, timeout_tick, init_tick, activated,
                 periodic, doing, entered, stops, restarts, lost>>

TimersNext ==
  \/ SysTick \/ CheckEnds \/ \E callback \in {"return", "stop", "start"} : Expire(callback)
  \/ \E t \in Tmr :
       \/ StartRemove(t) \/ StartCompute(t) \/ StartInsert(t)
       \/ StopTest(t) \/ StopRemove(t) \/ StopClear(t)
       \/ ControlRead(t) \/ ControlWrite(t) \/ \E time \in Times : SetTime(t, time)
       \/ Detach(t) \/ InitAgain(t)

TimersSpec == TimersInit /\ [][TimersNext]_timer_vars

-----------------------------------------------------------------------------
TimersTypeOK ==
  /\ rt_tick \in 0 .. TickMod - 1 /\ rt_timer_list \in Seq(Tmr)
  /\ timeout_tick \in [Tmr -> 0 .. TickMod - 1] /\ init_tick \in [Tmr -> Times]
  /\ activated \subseteq Tmr /\ periodic \subseteq Tmr /\ checking \in BOOLEAN
  /\ doing \in [Tmr -> {"none", "start", "insert", "stop", "stopped", "on", "off", "gone"}]
  /\ fresh \cup stops \cup restarts \cup lost \subseteq Tmr /\ entered \in Seq(Tmr)

\* Timer t was put on the list before timer u.
EnteredBefore(t, u) ==
  \E m, n \in DOMAIN entered : m < n /\ entered[m] = t /\ entered[n] = u

\* The list holds a timer once, the one that expires first before the others,
\* and of two that expire at once the one inserted first: "it's preferred that
\* the timer inserted early get called early" (timer.c:354).
ExpireInOrder ==
  /\ IsInjective(rt_timer_list) /\ Linked = ToSet(entered)
  /\ \A i, j \in DOMAIN rt_timer_list : i < j =>
       LET t == rt_timer_list[i]
           u == rt_timer_list[j]
       IN  \/ ToGo(t) < ToGo(u)
           \/ ToGo(t) = ToGo(u) /\ EnteredBefore(t, u)

\* No callback is late: outside of the handler only a timer that was put on
\* the list since the last tick may be due, its thread having been interrupted
\* between the two critical sections of rt_timer_start.
NoTimerLate ==
  ~checking => \A t \in Linked \ fresh : ToGo(t) > 0

\* Callbacks come in order and in time (rt_timer_start, rt_timer_check).
ExpireInTime == ExpireInOrder /\ NoTimerLate

\* A timer that was stopped with RT_EOK, by its thread or by its callback, is
\* off the list until it is started: its callback is not called.
StopHolds == Linked \cap stops = {}

\* ACTIVATED says which timers run, unless the thread is between the halves of
\* an operation on it.  Two faults of timer.c excepted: rt_timer_check clears
\* the flag of a one-shot timer that its callback has started (timer.c:543),
\* and an expiry between the read and the write of rt_timer_control
\* (timer.c:475-481) is undone by the write.
ActivatedMeansLinked ==
  \A t \in Tmr : ~checking /\ doing[t] = "none" /\ t \notin restarts \cup lost =>
    (t \in activated <=> t \in Linked)
=============================================================================
