---------------------------- MODULE AppleClocks ----------------------------
(***************************************************************************)
(* The watchdog and the timer, devices/apple-wdt/apple_wdt.c and           *)
(* devices/apple-timer/apple_timer.c.  Both count what has passed since    *)
(* the last tick that counted, in whole units, and forget the remainder;   *)
(* the caller of the tick functions decides when they run.  Time that      *)
(* passes while a clock is disabled is counted by its next tick.           *)
(***************************************************************************)
EXTENDS Integers

CONSTANTS
  Millisecond,   (* the watchdog's unit, in steps of the clock             *)
  Microsecond,   (* the timer's unit, in steps of the clock                *)
  CountLimit,    (* 2^32: the watchdog counts in 32 bits                   *)
  LoadValues,    (* what the guest writes to the watchdog's LOAD           *)
  Deadlines,     (* what the guest writes to the timer's CMP0              *)
  Never,         (* a compare register that is not armed, ~0               *)
  FirstInstant,  (* the clock when the machine starts, never zero          *)
  LastInstant    (* bound of the clock                                     *)

ASSUME ClockConstants ==
  /\ Millisecond \in Nat \ {0} /\ Microsecond \in Nat \ {0}
  /\ CountLimit \in Nat \ {0} /\ LoadValues \subseteq 0 .. (CountLimit - 1)
  /\ Deadlines \subseteq Nat
  /\ Never \notin Nat
  /\ FirstInstant \in Nat \ {0} /\ LastInstant \in Nat

VARIABLES
  now,    (* the host's clock                                              *)
  wdt,    (* ctrl's ENABLE, load_value, current, TIMEOUT, last_tick_ns;    *)
          (* ghost: when the count started, how long after a tick, its     *)
          (* value then, and whether a tick came too late for 32 bits      *)
  timer   (* cfg's ENABLE, counter, cmp[0], int_stat's bit 0,              *)
          (* last_update_ns; ghost: the first update                       *)

clockVars == <<now, wdt, timer>>

DefaultLoad == CountLimit - 1

ClocksInit ==
  /\ now = FirstInstant
  /\ wdt = [enabled |-> FALSE, load |-> DefaultLoad, current |-> DefaultLoad,
            timeout |-> FALSE, last_tick |-> 0,
            from |-> 0, lead |-> 0, total |-> DefaultLoad, late |-> FALSE]
  /\ timer = [enabled |-> TRUE, counter |-> 0, cmp |-> Never, match |-> FALSE,
              last_update |-> 0, from |-> 0]

Pass == now < LastInstant /\ now' = now + 1 /\ UNCHANGED <<wdt, timer>>

-----------------------------------------------------------------------------
(* apple_wdt_tick: the first call after the reset only takes the time, the *)
(* others count in a uint32_t.                                             *)
WdtCountedRounds(elapsed) == ((elapsed + 1) \div Millisecond) % CountLimit
WdtCounted(elapsed) == (elapsed \div Millisecond) % CountLimit

WdtTick ==
  /\ wdt.enabled
  /\ LET elapsed == now - wdt.last_tick
         n       == WdtCounted(elapsed)
     IN  \/ /\ wdt.last_tick = 0
            /\ wdt' = [wdt EXCEPT !.last_tick = now, !.from = now, !.lead = 0]
         \/ /\ wdt.last_tick # 0 /\ elapsed >= Millisecond
            /\ wdt' = [wdt EXCEPT !.last_tick = now,
                         !.current = IF n >= @ THEN 0 ELSE @ - n,
                         !.timeout = @ \/ n >= wdt.current,
                         !.late = @ \/ elapsed >= CountLimit * Millisecond]
  /\ UNCHANGED <<now, timer>>

(* CTRL: enabling, also when it is enabled, reloads the count, which       *)
(* starts now; the time of the last tick stays.                            *)
WdtCtrlWrite(on) ==
  /\ wdt' = IF on THEN [wdt EXCEPT !.enabled = TRUE, !.current = wdt.load,
                                   !.from = now, !.lead = now - wdt.last_tick,
                                   !.total = wdt.load, !.late = FALSE]
                  ELSE [wdt EXCEPT !.enabled = FALSE]
  /\ UNCHANGED <<now, timer>>

WdtLoadWrite(l) == wdt' = [wdt EXCEPT !.load = l] /\ UNCHANGED <<now, timer>>

WdtStatClear == wdt' = [wdt EXCEPT !.timeout = FALSE] /\ UNCHANGED <<now, timer>>

-----------------------------------------------------------------------------
(* apple_timer_tick: ticks_per_ns is one whatever FREQ_SEL says, so the    *)
(* counter counts microseconds.  A compare register that has been reached  *)
(* is disarmed.                                                            *)
TimerTick ==
  /\ timer.enabled
  /\ LET elapsed == now - timer.last_update
         count   == timer.counter + elapsed \div Microsecond
         reached == timer.cmp # Never /\ count >= timer.cmp
     IN  \/ /\ timer.last_update = 0
            /\ timer' = [timer EXCEPT !.last_update = now, !.from = now]
         \/ /\ timer.last_update # 0 /\ elapsed >= Microsecond
            /\ timer' = [timer EXCEPT !.last_update = now, !.counter = count,
                           !.match = @ \/ reached,
                           !.cmp = IF reached THEN Never ELSE @]
  /\ UNCHANGED <<now, wdt>>

TimerCfgWrite(on) ==
  timer' = [timer EXCEPT !.enabled = on] /\ UNCHANGED <<now, wdt>>

(* CMP0, both halves.                                                      *)
TimerArm(d) == timer' = [timer EXCEPT !.cmp = d] /\ UNCHANGED <<now, wdt>>

TimerIntClear == timer' = [timer EXCEPT !.match = FALSE] /\ UNCHANGED <<now, wdt>>

WdtNext ==
  \/ WdtTick \/ WdtStatClear
  \/ \E on \in BOOLEAN : WdtCtrlWrite(on)
  \/ \E l \in LoadValues : WdtLoadWrite(l)

TimerNext ==
  \/ TimerTick \/ TimerIntClear
  \/ \E on \in BOOLEAN : TimerCfgWrite(on)
  \/ \E d \in Deadlines : TimerArm(d)

-----------------------------------------------------------------------------
(* How far the clocks are from the time.  The forgotten remainders slow    *)
(* both, but by less than half, unless a tick of the watchdog comes after  *)
(* more milliseconds than 32 bits hold.  The timer, free running, is never *)
(* ahead of the time since its first update; the watchdog, when its count  *)
(* starts within a millisecond of a tick, is ahead by less than one.       *)
NotFast(n, unit, passed) == n * unit <= passed
NotSlow(n, unit, passed) == passed <= 2 * n * unit

ClocksDrift ==
  LET counted == wdt.total - wdt.current
  IN  /\ wdt.lead < Millisecond =>
           NotFast(counted, Millisecond, wdt.last_tick - wdt.from + (Millisecond - 1))
      /\ wdt.current > 0 /\ ~wdt.late =>
           NotSlow(counted, Millisecond, wdt.last_tick - wdt.from)
      /\ NotFast(timer.counter, Microsecond, timer.last_update - timer.from)
      /\ NotSlow(timer.counter, Microsecond, timer.last_update - timer.from)

=============================================================================
