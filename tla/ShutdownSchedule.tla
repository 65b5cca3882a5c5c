--------------------------- MODULE ShutdownSchedule ---------------------------
(***************************************************************************)
(* The warnings of a scheduled shutdown (server.go, part of                *)
(* src/common/cchain.go): dynamicTickDuration, and the loop of the         *)
(* goroutine ScheduleShutdown starts, which on every tick of its ticker    *)
(* subtracts the tick from its own count of the remaining time, warns, and *)
(* re-makes the ticker when the tick for the new remaining time differs.   *)
(* Times are integers in units of a quarter second, so that a remaining    *)
(* time below one second, which the loop skips, occurs.  Real time is     *)
(* kept apart from the loop's count, so a count that drifts shows.         *)
(***************************************************************************)
EXTENDS Integers, Sequences

Unit   == 4                    \* time units per second
Second == Unit
Minute == 60 * Second
Hour   == 60 * Minute

dynamicTickDuration(remaining) ==
    CASE remaining <= 5 * Second  -> Second
      [] remaining <= 15 * Second -> 5 * Second
      [] remaining <= Minute      -> 15 * Second
      [] remaining <= 5 * Minute  -> Minute
      [] remaining <= 15 * Minute -> 5 * Minute
      [] remaining <= Hour        -> 15 * Minute
      [] OTHER                    -> Hour

RECURSIVE Ticks(_, _, _, _, _)

\* Mutant: the new tick duration is recorded but the ticker is not re-made.
TicksNoReset(deadline, now, remaining, tick, period) ==
    IF now + period > deadline THEN <<>>
    ELSE LET at   == now + period
             left == remaining - tick
             new  == dynamicTickDuration(left)
         IN  IF left < Second
             THEN Ticks(deadline, at, left, tick, period)
             ELSE <<[at |-> at, remaining |-> left]>>
                  \o Ticks(deadline, at, left, new, period)

\* One tick of the loop, at time now + period, before the done timer (a
\* tick at the deadline itself races done; taking the tick first gives the
\* longer list).  remaining, tick: the loop's variables; period: the
\* interval of the ticker that is running.  The result is the list of
\* warnings [at, remaining] still to come.
Ticks(deadline, now, remaining, tick, period) ==
    IF now + period > deadline THEN <<>>
    ELSE LET at   == now + period
             left == remaining - tick
             new  == dynamicTickDuration(left)
         IN  IF left < Second
             THEN Ticks(deadline, at, left, tick, period)
             ELSE <<[at |-> at, remaining |-> left]>>
                  \o IF new # tick THEN Ticks(deadline, at, left, new, new)
                     ELSE Ticks(deadline, at, left, tick, period)

\* The warnings of ScheduleShutdown(duration), started at time 0.
Warnings(duration) ==
    Ticks(duration, 0, duration, dynamicTickDuration(duration),
          dynamicTickDuration(duration))
====
