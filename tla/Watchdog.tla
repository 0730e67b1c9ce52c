--------------------------------- MODULE Watchdog -------------------------------
(***************************************************************************)
(* The timeout watchdog of a file transfer, reach-c-stack/cr_files.c.      *)
(* FileService.tla lets a running watchdog expire at any time; here it has *)
(* its clock: the ticks given to cr_process(), a C uint32_t that rolls     *)
(* over, and the target it is compared with.  cr_process() stores the      *)
(* ticks in every call, and looks at the watchdog, and handles messages,   *)
(* only in one that finds a client connected.                              *)
(***************************************************************************)
EXTENDS Integers

CONSTANTS
  Word,      \* 2^32
  Timeouts,  \* timeout_in_ms of a FileTransferInit, 0 for none
  MaxGap     \* bound on the ticks between two calls of cr_process()

ASSUME WatchdogAssumption ==
  /\ Word \in Nat \ {0} /\ MaxGap \in 1..(Word - 1)
  /\ Timeouts \subseteq 0..(Word - 1)

VARIABLES
  ticks,       \* sCurrentTicks
  connected,   \* sCr_comm_link_is_connected
  serving,     \* has the last call of cr_process() found that client connected?
  is_active, period, target,   \* sTimeoutWatchdog_...
  expired,     \* did the last step find it timed out?
  age,         \* ticks since the watchdog was started or stroked, up to Word
  rolled,      \* has the clock, or the target, rolled over since then?
  unwatched    \* ticks since a call last looked at the watchdog, up to Word
               \* (no code reads these three)

link == <<connected, serving>>

vars == <<ticks, link, is_active, period, target, expired, age, rolled, unwatched>>

Uint32 == 0..(Word - 1)
\* Mutant: the sum does not roll over.
Plus_Wider(a, b) == a + b

Plus(a, b) == IF a + b < Word THEN a + b ELSE a + b - Word

\* The times are uint32_t values, the sum of a tick and a period included, and the
\* true age stays within one turn of the clock.
TypeOK ==
  /\ ticks \in Uint32 /\ period \in Uint32 /\ target \in Uint32
  /\ is_active \in BOOLEAN /\ expired \in BOOLEAN /\ rolled \in BOOLEAN
  /\ age \in 0..Word /\ unwatched \in 0..Word
  /\ connected \in BOOLEAN /\ serving \in BOOLEAN /\ (serving => connected)

Init ==
  /\ ticks = 0 /\ connected = FALSE /\ serving = FALSE /\ unwatched = 0
  /\ is_active = FALSE /\ period = 0 /\ target = 0
  /\ expired = FALSE /\ age = 0 /\ rolled = FALSE

\* cr_set_comm_link_connected() leaves the watchdog as it is.
Link(now) ==
  /\ connected' = now
  /\ serving' = FALSE
  /\ expired' = FALSE
  /\ UNCHANGED <<ticks, is_active, period, target, age, rolled, unwatched>>

\* The handlers that start, stroke and end it run in calls that serve a client.
Handled ==
  /\ serving
  /\ expired' = FALSE
  /\ UNCHANGED <<ticks, link, unwatched>>

\* The target msec ticks from now.
Aim(msec) ==
  /\ target' = Plus(ticks, msec)
  /\ age' = 0
  /\ rolled' = (ticks + msec >= Word)

\* pvtCr_watchdog_start_timeout()
Start(msec) ==
  /\ \/ msec > 0 /\ is_active' = TRUE /\ period' = msec /\ Aim(msec)
     \/ msec = 0 /\ is_active' = FALSE /\ UNCHANGED <<period, target, age, rolled>>
  /\ Handled

\* pvtCr_watchdog_stroke_timeout()
Stroke ==
  /\ is_active
  /\ Aim(period)
  /\ Handled
  /\ UNCHANGED <<is_active, period>>

\* pvtCr_watchdog_end_timeout()
End ==
  /\ is_active' = FALSE
  /\ Handled
  /\ UNCHANGED <<period, target, age, rolled>>

\* Mutant: a tick too early.
TimedOut_Early(now) == is_active /\ now >= target

\* pvtCr_watchdog_check_timeout()
TimedOut(now) == is_active /\ now > target

Later(span, gap) == IF span + gap < Word THEN span + gap ELSE Word

\* Mutant: the ticks are stored after the watchdog is looked at.
Process_StoredLast(gap) ==
  /\ ticks' = Plus(ticks, gap)
  /\ age' = Later(age, gap)
  /\ rolled' = (rolled \/ ticks + gap >= Word)
  /\ serving' = connected
  /\ expired' = (connected /\ TimedOut(ticks))
  /\ is_active' = (is_active /\ ~expired')
  /\ unwatched' = IF connected THEN 0 ELSE Later(unwatched, gap)
  /\ UNCHANGED <<connected, period, target>>

\* cr_process(): the ticks are stored; a call that finds no client returns before
\* it looks at the watchdog, and the others end one that has expired.
Process(gap) ==
  /\ ticks' = Plus(ticks, gap)
  /\ age' = Later(age, gap)
  /\ rolled' = (rolled \/ ticks + gap >= Word)
  /\ serving' = connected
  /\ \/ /\ ~connected
        /\ expired' = FALSE
        /\ unwatched' = Later(unwatched, gap)
        /\ UNCHANGED is_active
     \/ /\ connected
        /\ expired' = TimedOut(ticks')
        /\ is_active' = (is_active /\ ~expired')
        /\ unwatched' = 0
  /\ UNCHANGED <<connected, period, target>>

Next ==
  \/ \E now \in BOOLEAN : Link(now)
  \/ \E msec \in Timeouts : Start(msec)
  \/ Stroke
  \/ End
  \/ \E gap \in 0..MaxGap : Process(gap)

Spec == Init /\ [][Next]_vars

-------------------------------------------------------------------------------
(* Properties *)

\* Unless the clock rolls over, a transfer is never declared timed out before
\* its whole timeout has passed without a message...
NotEarly == expired /\ ~rolled => age > period

\* ... and it is overlooked only while nobody is connected: the ticks by which it is
\* overdue have all passed in calls that found no client, and the first call that
\* finds one declares it, also to a client other than the one it was started for.
NotLate == is_active /\ ~rolled => age <= period + unwatched

\* "return 1 if timeout occurred" (cr_files.c:635), whatever the clock reads.
TimeoutOccurred == expired => age > period

===============================================================================
