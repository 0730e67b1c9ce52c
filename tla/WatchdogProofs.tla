----------------------------- MODULE WatchdogProofs -----------------------------
(***************************************************************************)
(* As long as the clock does not roll over, the watchdog times transfers,  *)
(* but for the ticks nobody was connected, and the time service tells the  *)
(* time correctly, for every word size, every pace of cr_process() and     *)
(* every order of connections and disconnections.                          *)
(***************************************************************************)
EXTENDS TimeService, TLAPS

\* While nothing has rolled over, clock and target are as far apart as what is
\* left of the timeout, and the clock has not been running for less than the age.
InStep == ~rolled /\ is_active => ticks + period = target + age /\ period <= target

\* What has been found timed out had its target passed.
Passed == ~rolled /\ expired => ticks + period = target + age /\ target < ticks

\* A call that serves a client has looked at the watchdog.
Watched == serving => unwatched = 0

IInv == TypeOK /\ InStep /\ Passed /\ NotLate /\ Watched

LEMMA InitIInv == Init => IInv
<1>1. 0 \in Uint32 /\ 0 \in 0..Word
  BY WatchdogAssumption DEF Uint32
<1> SUFFICES ASSUME Init PROVE IInv
  OBVIOUS
<1>2. TypeOK
  BY <1>1 DEF Init, TypeOK
<1> QED
  BY <1>2 DEF Init, IInv, InStep, Passed, NotLate, Watched

LEMMA PlusType ==
  ASSUME NEW a \in Uint32, NEW b \in Uint32
  PROVE  Plus(a, b) \in Uint32
  BY WatchdogAssumption DEF Uint32, Plus

\* Starting or stroking the watchdog makes its age and its target anew.
LEMMA AimIInv ==
  ASSUME IInv, NEW msec \in Uint32, Aim(msec), Handled,
         is_active' \in BOOLEAN, period' = msec
  PROVE  IInv'
<1>1. ticks \in Uint32 /\ ticks' = ticks /\ unwatched' = 0 /\ 0 \in 0..Word
  BY WatchdogAssumption DEF IInv, TypeOK, Watched, Handled
<1>2. TypeOK'
  <2>1. target' \in Uint32
    BY <1>1, PlusType DEF Aim
  <2>2. age' \in 0..Word /\ rolled' \in BOOLEAN
    BY WatchdogAssumption DEF Aim
  <2> QED
    BY <1>1, <2>1, <2>2 DEF TypeOK, IInv, Handled, link
<1>3. InStep' /\ NotLate'
  BY <1>1, WatchdogAssumption DEF Aim, InStep, NotLate, Plus, Uint32
<1> QED
  BY <1>1, <1>2, <1>3 DEF IInv, Passed, Watched, Handled

LEMMA StartIInv ==
  ASSUME IInv, NEW msec \in Timeouts, Start(msec)
  PROVE  IInv'
<1>1. msec \in Uint32
  BY WatchdogAssumption DEF Uint32
<1>2. CASE msec > 0 /\ is_active' = TRUE /\ period' = msec /\ Aim(msec)
  BY <1>1, <1>2, AimIInv DEF Start
<1>3. CASE msec = 0 /\ is_active' = FALSE /\ UNCHANGED <<period, target, age, rolled>>
  BY <1>3 DEF Start, Handled, link, IInv, TypeOK, InStep, Passed, NotLate, Watched
<1> QED
  BY <1>2, <1>3 DEF Start

LEMMA StrokeIInv == IInv /\ Stroke => IInv'
<1> SUFFICES ASSUME IInv, Stroke PROVE IInv'
  OBVIOUS
<1>1. period \in Uint32 /\ is_active \in BOOLEAN
  BY DEF IInv, TypeOK
<1> QED
  BY <1>1, AimIInv DEF Stroke

LEMMA EndIInv == IInv /\ End => IInv'
<1> SUFFICES ASSUME IInv, End PROVE IInv'
  OBVIOUS
<1>1. /\ is_active' = FALSE /\ expired' = FALSE
      /\ UNCHANGED <<ticks, connected, serving, period, target, age, rolled, unwatched>>
  BY DEF End, Handled, link
<1>2. TypeOK'
  BY <1>1 DEF IInv, TypeOK
<1> QED
  BY <1>1, <1>2 DEF IInv, InStep, Passed, NotLate, Watched

\* The link changes between two calls; the watchdog is left as it is.
LEMMA LinkIInv ==
  ASSUME IInv, NEW now \in BOOLEAN, Link(now)
  PROVE  IInv'
  BY DEF Link, IInv, TypeOK, InStep, Passed, NotLate, Watched

\* A call of cr_process(): clock and age move on by the same gap, and so do the ticks
\* that pass unwatched when there is no client.
LEMMA ProcessIInv ==
  ASSUME IInv, NEW gap \in 0..MaxGap, Process(gap)
  PROVE  IInv'
<1>1. /\ ticks \in Nat /\ period \in Nat /\ target \in Nat /\ age \in Nat
      /\ Word \in Nat /\ gap \in Nat /\ gap < Word
      /\ ticks < Word /\ period < Word /\ target < Word /\ age <= Word
      /\ is_active \in BOOLEAN /\ rolled \in BOOLEAN /\ connected \in BOOLEAN
      /\ unwatched \in Nat /\ unwatched <= Word
  BY WatchdogAssumption DEF IInv, TypeOK, Uint32
<1>2. UNCHANGED <<connected, period, target>> /\ serving' = connected
  BY DEF Process
<1>3. TypeOK'
  <2>1. ticks' \in Uint32
    BY <1>1 DEF Process, Plus, Uint32
  <2>2. age' \in 0..Word /\ unwatched' \in 0..Word
    BY <1>1 DEF Process, Later
  <2>3. is_active' \in BOOLEAN /\ expired' \in BOOLEAN /\ rolled' \in BOOLEAN
    BY <1>1 DEF Process, TimedOut
  <2> QED
    BY <1>2, <2>1, <2>2, <2>3 DEF TypeOK, IInv
<1>4. ASSUME is_active, ~rolled'
      PROVE  ticks' + period = target + age' /\ period <= target
  <2>1. ~rolled /\ ticks + gap < Word
    <3>1. rolled' = (rolled \/ ticks + gap >= Word)
      BY DEF Process
    <3>2. ~rolled /\ ~(ticks + gap >= Word)
      BY <1>4, <3>1
    <3> QED
      BY <1>1, <3>2
  <2>2. ticks + period = target + age /\ period <= target
    BY <1>4, <2>1 DEF IInv, InStep
  <2>3. ticks' = ticks + gap
    BY <2>1 DEF Process, Plus
  <2>4. age + gap < Word
    BY <1>1, <2>1, <2>2
  <2>5. age' = age + gap
    BY <2>4 DEF Process, Later
  <2> QED
    BY <1>1, <2>2, <2>3, <2>5
<1>5. InStep'
  BY <1>1, <1>2, <1>4 DEF Process, InStep
<1>6. Passed'
  <2>1. expired' => is_active /\ ticks' > target
    BY DEF Process, TimedOut
  <2>2. ticks' \in Nat
    BY <1>1, <1>3 DEF TypeOK, Uint32
  <2> QED
    BY <1>1, <1>2, <1>4, <2>1, <2>2 DEF Passed
<1>7. NotLate'
  <2>1. ticks' \in Nat /\ age' \in Nat /\ age' <= Word /\ unwatched' \in Nat
    BY <1>1, <1>3 DEF TypeOK, Uint32
  <2>2. CASE connected
    <3>1. is_active' => is_active /\ ~(ticks' > target)
      BY <2>2 DEF Process, TimedOut
    <3>2. ASSUME is_active', ~rolled' PROVE age' <= period' + unwatched'
      <4>1. is_active /\ ticks' <= target
        BY <1>1, <2>1, <3>1, <3>2
      <4>2. ticks' + period = target + age'
        BY <1>4, <3>2, <4>1
      <4>3. age' <= period
        BY <1>1, <2>1, <4>1, <4>2
      <4>4. period' = period /\ unwatched' = 0
        BY <2>2 DEF Process
      <4> QED
        BY <1>1, <2>1, <4>3, <4>4
    <3> QED
      BY <3>2 DEF NotLate
  <2>3. CASE ~connected
    <3>1. is_active' = is_active /\ unwatched' = Later(unwatched, gap)
          /\ age' = Later(age, gap) /\ (rolled => rolled')
      BY <2>3 DEF Process
    <3>2. is_active /\ ~rolled => age <= period + unwatched
      BY DEF IInv, NotLate
    <3>3. is_active' /\ ~rolled' => age' <= period' + unwatched'
      BY <1>1, <1>2, <2>1, <3>1, <3>2 DEF Later
    <3> QED
      BY <3>3 DEF NotLate
  <2> QED
    BY <2>2, <2>3
<1>8. Watched'
  BY <1>2 DEF Process, Watched
<1> QED
  BY <1>3, <1>5, <1>6, <1>7, <1>8 DEF IInv

LEMMA StutterIInv == IInv /\ UNCHANGED vars => IInv'
  BY DEF IInv, TypeOK, InStep, Passed, NotLate, Watched, vars, link

LEMMA StepIInv == IInv /\ Next => IInv'
  BY LinkIInv, StartIInv, StrokeIInv, EndIInv, ProcessIInv DEF Next

-------------------------------------------------------------------------------
(* The time of day, on the same ticks *)

\* Seconds counted apart differ from the seconds of the sum by one at most.
LEMMA SecondsApart ==
  ASSUME NEW m \in Nat, NEW e \in Nat, NEW r \in Nat \ {0}
  PROVE  (m + e) \div r - m \div r - e \div r \in 0..1
<1> DEFINE q == (m + e) \div r  qm == m \div r  qe == e \div r
<1>1. /\ q \in Int /\ r * q <= m + e /\ m + e < r * q + r
      /\ qm \in Int /\ r * qm <= m /\ m < r * qm + r
      /\ qe \in Int /\ r * qe <= e /\ e < r * qe + r
  OBVIOUS
<1> QED
  BY <1>1

\* Until the clock rolls over, it shows how long ago the time was set.
TimeInStep ==
  asked # None =>
    /\ ref = asked.seconds /\ zone = asked.zone /\ ref \in Int
    /\ ~turned => matching + elapsed = ticks
    /\ matching \in Nat /\ elapsed \in Nat /\ turned \in BOOLEAN

TInv == IInv /\ DeviceTypeOK /\ TimeInStep /\ TimeIsKept

LEMMA TimeInitIInv == DeviceInit => TInv
<1> SUFFICES ASSUME DeviceInit PROVE TInv
  OBVIOUS
<1>1. IInv
  BY InitIInv DEF DeviceInit
<1>2. DeviceTypeOK
  <2>1. 0 \in Int /\ 0 \in Uint32 /\ 0 \in 0..Word /\ [has |-> FALSE, value |-> 0] \in Zone
    BY WatchdogAssumption DEF Uint32, Zone
  <2> QED
    BY <1>1, <2>1 DEF DeviceInit, TimeInit, IInv, DeviceTypeOK
<1> QED
  BY <1>1, <1>2 DEF DeviceInit, TimeInit, TInv, TimeInStep, TimeIsKept

LEMMA TicksType ==
  ASSUME IInv
  PROVE  ticks \in Nat /\ Word \in Nat
  BY WatchdogAssumption DEF IInv, TypeOK, Uint32

LEMMA SetTimeIInv ==
  ASSUME TInv, NEW request \in TimeSetRequest, SetTime(request)
  PROVE  TInv'
<1>1. IInv'
  BY StutterIInv DEF TInv, SetTime
<1>2. ticks' = ticks /\ ticks \in Nat
  BY TicksType DEF SetTime, vars, TInv
<1>3. request.seconds \in Int
  BY TimeAssumption DEF TimeSetRequest
<1>4. TimeInStep'
  <2>1. ref' = asked'.seconds /\ zone' = asked'.zone /\ ref' \in Int
    BY <1>3 DEF SetTime
  <2>2. matching' = ticks /\ elapsed' = 0 /\ turned' = FALSE
    BY DEF SetTime
  <2>3. matching' + elapsed' = ticks'
    BY <1>2, <2>2
  <2> QED
    BY <1>2, <2>1, <2>2, <2>3 DEF TimeInStep
<1>5. TimeIsKept'
  BY DEF SetTime, TimeIsKept
<1>6. DeviceTypeOK'
  <2>1. ticks \in Uint32 /\ 0 \in 0..Word /\ request.seconds \in Int /\ request.zone \in Zone
    BY <1>3, WatchdogAssumption DEF TInv, IInv, TypeOK, TimeSetRequest
  <2> QED
    BY <1>1, <2>1 DEF SetTime, IInv, DeviceTypeOK
<1> QED
  BY <1>1, <1>4, <1>5, <1>6 DEF TInv

LEMMA GetTimeIInv ==
  ASSUME TInv, GetTime
  PROVE  TInv'
<1>1. IInv'
  BY StutterIInv DEF TInv, GetTime
<1>2. TimeInStep'
  BY DEF GetTime, vars, TimeInStep, TInv
<1>3. TimeIsKept'
  <2> SUFFICES ASSUME asked # None, ~turned
               PROVE  /\ told'.seconds - (asked.seconds + elapsed \div SYS_TICK_RATE) \in 0..1
                      /\ told'.zone = asked.zone
    BY DEF GetTime, TimeIsKept
  <2> DEFINE now == ticks \div SYS_TICK_RATE
             then == matching \div SYS_TICK_RATE
             since == elapsed \div SYS_TICK_RATE
  <2>1. /\ ref = asked.seconds /\ zone = asked.zone /\ ref \in Int
        /\ matching + elapsed = ticks /\ matching \in Nat /\ elapsed \in Nat
    BY DEF TInv, TimeInStep
  <2>2. now - then - since \in 0..1
    BY <2>1, SecondsApart, TimeAssumption
  <2>3. now \in Int /\ then \in Int /\ since \in Int
    BY <2>1, TimeAssumption, TicksType DEF TInv
  <2>4. told'.seconds = ref + now - then /\ told'.zone = zone
    BY DEF GetTime
  <2> HIDE DEF now, then, since
  <2>5. ref + now - then - (ref + since) \in 0..1
    BY <2>1, <2>2, <2>3
  <2>6. told'.seconds = ref + now - then /\ asked.seconds = ref /\ told'.zone = asked.zone
    BY <2>1, <2>4
  <2>7. told'.seconds - (asked.seconds + since) \in 0..1
    BY <2>1, <2>3, <2>5, <2>6
  <2> QED
    BY <2>6, <2>7 DEF since
<1>4. DeviceTypeOK'
  <2> DEFINE seconds == ref + ticks \div SYS_TICK_RATE - matching \div SYS_TICK_RATE
  <2>1. /\ ref \in Int /\ ticks \in Nat /\ matching \in Nat /\ zone \in Zone
    BY WatchdogAssumption, TicksType DEF TInv, DeviceTypeOK, Uint32
  <2>2. seconds \in Int
    BY <2>1, TimeAssumption
  <2> HIDE DEF seconds
  <2>3. told' = [seconds |-> seconds, zone |-> zone]
    BY DEF GetTime, seconds
  <2>4. told' \in TimeGetResponse
    BY <2>1, <2>2, <2>3 DEF TimeGetResponse
  <2> QED
    BY <1>1, <2>4 DEF GetTime, TInv, IInv, DeviceTypeOK
<1> QED
  BY <1>1, <1>2, <1>3, <1>4 DEF TInv

LEMMA ElsewhereIInv ==
  ASSUME TInv, Elsewhere
  PROVE  TInv'
<1>1. Next
  BY DEF Elsewhere, Next
<1>2. IInv'
  BY <1>1, StepIInv DEF TInv
<1>3. TimeIsKept'
  BY DEF Elsewhere, TimeIsKept
<1>4. TimeInStep'
  <2> SUFFICES ASSUME asked # None
               PROVE  /\ ~turned' => matching + elapsed' = ticks'
                      /\ elapsed' \in Nat /\ turned' \in BOOLEAN
    BY DEF Elsewhere, TimeInStep, TInv
  <2>1. /\ ~turned => matching + elapsed = ticks
        /\ matching \in Nat /\ elapsed \in Nat /\ turned \in BOOLEAN
        /\ ticks \in Nat /\ Word \in Nat
    BY TicksType DEF TInv, TimeInStep
  <2>2. CASE /\ \/ Stroke
                \/ End
                \/ \E msec \in Timeouts : Start(msec)
                \/ \E now \in BOOLEAN : Link(now)
             /\ UNCHANGED <<elapsed, turned>>
    <3>1. ticks' = ticks
      BY <2>2 DEF Stroke, End, Start, Link, Handled
    <3> QED
      BY <2>1, <2>2, <3>1
  <2>3. ASSUME NEW gap \in 0..MaxGap, Process(gap),
               elapsed' = Later(elapsed, gap),
               turned' = (turned \/ ticks + gap >= Word)
        PROVE  /\ ~turned' => matching + elapsed' = ticks'
               /\ elapsed' \in Nat /\ turned' \in BOOLEAN
    <3>1. gap \in Nat
      BY WatchdogAssumption
    <3>2. elapsed' \in Nat /\ turned' \in BOOLEAN
      BY <2>1, <2>3, <3>1 DEF Later
    <3>3. ASSUME ~turned'
          PROVE  matching + elapsed' = ticks'
      <4>1. ~turned /\ ~(ticks + gap >= Word)
        BY <2>3, <3>3
      <4>2. ticks + gap < Word /\ matching + elapsed = ticks
        BY <2>1, <3>1, <4>1
      <4>3. ticks' = ticks + gap
        BY <2>3, <4>2 DEF Process, Plus
      <4> QED
        BY <2>1, <2>3, <3>1, <4>2, <4>3 DEF Later
    <3> QED
      BY <3>2, <3>3
  <2> QED
    BY <2>2, <2>3 DEF Elsewhere
<1>5. DeviceTypeOK'
  <2>1. elapsed \in 0..Word /\ turned \in BOOLEAN
    BY DEF TInv, DeviceTypeOK
  <2>2. ASSUME NEW gap \in 0..MaxGap
        PROVE  Later(elapsed, gap) \in 0..Word /\ (turned \/ ticks + gap >= Word) \in BOOLEAN
    BY <2>1, WatchdogAssumption DEF Later
  <2>3. elapsed' \in 0..Word /\ turned' \in BOOLEAN
    BY <2>1, <2>2 DEF Elsewhere
  <2> QED
    BY <1>2, <2>3 DEF Elsewhere, TInv, IInv, DeviceTypeOK
<1> QED
  BY <1>2, <1>3, <1>4, <1>5 DEF TInv

LEMMA Invariance == DeviceSpec => []TInv
<1>1. TInv /\ UNCHANGED <<vars, timeVars>> => TInv'
  <2> SUFFICES ASSUME TInv, UNCHANGED <<vars, timeVars>> PROVE TInv'
    OBVIOUS
  <2>1. IInv'
    BY StutterIInv DEF TInv
  <2> QED
    BY <2>1 DEF TInv, IInv, DeviceTypeOK, TimeInStep, TimeIsKept, vars, timeVars
<1>2. TInv /\ [DeviceNext]_<<vars, timeVars>> => TInv'
  BY <1>1, SetTimeIInv, GetTimeIInv, ElsewhereIInv DEF DeviceNext
<1> QED
  BY <1>2, TimeInitIInv, PTL DEF DeviceSpec

-------------------------------------------------------------------------------
(* Theorems *)

\* The variables of the watchdog and of the time service keep the types of the C
\* variables, whatever the clock, the connections and the requests.
THEOREM TypeCorrect == DeviceSpec => []DeviceTypeOK
<1>1. TInv => DeviceTypeOK
  BY DEF TInv
<1> QED
  BY <1>1, Invariance, PTL

\* Until the clock rolls over, a transfer is never declared timed out before its
\* timeout has passed...
THEOREM OnTime == DeviceSpec => []NotEarly
<1>1. TInv => NotEarly
  BY DEF TInv, IInv, TypeOK, Passed, NotEarly, Uint32
<1> QED
  BY <1>1, Invariance, PTL

\* ... and is declared so at the first call of cr_process() that finds a client
\* connected: it is overdue by no more than the ticks passed without one.
THEOREM NoneMissed == DeviceSpec => []NotLate
<1>1. TInv => NotLate
  BY DEF TInv, IInv
<1> QED
  BY <1>1, Invariance, PTL

\* Until the clock rolls over, the time told is the time set plus the time since, to
\* the second, whatever the tick rate, the width of the clock and the times set.
THEOREM TimeIsTold == DeviceSpec => []TimeIsKept
<1>1. TInv => TimeIsKept
  BY DEF TInv
<1> QED
  BY <1>1, Invariance, PTL

===============================================================================
