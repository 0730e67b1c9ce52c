------------------------------- MODULE TimeService ------------------------------
(***************************************************************************)
(* The time service, App/time.c and the handlers of cr_stack.c, on the     *)
(* tick count it shares with the watchdog of a file transfer.  A client    *)
(* sets the time of day and the time zone; the device keeps the tick count *)
(* that went with it and tells the time by the seconds counted since.      *)
(***************************************************************************)
EXTENDS Watchdog

CONSTANTS
  SYS_TICK_RATE,  \* ticks in a second
  Seconds,        \* seconds_utc of a TimeSetRequest
  Zones,          \* timezone of a TimeSetRequest, when it has one
  None            \* no request, no response

ASSUME TimeAssumption ==
  SYS_TICK_RATE \in Nat \ {0} /\ Seconds \subseteq Int /\ Zones \subseteq Int

VARIABLES
  ref,       \* sTime_refSeconds
  matching,  \* sTime_matchingTicks
  zone,      \* sHasTimezone, sTimezone
  told,      \* the TimeGetResponse of the last step
  asked,     \* the last TimeSetRequest handled
  elapsed,   \* ticks since then, up to Word
  turned     \* has the clock rolled over since then?  (no code reads these three)

timeVars == <<ref, matching, zone, told, asked, elapsed, turned>>

Zone == [has : {TRUE}, value : Zones] \cup [has : {FALSE}, value : {0}]

\* A field that is not sent is decoded as zero.
TimeSetRequest == [seconds : Seconds, zone : Zone]

TimeGetResponse == [seconds : Int, zone : Zone]

\* The types of the watchdog and of the time service; the tick count kept for the
\* time of day is a uint32_t.
DeviceTypeOK ==
  /\ TypeOK
  /\ ref \in Int /\ matching \in Uint32 /\ zone \in Zone
  /\ told \in TimeGetResponse \cup {None} /\ asked \in TimeSetRequest \cup {None}
  /\ elapsed \in 0..Word /\ turned \in BOOLEAN

TimeInit ==
  /\ ref = 0 /\ matching = 0 /\ zone = [has |-> FALSE, value |-> 0]
  /\ told = None /\ asked = None /\ elapsed = 0 /\ turned = FALSE

\* Mutant: the tick count of the first time set is kept.
SetTime_Unmatched(request) ==
  /\ ref' = request.seconds /\ zone' = request.zone
  /\ matching' = IF asked = None THEN ticks ELSE matching
  /\ asked' = request /\ elapsed' = 0 /\ turned' = FALSE
  /\ told' = None
  /\ serving
  /\ UNCHANGED vars

\* handle_time_set(), crcb_time_set()
SetTime(request) ==
  /\ ref' = request.seconds /\ zone' = request.zone
  /\ matching' = ticks
  /\ asked' = request /\ elapsed' = 0 /\ turned' = FALSE
  /\ told' = None
  /\ serving
  /\ UNCHANGED vars

\* handle_time_get(), crcb_time_get()
GetTime ==
  /\ serving
  /\ told' = [seconds |-> ref + ticks \div SYS_TICK_RATE - matching \div SYS_TICK_RATE,
              zone |-> zone]
  /\ UNCHANGED <<vars, ref, matching, zone, asked, elapsed, turned>>

\* The watchdog's handlers, the link and cr_process() as before; time passes for
\* the watchdog and the time of day alike, with a client or without.
Elsewhere ==
  /\ told' = None
  /\ UNCHANGED <<ref, matching, zone, asked>>
  /\ \/ \E gap \in 0..MaxGap :
          /\ Process(gap)
          /\ elapsed' = Later(elapsed, gap)
          /\ turned' = (turned \/ ticks + gap >= Word)
     \/ /\ \/ Stroke
           \/ End
           \/ \E msec \in Timeouts : Start(msec)
           \/ \E now \in BOOLEAN : Link(now)
        /\ UNCHANGED <<elapsed, turned>>

DeviceInit == Init /\ TimeInit

DeviceNext ==
  \/ \E request \in TimeSetRequest : SetTime(request)
  \/ GetTime
  \/ Elsewhere

DeviceSpec == DeviceInit /\ [][DeviceNext]_<<vars, timeVars>>

-------------------------------------------------------------------------------
(* Properties *)

\* As long as the tick count does not roll over, the time told is that of the
\* client who set it last plus the time since, at most a second ahead of it for
\* the fractions dropped, in the zone that client named.
TimeIsKept ==
  told # None /\ asked # None /\ ~turned =>
    /\ told.seconds - (asked.seconds + elapsed \div SYS_TICK_RATE) \in 0..1
    /\ told.zone = asked.zone

===============================================================================
