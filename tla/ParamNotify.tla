------------------------------ MODULE ParamNotify ------------------------------
(***************************************************************************)
(* Notifications of parameters, reach-c-stack/cr_params.c: a client asks   *)
(* to be told of a parameter not more often than a minimum period, not     *)
(* more seldom than a maximum one, and when it has changed by at least a   *)
(* minimum delta.  The stack keeps the requests in a few slots, and beside *)
(* each slot the value it sent last and when.                              *)
(*                                                                         *)
(* cr_process() checks all slots in a call that has neither a prompt nor a *)
(* continued transaction to handle.  Time is the tick count, a uint32_t    *)
(* that wraps at Word; values are numbers.                                 *)
(***************************************************************************)
EXTENDS Integers, FiniteSets

CONSTANTS
  Pids,          \* ids clients name
  Known,         \* those a parameter has
  Slots,         \* 1..NUM_SUPPORTED_PARAM_NOTIFY
  Requests,      \* what clients ask for: ParameterNotifyConfig
  Values,        \* values of parameters
  Changing,      \* the parameters whose value changes
  Word,          \* 2^32: the tick count wraps here
  Poll,          \* ticks between two checks of the slots, at most
  NoPid          \* a slot without a parameter

Periods == UNION {{r.min, r.max} : r \in Requests}

\* The slots are checked often enough for the tick count not to lap a period.
ASSUME NotifyAssumption ==
  /\ Changing \subseteq Known /\ Known \subseteq Pids /\ NoPid \notin Pids
  /\ Slots \subseteq Nat /\ IsFiniteSet(Slots)
  /\ Values \subseteq Nat /\ 0 \in Values
  /\ Requests \subseteq [pid : Pids, min : Nat, max : Nat, delta : Nat]
  /\ Word \in Nat \ {0} /\ Poll \in Nat \ {0}
  /\ \A period \in Periods : period + Poll < Word

VARIABLES
  ticks,       \* cr_get_current_ticks()
  value,       \* the values of the parameters
  list,        \* sCr_param_notify_list
  last,        \* sCr_last_param_values
  idle,        \* ticks since the slots were last checked
  history      \* what subscribers were told (no code reads it)

vars == <<ticks, value, list, last, idle, history>>

\* enabled is FALSE.  What such a slot still holds is never used.
Free == [pid |-> NoPid, min |-> 0, max |-> 0, delta |-> 0]
Zeroed == [value |-> 0, timestamp |-> 0]
Subscriptions == [pid : Known, min : Nat, max : Nat, delta : Nat] \cup {Free}

Enabled(i) == list[i].pid # NoPid
SlotsOf(pid) == {i \in Slots : list[i].pid = pid}
First(S) == CHOOSE i \in S : \A j \in S : i <= j
Distance(a, b) == IF a >= b THEN a - b ELSE b - a

\* No history: the parameter has not been sent since it was last configured.
Untold == [told |-> FALSE, value |-> 0, age |-> 0]

Init ==
  /\ ticks = 0
  /\ value = [p \in Known |-> 0]
  /\ list = [i \in Slots |-> Free]
  /\ last = [i \in Slots |-> Zeroed]
  /\ idle = 0
  /\ history = [of |-> [p \in Known |-> Untold], sent |-> {}]

\* Nothing is sent, and what was told of pids no longer counts.
Anew(pids) == history' = [of |-> [p \in Known |-> IF p \in pids THEN Untold ELSE history.of[p]],
                          sent |-> {}]

-------------------------------------------------------------------------------
(* pvtCrParam_config_param_notify *)

Disable(pid) ==
  /\ list' = [i \in Slots |-> IF list[i].pid = pid THEN Free ELSE list[i]]
  /\ Anew({pid})
  /\ UNCHANGED <<ticks, value, last, idle>>

\* Mutant: ids nobody knows are subscribed to.
Exists_NotChecked(pid) == TRUE

Exists(pid) == pid \in Known

\* INVALID_PARAMETER and NO_RESOURCE are reported; nothing changes.
Reject(pid) ==
  /\ ~Exists(pid)
  /\ Anew({})
  /\ UNCHANGED <<ticks, value, list, last, idle>>

\* Mutant: an active notification is not looked for.
SlotsFor_Free(pid) == SlotsOf(NoPid)

\* The slot the parameter has, or else a free one.
SlotsFor(pid) == IF SlotsOf(pid) # {} THEN SlotsOf(pid) ELSE SlotsOf(NoPid)

\* The value and time kept for the slot stay those of its last occupant.
Subscribe(req) ==
  /\ Exists(req.pid) /\ SlotsFor(req.pid) # {}
  /\ list' = [list EXCEPT ![First(SlotsFor(req.pid))] = req]
  /\ Anew({req.pid})
  /\ UNCHANGED <<ticks, value, last, idle>>

NoSlot(pid) ==
  /\ Exists(pid) /\ SlotsFor(pid) = {}
  /\ Anew({})
  /\ UNCHANGED <<ticks, value, list, last, idle>>

Enable(req) == Reject(req.pid) \/ Subscribe(req) \/ NoSlot(req.pid)

-------------------------------------------------------------------------------
(* pvtCrParam_check_for_notifications *)

Elapsed(i) == IF ticks >= last[i].timestamp THEN ticks - last[i].timestamp
              ELSE ticks - last[i].timestamp + Word

\* Mutant: the minimum period is not waited for when the value has changed.
TooSoon_OnlyUnchanged(i) ==
  Elapsed(i) < list[i].min /\ value[list[i].pid] = last[i].value

TooSoon(i) == Elapsed(i) < list[i].min

\* Mutant: the maximum period is not looked at.
Overdue_Never(i) == FALSE

Overdue(i) == list[i].max # 0 /\ Elapsed(i) > list[i].max

Changed(i) == Distance(value[list[i].pid], last[i].value) >= list[i].delta

\* Mutant: only the time is saved.
Saved_TimeOnly(i) == [last[i] EXCEPT !.timestamp = ticks]

Saved(i) == [value |-> value[list[i].pid], timestamp |-> ticks]

Due == {i \in Slots : Enabled(i) /\ ~TooSoon(i) /\ (Overdue(i) \/ Changed(i))}

\* What is known of a notification when it is sent.
Note(i) ==
  LET h == history.of[list[i].pid]
  IN  [slot |-> i, again |-> h.told, age |-> h.age,
       change |-> Distance(value[list[i].pid], h.value)]

Check ==
  /\ last' = [i \in Slots |-> IF i \in Due THEN Saved(i) ELSE last[i]]
  /\ idle' = 0
  /\ history' =
       [of |-> [p \in Known |-> IF SlotsOf(p) \cap Due # {}
                                THEN [told |-> TRUE, value |-> value[p], age |-> 0]
                                ELSE history.of[p]],
        sent |-> {Note(i) : i \in Due}]
  /\ UNCHANGED <<ticks, value, list>>

-------------------------------------------------------------------------------
(* What else happens *)

\* pvtCrParam_clear_notifications(), on a new connection.
Connect ==
  /\ list' = [i \in Slots |-> Free]
  /\ last' = [i \in Slots |-> Zeroed]
  /\ Anew(Known)
  /\ UNCHANGED <<ticks, value, idle>>

Change(p, v) ==
  /\ value' = [value EXCEPT ![p] = v]
  /\ Anew({})
  /\ UNCHANGED <<ticks, list, last, idle>>

\* How far the age of a notification matters.
Aged(h, c) ==
  IF h.age >= c.min /\ (c.max = 0 \/ h.age > c.max + 2 * Poll) THEN h
  ELSE [h EXCEPT !.age = @ + 1]

Tick ==
  /\ idle < Poll
  /\ idle' = idle + 1
  /\ ticks' = IF ticks + 1 < Word THEN ticks + 1 ELSE 0
  /\ history' = [of |-> [p \in Known |->
                   IF SlotsOf(p) = {} THEN history.of[p]
                   ELSE Aged(history.of[p], list[First(SlotsOf(p))])],
                 sent |-> {}]
  /\ UNCHANGED <<value, list, last>>

Next ==
  \/ \E pid \in Pids : Disable(pid)
  \/ \E req \in Requests : Enable(req)
  \/ Check
  \/ Connect
  \/ \E p \in Changing, v \in Values : Change(p, v)
  \/ Tick

Spec == Init /\ [][Next]_vars

\* Time passes, and cr_process() comes to the check.
FairSpec == Spec /\ WF_vars(Tick) /\ WF_vars(Check)

-------------------------------------------------------------------------------
(* Properties *)

\* The slots hold what clients may ask for.
TypeOK ==
  /\ ticks \in 0..(Word - 1)
  /\ value \in [Known -> Values]
  /\ list \in [Slots -> Subscriptions]
  /\ last \in [Slots -> [value : Values, timestamp : 0..(Word - 1)]]
  /\ idle \in 0..Poll

\* No parameter has two slots, however slots were freed and taken before: it would be
\* notified twice, and by two sets of periods.
OneSlotEach == \A p \in Known : Cardinality(SlotsOf(p)) <= 1

\* A client that was told of a parameter is not told again before the minimum period
\* is over, across any roll-over of the tick count.
NotTooOften ==
  \A n \in history.sent : n.again => n.age >= list[n.slot].min

\* "notify only if change by this much" (reach.proto:280), or because of the maximum
\* period: the change is counted from what the client was last told.
OnlyChanges ==
  \A n \in history.sent : n.again =>
    \/ n.change >= list[n.slot].delta
    \/ list[n.slot].max # 0 /\ n.age > list[n.slot].max

\* As long as the slots are checked every Poll ticks, a client that named a maximum
\* period is never without news for much longer: one poll, and another one when the
\* clock rolls over in a slot that still holds the time of another parameter.
NeverSilent ==
  \A i \in Slots : Enabled(i) /\ list[i].max >= list[i].min /\ list[i].max # 0 =>
    history.of[list[i].pid].age <= list[i].max + 2 * Poll

\* A value that differs by the minimum delta from what the client was told.
Outdated(p) ==
  /\ SlotsOf(p) # {} /\ history.of[p].told
  /\ Distance(value[p], history.of[p].value) >= list[First(SlotsOf(p))].delta

\* Whatever else is configured meanwhile, such a client is told, unless the value
\* returns to what it was or the client no longer asks.
ChangesAreTold == \A p \in Changing : Outdated(p) ~> ~Outdated(p)

===============================================================================
