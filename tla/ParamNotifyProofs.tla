---------------------------- MODULE ParamNotifyProofs ----------------------------
(***************************************************************************)
(* What subscribers are promised holds for any number of slots and         *)
(* parameters, any periods, and any width of the tick count.               *)
(***************************************************************************)
EXTENDS ParamNotify, FiniteSetTheorems, WellFoundedInduction, TLAPS

Record == [told : BOOLEAN, value : Values, age : Nat]

HistoryOK == history.of \in [Known -> Record]

\* OneSlotEach, said of the slots themselves.
Separate == \A i, j \in Slots : Enabled(i) /\ list[i].pid = list[j].pid => i = j

\* The age of a notification counts the ticks only as far as they matter.
Capped(h, c) == h.age >= c.min /\ (c.max = 0 \/ h.age > c.max)

\* A slot whose parameter has been told of holds what was told, and the time that has
\* passed for the slot has passed for the subscriber too.
SlotIsTrue(i) ==
  Enabled(i) /\ history.of[list[i].pid].told =>
    /\ last[i].value = history.of[list[i].pid].value
    /\ \/ Elapsed(i) <= history.of[list[i].pid].age
       \/ Capped(history.of[list[i].pid], list[i])

SlotsAreTrue == \A i \in Slots : SlotIsTrue(i)

IInv == TypeOK /\ HistoryOK /\ Separate /\ SlotsAreTrue /\ NotTooOften /\ OnlyChanges

-------------------------------------------------------------------------------
(* Lemmas about the slots *)

\* A search from the first slot on finds a slot of the set: of the intervals from 0
\* to a member, one is minimal.
LEMMA FirstIn ==
  ASSUME NEW S \in SUBSET Slots, S # {}
  PROVE  First(S) \in S
<1>1. S \subseteq Nat
  BY NotifyAssumption
<1> DEFINE T == {0..x : x \in S}
           R == StrictSubsetOrdering(Nat)
<1>2. T \subseteq FiniteSubsetsOf(Nat) /\ T # {}
  <2>1. \A x \in S : IsFiniteSet(0..x)
    BY <1>1, FS_Interval
  <2>2. ASSUME NEW x \in S PROVE 0..x \in FiniteSubsetsOf(Nat)
    <3>1. 0..x \in SUBSET Nat
      BY <1>1
    <3> QED
      BY <2>1, <3>1 DEF FiniteSubsetsOf
  <2> QED
    BY <2>2
<1>3. IsWellFoundedOn(R, FiniteSubsetsOf(Nat))
  BY FS_StrictSubsetOrderingWellFounded
<1>4. \E t \in T : \A u \in T : <<u, t>> \notin R
  <2> HIDE DEF T, R
  <2> QED
    BY <1>2, <1>3, WFMin
<1>5. PICK x \in S : \A y \in S : <<0..y, 0..x>> \notin R
  BY <1>4
<1>6. \A y \in S : x <= y
  <2> SUFFICES ASSUME NEW y \in S, y < x PROVE FALSE
    BY <1>1
  <2>1. 0..y \subseteq 0..x /\ x \in 0..x /\ x \notin 0..y
    BY <1>1
  <2>2. 0..y \in SUBSET Nat /\ 0..x \in SUBSET Nat
    BY <1>1
  <2>3. <<0..y, 0..x>> \in R
    BY <2>1, <2>2 DEF StrictSubsetOrdering
  <2> QED
    BY <1>5, <2>3
<1> QED
  BY <1>6 DEF First

\* An enabled slot is the only one, and so the first one, of its parameter.
LEMMA OnlySlot ==
  ASSUME Separate, NEW i \in Slots, Enabled(i)
  PROVE  SlotsOf(list[i].pid) = {i} /\ First(SlotsOf(list[i].pid)) = i
<1>1. SlotsOf(list[i].pid) = {i}
  BY DEF Separate, SlotsOf
<1>2. First(SlotsOf(list[i].pid)) \in SlotsOf(list[i].pid)
  BY <1>1, FirstIn
<1> QED
  BY <1>1, <1>2

LEMMA EnabledKnown ==
  ASSUME TypeOK, NEW i \in Slots
  PROVE  /\ list[i] \in Subscriptions
         /\ Enabled(i) => list[i].pid \in Known
         /\ list[i].min \in Nat /\ list[i].max \in Nat /\ list[i].delta \in Nat
  BY DEF TypeOK, Subscriptions, Free, Enabled

LEMMA ElapsedType ==
  ASSUME TypeOK, NEW i \in Slots
  PROVE  Elapsed(i) \in Nat
<1>1. ticks \in 0..(Word - 1) /\ last[i].timestamp \in 0..(Word - 1) /\ Word \in Nat
  BY NotifyAssumption DEF TypeOK
<1> QED
  BY <1>1 DEF Elapsed

\* Configuring forgets what was told of some parameters, and nothing else.
LEMMA AnewKeeps ==
  ASSUME HistoryOK, NEW pids, Anew(pids)
  PROVE  /\ HistoryOK'
         /\ history.sent' = {}
         /\ \A p \in Known : history.of'[p] = IF p \in pids THEN Untold ELSE history.of[p]
<1>1. Untold \in Record
  BY NotifyAssumption DEF Untold, Record
<1> QED
  BY <1>1 DEF Anew, HistoryOK

\* Nothing is sent, so nothing is sent too often or without a change.
LEMMA NothingSent ==
  ASSUME history.sent' = {}
  PROVE  NotTooOften' /\ OnlyChanges'
  BY DEF NotTooOften, OnlyChanges

-------------------------------------------------------------------------------
(* The initial state and the actions *)

LEMMA InitIInv == Init => IInv
<1> SUFFICES ASSUME Init PROVE IInv
  OBVIOUS
<1>1. TypeOK
  <2>1. Zeroed \in [value : Values, timestamp : 0..(Word - 1)]
    BY NotifyAssumption DEF Zeroed
  <2>2. Free \in Subscriptions
    BY DEF Subscriptions
  <2> QED
    BY <2>1, <2>2, NotifyAssumption DEF Init, TypeOK
<1>2. HistoryOK
  BY NotifyAssumption DEF Init, HistoryOK, Untold, Record
<1>3. \A i \in Slots : ~Enabled(i)
  BY DEF Init, Enabled, Free
<1>4. Separate /\ SlotsAreTrue
  BY <1>3 DEF Separate, SlotsAreTrue, SlotIsTrue
<1> QED
  BY <1>1, <1>2, <1>4 DEF Init, IInv, NotTooOften, OnlyChanges

\* A slot that an action leaves as it was stays true, whether or not what was told of
\* its parameter is forgotten.
LEMMA UntouchedSlot ==
  ASSUME IInv, NEW pids, Anew(pids), NEW i \in Slots,
         list'[i] = list[i], last'[i] = last[i], UNCHANGED ticks
  PROVE  SlotIsTrue(i)'
<1>1. Enabled(i)' <=> Enabled(i)
  BY DEF Enabled
<1>2. Elapsed(i)' = Elapsed(i)
  BY DEF Elapsed
<1>3. SlotIsTrue(i)
  BY DEF IInv, SlotsAreTrue
<1> SUFFICES ASSUME Enabled(i), history.of'[list[i].pid].told PROVE SlotIsTrue(i)'
  BY <1>1 DEF SlotIsTrue
<1>4. list[i].pid \in Known
  BY EnabledKnown DEF IInv
<1>5. history.of'[list[i].pid] = history.of[list[i].pid]
  BY <1>4, AnewKeeps DEF IInv, Untold
<1> QED
  BY <1>2, <1>3, <1>5 DEF SlotIsTrue, Capped

LEMMA DisableIInv ==
  ASSUME IInv, NEW pid \in Pids, Disable(pid)
  PROVE  IInv'
<1>1. Anew({pid}) /\ UNCHANGED <<ticks, value, last, idle>>
  BY DEF Disable
<1>2. \A i \in Slots : list'[i] = IF list[i].pid = pid THEN Free ELSE list[i]
  BY DEF Disable
<1>3. TypeOK'
  BY <1>1 DEF Disable, IInv, TypeOK, Subscriptions
<1>4. Separate'
  BY <1>2 DEF IInv, Separate, Enabled, Free
<1>5. ASSUME NEW i \in Slots PROVE SlotIsTrue(i)'
  <2>1. CASE list[i].pid = pid
    BY <1>2, <2>1 DEF SlotIsTrue, Enabled, Free
  <2>2. CASE list[i].pid # pid
    BY <1>1, <1>2, <2>2, UntouchedSlot
  <2> QED
    BY <2>1, <2>2
<1>6. HistoryOK' /\ history.sent' = {}
  BY <1>1, AnewKeeps DEF IInv
<1> QED
  BY <1>3, <1>4, <1>5, <1>6, NothingSent DEF IInv, SlotsAreTrue

\* Nothing but the history and the values of parameters moves.
LEMMA QuietIInv ==
  ASSUME IInv, NEW pids, Anew(pids), value' \in [Known -> Values],
         UNCHANGED <<ticks, list, last, idle>>
  PROVE  IInv'
<1>1. TypeOK'
  BY DEF IInv, TypeOK
<1>2. Separate'
  BY DEF IInv, Separate, Enabled
<1>3. \A i \in Slots : SlotIsTrue(i)'
  BY UntouchedSlot
<1>4. HistoryOK' /\ history.sent' = {}
  BY AnewKeeps DEF IInv
<1> QED
  BY <1>1, <1>2, <1>3, <1>4, NothingSent DEF IInv, SlotsAreTrue

LEMMA SubscribeIInv ==
  ASSUME IInv, NEW req \in Requests, Subscribe(req)
  PROVE  IInv'
<1> DEFINE k == First(SlotsFor(req.pid))
<1>1. k \in SlotsFor(req.pid) /\ k \in Slots
  <2>1. SlotsFor(req.pid) \in SUBSET Slots /\ SlotsFor(req.pid) # {}
    BY DEF Subscribe, SlotsFor, SlotsOf
  <2> QED
    BY <2>1, FirstIn
<1>2. req \in [pid : Known, min : Nat, max : Nat, delta : Nat]
  BY NotifyAssumption DEF Subscribe, Exists
<1>3. Anew({req.pid}) /\ UNCHANGED <<ticks, value, last, idle>>
  BY DEF Subscribe
<1>4. list \in [Slots -> Subscriptions] /\ list' = [list EXCEPT ![k] = req]
  BY DEF Subscribe, IInv, TypeOK
<1> HIDE DEF k
<1>5. TypeOK'
  <2>1. list' \in [Slots -> Subscriptions]
    BY <1>1, <1>2, <1>4 DEF Subscriptions
  <2> QED
    BY <1>3, <2>1 DEF IInv, TypeOK
<1>6. \A j \in Slots \ {k} : list[j].pid # req.pid
  <2> SUFFICES ASSUME NEW j \in Slots \ {k}, list[j].pid = req.pid PROVE FALSE
    OBVIOUS
  <2>1. SlotsOf(req.pid) # {}
    BY DEF SlotsOf
  <2>2. list[k].pid = req.pid
    BY <1>1, <2>1 DEF SlotsFor, SlotsOf
  <2>3. Enabled(j)
    BY <1>2, NotifyAssumption DEF Enabled
  <2> QED
    BY <1>1, <2>2, <2>3 DEF IInv, Separate
<1>7. list'[k] = req /\ \A j \in Slots \ {k} : list'[j] = list[j]
  BY <1>1, <1>4
<1>8. Separate'
  <2> SUFFICES ASSUME NEW i \in Slots, NEW j \in Slots,
                      Enabled(i)', list'[i].pid = list'[j].pid
               PROVE  i = j
    BY DEF Separate
  <2>1. CASE i = k \/ j = k
    BY <1>6, <1>7, <2>1
  <2>2. CASE i # k /\ j # k
    BY <1>7, <2>2 DEF IInv, Separate, Enabled
  <2> QED
    BY <2>1, <2>2
<1>9. ASSUME NEW i \in Slots PROVE SlotIsTrue(i)'
  <2>1. CASE i = k
    <3>1. ~history.of'[req.pid].told
      BY <1>2, <1>3, AnewKeeps DEF IInv, Untold
    <3> QED
      BY <1>7, <2>1, <3>1 DEF SlotIsTrue
  <2>2. CASE i # k
    BY <1>3, <1>7, <2>2, UntouchedSlot
  <2> QED
    BY <2>1, <2>2
<1>10. HistoryOK' /\ history.sent' = {}
  BY <1>3, AnewKeeps DEF IInv
<1> QED
  BY <1>5, <1>8, <1>9, <1>10, NothingSent DEF IInv, SlotsAreTrue

LEMMA EnableIInv ==
  ASSUME IInv, NEW req \in Requests, Enable(req)
  PROVE  IInv'
<1>1. value \in [Known -> Values]
  BY DEF IInv, TypeOK
<1>2. CASE Reject(req.pid) \/ NoSlot(req.pid)
  BY <1>1, <1>2, QuietIInv DEF Reject, NoSlot
<1>3. CASE Subscribe(req)
  BY <1>3, SubscribeIInv
<1> QED
  BY <1>2, <1>3 DEF Enable

LEMMA ChangeIInv ==
  ASSUME IInv, NEW p \in Changing, NEW v \in Values, Change(p, v)
  PROVE  IInv'
<1>1. value' \in [Known -> Values]
  BY NotifyAssumption DEF IInv, TypeOK, Change
<1> QED
  BY <1>1, QuietIInv DEF Change

LEMMA ConnectIInv == IInv /\ Connect => IInv'
<1> SUFFICES ASSUME IInv, Connect PROVE IInv'
  OBVIOUS
<1>1. TypeOK'
  <2>1. Zeroed \in [value : Values, timestamp : 0..(Word - 1)]
    BY NotifyAssumption DEF Zeroed
  <2> QED
    BY <2>1 DEF Connect, IInv, TypeOK, Subscriptions
<1>2. \A i \in Slots : ~Enabled(i)'
  BY DEF Connect, Enabled, Free
<1>3. Separate' /\ SlotsAreTrue'
  BY <1>2 DEF Separate, SlotsAreTrue, SlotIsTrue
<1>4. HistoryOK' /\ history.sent' = {}
  BY AnewKeeps DEF IInv, Connect
<1> QED
  BY <1>1, <1>3, <1>4, NothingSent DEF IInv

\* A tick ages what was told by one, up to where ages matter, and no slot by more.
LEMMA TickIInv == IInv /\ Tick => IInv'
<1> SUFFICES ASSUME IInv, Tick PROVE IInv'
  OBVIOUS
<1>1. /\ ticks \in 0..(Word - 1) /\ Word \in Nat \ {0} /\ Poll \in Nat \ {0}
      /\ idle \in 0..Poll
      /\ \A i \in Slots : last[i].timestamp \in 0..(Word - 1)
  BY NotifyAssumption DEF IInv, TypeOK
<1>2. TypeOK'
  <2>1. ticks' \in 0..(Word - 1) /\ idle' \in 0..Poll
    BY <1>1 DEF Tick
  <2> QED
    BY <2>1 DEF Tick, IInv, TypeOK
<1>3. HistoryOK'
  <2>1. \A h \in Record : \A c : Aged(h, c) \in Record
    BY DEF Record, Aged
  <2>2. \A p \in Known : history.of[p] \in Record
    BY DEF IInv, HistoryOK
  <2> QED
    BY <2>1, <2>2 DEF Tick, HistoryOK
<1>4. Separate'
  BY DEF Tick, IInv, Separate, Enabled
<1>5. ASSUME NEW i \in Slots PROVE SlotIsTrue(i)'
  <2> DEFINE c == list[i]
             h == history.of[list[i].pid]
             g == history.of'[list[i].pid]
  <2>1. list'[i] = list[i] /\ last'[i] = last[i] /\ (Enabled(i)' <=> Enabled(i))
    BY DEF Tick, Enabled
  <2> SUFFICES ASSUME Enabled(i), g.told
               PROVE  /\ last[i].value = g.value
                      /\ Elapsed(i)' <= g.age \/ Capped(g, c)
    BY <2>1 DEF SlotIsTrue, Capped
  <2>2. list[i].pid \in Known /\ c.min \in Nat /\ c.max \in Nat
    BY EnabledKnown DEF IInv
  <2>3. g = Aged(h, c)
    BY <2>2, OnlySlot DEF Tick, IInv
  <2>4. h \in Record
    BY <2>2 DEF IInv, HistoryOK
  <2>5. Elapsed(i) \in Nat /\ Elapsed(i)' \in Nat /\ Elapsed(i)' <= Elapsed(i) + 1
    <3>1. last'[i].timestamp = last[i].timestamp
      BY <2>1
    <3>2. ticks' = IF ticks + 1 < Word THEN ticks + 1 ELSE 0
      BY DEF Tick
    <3> QED
      BY <1>1, <3>1, <3>2 DEF Elapsed
  <2>6. /\ g.told = h.told /\ g.value = h.value
        /\ \/ g.age = h.age + 1
           \/ g.age = h.age /\ h.age >= c.min /\ (c.max = 0 \/ h.age > c.max + 2 * Poll)
    BY <2>3, <2>4 DEF Aged, Record
  <2>7. last[i].value = h.value /\ (Elapsed(i) <= h.age \/ Capped(h, c))
    BY <2>6 DEF IInv, SlotsAreTrue, SlotIsTrue
  <2>8. h.age \in Nat
    BY <2>4 DEF Record
  <2> HIDE DEF c, h, g
  <2> QED
    BY <1>1, <2>2, <2>5, <2>6, <2>7, <2>8 DEF Capped
<1>6. history.sent' = {}
  BY DEF Tick
<1> QED
  BY <1>2, <1>3, <1>4, <1>5, <1>6, NothingSent DEF IInv, SlotsAreTrue

\* What is sent is sent in time and for a reason.
LEMMA DueInTime ==
  ASSUME IInv, NEW i \in Due, history.of[list[i].pid].told
  PROVE  LET h == history.of[list[i].pid]
         IN  /\ h.age >= list[i].min
             /\ \/ Distance(value[list[i].pid], h.value) >= list[i].delta
                \/ list[i].max # 0 /\ h.age > list[i].max
<1> DEFINE h == history.of[list[i].pid]
<1>1. i \in Slots /\ Enabled(i) /\ ~TooSoon(i) /\ (Overdue(i) \/ Changed(i))
  BY DEF Due
<1>2. list[i].pid \in Known /\ list[i].min \in Nat /\ list[i].max \in Nat
  BY <1>1, EnabledKnown DEF IInv
<1>3. h.age \in Nat
  BY <1>2 DEF IInv, HistoryOK, Record
<1>4. last[i].value = h.value /\ (Elapsed(i) <= h.age \/ Capped(h, list[i]))
  BY <1>1 DEF IInv, SlotsAreTrue, SlotIsTrue
<1>5. Elapsed(i) \in Nat /\ Elapsed(i) >= list[i].min
  BY <1>1, <1>2, ElapsedType DEF IInv, TooSoon
<1>6. h.age >= list[i].min
  BY <1>2, <1>3, <1>4, <1>5 DEF Capped
<1>7. CASE Overdue(i)
  BY <1>2, <1>3, <1>4, <1>5, <1>6, <1>7 DEF Overdue, Capped
<1>8. CASE Changed(i)
  BY <1>4, <1>6, <1>8 DEF Changed
<1> QED
  BY <1>1, <1>7, <1>8

LEMMA CheckIInv == IInv /\ Check => IInv'
<1> SUFFICES ASSUME IInv, Check PROVE IInv'
  OBVIOUS
<1>1. ticks \in 0..(Word - 1) /\ 0 \in 0..Poll
  BY NotifyAssumption DEF IInv, TypeOK
<1>2. \A i \in Due : i \in Slots /\ Enabled(i) /\ list[i].pid \in Known
  BY EnabledKnown DEF Due, IInv
<1>3. TypeOK'
  <2>1. \A i \in Due : Saved(i) \in [value : Values, timestamp : 0..(Word - 1)]
    BY <1>1, <1>2 DEF Saved, IInv, TypeOK
  <2> QED
    BY <1>1, <2>1 DEF Check, IInv, TypeOK
<1>4. HistoryOK'
  <2>1. \A p \in Known : [told |-> TRUE, value |-> value[p], age |-> 0] \in Record
    BY DEF IInv, TypeOK, Record
  <2>2. \A p \in Known : history.of[p] \in Record
    BY DEF IInv, HistoryOK
  <2> QED
    BY <2>1, <2>2 DEF Check, HistoryOK
<1>5. Separate'
  BY DEF Check, IInv, Separate, Enabled
<1>6. ASSUME NEW i \in Slots PROVE SlotIsTrue(i)'
  <2> DEFINE p == list[i].pid
  <2>1. list' = list /\ ticks' = ticks /\ (Enabled(i)' <=> Enabled(i))
    BY DEF Check, Enabled
  <2> SUFFICES ASSUME Enabled(i) PROVE SlotIsTrue(i)'
    BY <2>1 DEF SlotIsTrue
  <2>2. p \in Known /\ SlotsOf(p) = {i}
    BY OnlySlot, EnabledKnown DEF IInv
  <2>3. CASE i \in Due
    <3>1. last'[i] = Saved(i)
      BY <2>3 DEF Check
    <3>2. history.of'[p] = [told |-> TRUE, value |-> value[p], age |-> 0]
      BY <2>2, <2>3 DEF Check
    <3>3. Elapsed(i)' = 0
      BY <1>1, <2>1, <3>1 DEF Elapsed, Saved
    <3> QED
      BY <2>1, <3>1, <3>2, <3>3 DEF SlotIsTrue, Saved
  <2>4. CASE i \notin Due
    <3>1. last'[i] = last[i] /\ history.of'[p] = history.of[p]
      BY <2>2, <2>4 DEF Check
    <3>2. Elapsed(i)' = Elapsed(i)
      BY <2>1, <3>1 DEF Elapsed
    <3>3. SlotIsTrue(i)
      BY DEF IInv, SlotsAreTrue
    <3> QED
      BY <2>1, <3>1, <3>2, <3>3 DEF SlotIsTrue, Capped
  <2> QED
    BY <2>3, <2>4
<1>7. NotTooOften' /\ OnlyChanges'
  <2>1. history.sent' = {Note(i) : i \in Due} /\ list' = list
    BY DEF Check
  <2>2. ASSUME NEW i \in Due, Note(i).again
        PROVE  /\ Note(i).slot = i
               /\ Note(i).age >= list[i].min
               /\ \/ Note(i).change >= list[i].delta
                  \/ list[i].max # 0 /\ Note(i).age > list[i].max
    <3>1. history.of[list[i].pid].told
      BY <2>2 DEF Note
    <3> QED
      BY <3>1, DueInTime DEF Note
  <2> QED
    BY <2>1, <2>2 DEF NotTooOften, OnlyChanges
<1> QED
  BY <1>3, <1>4, <1>5, <1>6, <1>7 DEF IInv, SlotsAreTrue

LEMMA StutterIInv == IInv /\ UNCHANGED vars => IInv'
<1> SUFFICES ASSUME IInv, UNCHANGED vars PROVE IInv'
  OBVIOUS
<1>1. TypeOK' /\ HistoryOK' /\ Separate'
  BY DEF IInv, TypeOK, HistoryOK, Separate, Enabled, vars
<1>2. SlotsAreTrue' /\ NotTooOften' /\ OnlyChanges'
  BY DEF IInv, SlotsAreTrue, SlotIsTrue, Enabled, Elapsed, Capped,
         NotTooOften, OnlyChanges, vars
<1> QED
  BY <1>1, <1>2 DEF IInv

LEMMA Invariance == Spec => []IInv
<1>1. IInv /\ [Next]_vars => IInv'
  BY DisableIInv, EnableIInv, CheckIInv, ConnectIInv, ChangeIInv, TickIInv, StutterIInv
     DEF Next
<1> QED
  BY <1>1, InitIInv, PTL DEF Spec

-------------------------------------------------------------------------------
(* Theorems *)

\* The slots, and what is kept beside them, have the types of the C structures.
THEOREM TypeCorrect == Spec => []TypeOK
<1>1. IInv => TypeOK
  BY DEF IInv
<1> QED
  BY <1>1, Invariance, PTL

\* However a client enables, updates and disables notifications, no parameter ever
\* has two slots.
THEOREM OneSlot == Spec => []OneSlotEach
<1>1. IInv => OneSlotEach
  <2> SUFFICES ASSUME IInv, NEW p \in Known PROVE Cardinality(SlotsOf(p)) <= 1
    BY DEF OneSlotEach
  <2>1. CASE SlotsOf(p) = {}
    BY <2>1, FS_EmptySet
  <2>2. CASE SlotsOf(p) # {}
    <3>1. PICK i \in Slots : list[i].pid = p
      BY <2>2 DEF SlotsOf
    <3>2. Enabled(i)
      BY <3>1, NotifyAssumption DEF Enabled
    <3>3. SlotsOf(p) = {i}
      BY <3>1, <3>2, OnlySlot DEF IInv
    <3> QED
      BY <3>3, FS_Singleton
  <2> QED
    BY <2>1, <2>2
<1> QED
  BY <1>1, Invariance, PTL

\* Notifications keep to the minimum period that the client named, whatever slot
\* they use and whenever the clock rolls over.
THEOREM Paced == Spec => []NotTooOften
<1>1. IInv => NotTooOften
  BY DEF IInv
<1> QED
  BY <1>1, Invariance, PTL

\* A slot that notifies again does so for a change that the client asked to be told
\* of, counted from what it was last told, or after its maximum period.
THEOREM ToldOfChanges == Spec => []OnlyChanges
<1>1. IInv => OnlyChanges
  BY DEF IInv
<1> QED
  BY <1>1, Invariance, PTL

-------------------------------------------------------------------------------
(* No subscriber is left without news *)

Age(i) == history.of[list[i].pid].age

\* A slot in use was asked for, and so its periods are shorter than the clock is wide.
Requested(i) == Enabled(i) => list[i] \in Requests

\* Either the slots have not been checked since the slot was configured, and what
\* it holds may be another parameter's; or its time has been found, or set, within
\* the maximum period at the last check.
InTime(i) ==
  Enabled(i) /\ list[i].max >= list[i].min /\ list[i].max # 0 =>
    \/ Age(i) <= idle
    \/ Age(i) <= Elapsed(i) + Poll /\ Elapsed(i) <= list[i].max + idle

NewsInv == IInv /\ \A i \in Slots : Requested(i) /\ InTime(i)

LEMMA UntouchedInTime ==
  ASSUME NewsInv, NEW pids, Anew(pids), NEW i \in Slots,
         list'[i] = list[i], last'[i] = last[i], UNCHANGED <<ticks, idle>>
  PROVE  Requested(i)' /\ InTime(i)'
<1>1. (Enabled(i)' <=> Enabled(i)) /\ Elapsed(i)' = Elapsed(i) /\ idle' = idle
  BY DEF Enabled, Elapsed
<1>2. Requested(i) /\ InTime(i)
  BY DEF NewsInv
<1>3. Requested(i)'
  BY <1>1, <1>2 DEF Requested
<1>4. ASSUME Enabled(i) PROVE Age(i)' = Age(i) \/ Age(i)' = 0
  <2>1. list[i].pid \in Known
    BY <1>4, EnabledKnown DEF NewsInv, IInv
  <2>2. history.of'[list[i].pid] = IF list[i].pid \in pids THEN Untold
                                   ELSE history.of[list[i].pid]
    BY <2>1, AnewKeeps DEF NewsInv, IInv
  <2> QED
    BY <2>2 DEF Age, Untold
<1>5. idle \in Nat
  BY NotifyAssumption DEF NewsInv, IInv, TypeOK
<1>6. CASE Enabled(i) /\ Age(i)' = 0
  BY <1>1, <1>3, <1>5, <1>6 DEF InTime
<1>7. CASE Enabled(i) /\ Age(i)' = Age(i)
  BY <1>1, <1>2, <1>3, <1>7 DEF InTime
<1>8. CASE ~Enabled(i)
  BY <1>1, <1>3, <1>8 DEF InTime
<1> QED
  BY <1>3, <1>4, <1>6, <1>7, <1>8

LEMMA FreeInTime ==
  ASSUME NEW i \in Slots, list'[i] = Free
  PROVE  Requested(i)' /\ InTime(i)'
  BY DEF Requested, InTime, Enabled, Free

LEMMA SubscribeInTime ==
  ASSUME NewsInv, NEW req \in Requests, Subscribe(req), NEW i \in Slots
  PROVE  Requested(i)' /\ InTime(i)'
<1>1. PICK k : k = First(SlotsFor(req.pid))
  OBVIOUS
<1>2. list \in [Slots -> Subscriptions] /\ list' = [list EXCEPT ![k] = req]
      /\ Anew({req.pid}) /\ UNCHANGED <<ticks, value, last, idle>> /\ req.pid \in Known
  BY <1>1 DEF Subscribe, Exists, NewsInv, IInv, TypeOK
<1>3. CASE i = k
  <2>1. list'[i] = req
    BY <1>2, <1>3
  <2>2. history.of'[req.pid] = Untold
    BY <1>2, AnewKeeps DEF NewsInv, IInv
  <2>3. Age(i)' = 0 /\ idle' \in Nat
    BY <1>2, <2>1, <2>2, NotifyAssumption DEF Age, Untold, NewsInv, IInv, TypeOK
  <2> QED
    BY <2>1, <2>3 DEF Requested, InTime
<1>4. CASE i # k
  BY <1>2, <1>4, UntouchedInTime
<1> QED
  BY <1>3, <1>4

\* The clock cannot come round in a slot whose time is within its period.
LEMMA TickInTime ==
  ASSUME NewsInv, Tick, NEW i \in Slots
  PROVE  Requested(i)' /\ InTime(i)'
<1>1. /\ list'[i] = list[i] /\ last'[i] = last[i] /\ (Enabled(i)' <=> Enabled(i))
      /\ idle < Poll /\ idle' = idle + 1
      /\ ticks' = IF ticks + 1 < Word THEN ticks + 1 ELSE 0
  BY DEF Tick, Enabled
<1>2. Requested(i) /\ InTime(i)
  BY DEF NewsInv
<1>3. Requested(i)'
  BY <1>1, <1>2 DEF Requested
<1>4. ASSUME Enabled(i) PROVE Age(i) \in Nat /\ Age(i)' \in {Age(i), Age(i) + 1}
  <2>1. list[i].pid \in Known
    BY <1>4, EnabledKnown DEF NewsInv, IInv
  <2>2. history.of'[list[i].pid] = Aged(history.of[list[i].pid], list[i])
    BY <1>4, <2>1, OnlySlot DEF Tick, NewsInv, IInv
  <2>3. history.of[list[i].pid] \in Record
    BY <2>1 DEF NewsInv, IInv, HistoryOK
  <2>4. PICK h \in Record : h = history.of[list[i].pid]
    BY <2>3
  <2>5. h.age \in Nat /\ Aged(h, list[i]).age \in {h.age, h.age + 1}
    BY DEF Aged, Record
  <2> QED
    BY <1>1, <2>2, <2>4, <2>5 DEF Age
<1>5. CASE Enabled(i) /\ list[i].max >= list[i].min /\ list[i].max # 0
  <2>1. list[i].max \in Nat /\ list[i].max + Poll < Word
    <3>1. list[i] \in Requests /\ list[i].max \in Periods
      BY <1>2, <1>5 DEF Requested, Periods
    <3> QED
      BY <1>5, <3>1, NotifyAssumption, EnabledKnown DEF NewsInv, IInv
  <2>2. /\ Word \in Nat /\ Poll \in Nat /\ idle \in Nat /\ ticks \in 0..(Word - 1)
        /\ last[i].timestamp \in 0..(Word - 1)
    BY NotifyAssumption DEF NewsInv, IInv, TypeOK
  <2>3. CASE Age(i) <= idle
    <3>1. Age(i)' <= idle'
      BY <1>1, <1>4, <1>5, <2>2, <2>3
    <3> QED
      BY <1>1, <1>3, <3>1 DEF InTime
  <2>4. CASE Age(i) <= Elapsed(i) + Poll /\ Elapsed(i) <= list[i].max + idle
    <3>1. PICK e \in Nat : e = Elapsed(i)
      BY ElapsedType DEF NewsInv, IInv
    <3>2. e <= list[i].max + idle /\ e + 1 < Word
      BY <1>1, <2>1, <2>2, <2>4, <3>1
    <3>3. Elapsed(i)' = e + 1
      BY <1>1, <2>2, <3>1, <3>2 DEF Elapsed
    <3>4. Age(i)' <= (e + 1) + Poll /\ e + 1 <= list[i].max + idle'
      BY <1>1, <1>4, <1>5, <2>1, <2>2, <2>4, <3>1, <3>2
    <3> QED
      BY <1>1, <1>3, <3>3, <3>4 DEF InTime
  <2> QED
    BY <1>2, <1>5, <2>3, <2>4 DEF InTime
<1>6. CASE ~(Enabled(i) /\ list[i].max >= list[i].min /\ list[i].max # 0)
  BY <1>1, <1>3, <1>6 DEF InTime
<1> QED
  BY <1>3, <1>5, <1>6

\* A slot that is not due at a check is within its maximum period.
LEMMA CheckInTime ==
  ASSUME NewsInv, Check, NEW i \in Slots
  PROVE  Requested(i)' /\ InTime(i)'
<1>1. list' = list /\ ticks' = ticks /\ idle' = 0 /\ (Enabled(i)' <=> Enabled(i))
  BY DEF Check, Enabled
<1>2. Requested(i) /\ InTime(i)
  BY DEF NewsInv
<1>3. Requested(i)'
  BY <1>1, <1>2 DEF Requested
<1>4. CASE Enabled(i) /\ list[i].max >= list[i].min /\ list[i].max # 0
  <2>1. list[i].pid \in Known /\ SlotsOf(list[i].pid) = {i}
    BY <1>4, OnlySlot, EnabledKnown DEF NewsInv, IInv
  <2>2. CASE i \in Due
    <3>1. history.of'[list[i].pid] = [told |-> TRUE, value |-> value[list[i].pid], age |-> 0]
      BY <2>1, <2>2 DEF Check
    <3>2. Age(i)' = 0
      BY <1>1, <3>1 DEF Age
    <3> QED
      BY <1>1, <1>3, <3>2 DEF InTime
  <2>3. CASE i \notin Due
    <3>1. last'[i] = last[i] /\ history.of'[list[i].pid] = history.of[list[i].pid]
      BY <2>1, <2>3 DEF Check
    <3>2. Age(i)' = Age(i) /\ Elapsed(i)' = Elapsed(i)
      BY <1>1, <3>1 DEF Age, Elapsed
    <3>3. PICK e \in Nat : e = Elapsed(i)
      BY ElapsedType DEF NewsInv, IInv
    <3>4. PICK a \in Nat : a = Age(i)
      BY <2>1 DEF NewsInv, IInv, HistoryOK, Record, Age
    <3>5. list[i].min \in Nat /\ list[i].max \in Nat /\ Poll \in Nat /\ idle \in 0..Poll
      BY NotifyAssumption, EnabledKnown DEF NewsInv, IInv, TypeOK
    <3>6. e <= list[i].max
      BY <1>4, <2>3, <3>3, <3>5 DEF Due, TooSoon, Overdue
    <3>7. a <= idle \/ a <= e + Poll
      BY <1>2, <1>4, <3>3, <3>4 DEF InTime
    <3>8. a <= e + Poll /\ e <= list[i].max + 0
      BY <3>5, <3>6, <3>7
    <3> QED
      BY <1>1, <1>3, <3>2, <3>3, <3>4, <3>8 DEF InTime
  <2> QED
    BY <2>2, <2>3
<1>5. CASE ~(Enabled(i) /\ list[i].max >= list[i].min /\ list[i].max # 0)
  BY <1>1, <1>3, <1>5 DEF InTime
<1> QED
  BY <1>4, <1>5

LEMMA StutterInTime ==
  ASSUME NewsInv, UNCHANGED vars, NEW i \in Slots
  PROVE  Requested(i)' /\ InTime(i)'
  BY DEF NewsInv, Requested, InTime, Enabled, Elapsed, Age, vars

LEMMA NextInTime ==
  ASSUME NewsInv, [Next]_vars, NEW i \in Slots
  PROVE  Requested(i)' /\ InTime(i)'
<1>1. ASSUME NEW pid \in Pids, Disable(pid) PROVE Requested(i)' /\ InTime(i)'
  <2>1. Anew({pid}) /\ UNCHANGED <<ticks, last, idle>>
        /\ list'[i] = IF list[i].pid = pid THEN Free ELSE list[i]
    BY <1>1 DEF Disable
  <2> QED
    BY <2>1, FreeInTime, UntouchedInTime
<1>2. ASSUME NEW req \in Requests, Enable(req) PROVE Requested(i)' /\ InTime(i)'
  <2>1. CASE Reject(req.pid) \/ NoSlot(req.pid)
    BY <2>1, UntouchedInTime DEF Reject, NoSlot
  <2> QED
    BY <1>2, <2>1, SubscribeInTime DEF Enable
<1>3. ASSUME NEW p \in Changing, NEW v \in Values, Change(p, v)
      PROVE  Requested(i)' /\ InTime(i)'
  BY <1>3, UntouchedInTime DEF Change
<1>4. CASE Connect
  BY <1>4, FreeInTime DEF Connect
<1> QED
  BY <1>1, <1>2, <1>3, <1>4, CheckInTime, TickInTime, StutterInTime DEF Next

LEMMA InitInTime == Init => NewsInv
<1> SUFFICES ASSUME Init PROVE NewsInv
  OBVIOUS
<1>1. \A i \in Slots : ~Enabled(i)
  BY DEF Init, Enabled, Free
<1> QED
  BY <1>1, InitIInv DEF NewsInv, Requested, InTime

\* A client that named a maximum period is not without news for longer than that and
\* two polls, whatever its slot held before and however often the clock rolls over.
THEOREM NewsInTime == Spec => []NeverSilent
<1>1. NewsInv /\ [Next]_vars => NewsInv'
  <2> SUFFICES ASSUME NewsInv, [Next]_vars PROVE NewsInv'
    OBVIOUS
  <2>1. IInv'
    BY DisableIInv, EnableIInv, CheckIInv, ConnectIInv, ChangeIInv, TickIInv, StutterIInv
       DEF NewsInv, Next
  <2>2. \A i \in Slots : Requested(i)' /\ InTime(i)'
    BY NextInTime
  <2> QED
    BY <2>1, <2>2 DEF NewsInv
<1>2. NewsInv => NeverSilent
  <2> SUFFICES ASSUME NewsInv, NEW i \in Slots, Enabled(i),
                      list[i].max >= list[i].min, list[i].max # 0
               PROVE  Age(i) <= list[i].max + 2 * Poll
    BY DEF NeverSilent, Age
  <2>1. Age(i) <= idle \/ (Age(i) <= Elapsed(i) + Poll /\ Elapsed(i) <= list[i].max + idle)
    BY DEF NewsInv, InTime
  <2>2. Poll \in Nat /\ idle \in 0..Poll /\ list[i].max \in Nat /\ Elapsed(i) \in Nat
    BY NotifyAssumption, EnabledKnown, ElapsedType DEF NewsInv, IInv, TypeOK
  <2>3. Age(i) \in Nat
    BY EnabledKnown DEF NewsInv, IInv, HistoryOK, Record, Age
  <2> QED
    BY <2>1, <2>2, <2>3
<1> QED
  BY <1>1, <1>2, InitInTime, PTL DEF Spec

===============================================================================
