----------------------------- MODULE ParamRepoProofs -----------------------------
(***************************************************************************)
(* The repository keeps its word, with the exceptions its properties name, *)
(* for any table of parameters, any requests and any number of power       *)
(* failures and of reads, writes and erasures that fail.                   *)
(***************************************************************************)
EXTENDS ParamRepo, FiniteSetTheorems, WellFoundedInduction, TLAPS

Initializing == at \in {"init", "init_again"}
Resetting == at \in {"erase", "erase_again", "init_again", "serial"}

Mays == [Persistent -> SUBSET (Values \cup {Untagged})]

HistoryOK ==
  history \in [may : Mays, differs : SUBSET Table, serial : Serials \cup {NoSerial},
               marred : BOOLEAN, mishaps : Nat]

\* How far the thread has come.
InLoop ==
  /\ Initializing => pos \in 1..Len(Params)
  /\ at = "write" => pos \in 1..Len(request)

\* The number last set is in the memory, or in has_sn while a reset lasts, unless
\* something has failed that is named; there is no other number anywhere.
SerialKept ==
  /\ serial \in {NoSerial, history.serial} /\ has_sn \in {NoSerial, history.serial}
  /\ ~Resetting => has_sn = NoSerial
  /\ at = "serial" => has_sn = history.serial
  /\ ~history.marred => IF at \in {"erase", "erase_again"} THEN has_sn = history.serial
                        ELSE history.serial \in {serial, has_sn}

Agrees(p) == ram[p] = Tagged(Saved(p))

\* RAM agrees with the memory, as far as it is initialized.
RamIsSaved ==
  /\ at \in {"run", "write", "serial"} => \A p \in Persistent \ history.differs : Agrees(p)
  /\ Initializing => \A i \in 1..(pos - 1) :
                       Params[i] \in Persistent \ history.differs => Agrees(Params[i])

\* The last of the first n values of the request that are for p is the i-th.
LastFor(p, i, n) ==
  /\ i \in 1..n /\ request[i].id = p
  /\ \A j \in 1..n : request[j].id = p => j <= i

\* A request that is being handled: its values may be found later, and those it has
\* come to are saved.
RequestIsSaved ==
  at = "write" =>
    \A p \in Persistent :
      /\ \A i \in 1..Len(request) :
           request[i].id = p /\ request[i].value \in Values => request[i].value \in history.may[p]
      /\ p \notin history.differs =>
           \A i \in 1..(pos - 1) : LastFor(p, i, pos - 1) => Saved(p) = request[i].value

IInv ==
  /\ TypeOK /\ HistoryOK /\ InLoop /\ SerialKept /\ RamIsSaved /\ RequestIsSaved
  /\ AcknowledgedIsSaved

-------------------------------------------------------------------------------
(* Lemmas *)

\* Of a set of indices that is not empty, one is last: of the intervals from a member
\* to n, one is minimal.
LEMMA LastIn ==
  ASSUME NEW n \in Nat, NEW S \in SUBSET (1..n), S # {}
  PROVE  \E i \in S : \A j \in S : j <= i
<1> DEFINE T == {x..n : x \in S}
           R == StrictSubsetOrdering(Nat)
<1>1. T \subseteq FiniteSubsetsOf(Nat) /\ T # {}
  <2>1. ASSUME NEW x \in S PROVE x..n \in FiniteSubsetsOf(Nat)
    <3>1. x..n \in SUBSET Nat
      OBVIOUS
    <3>2. IsFiniteSet(x..n)
      BY FS_Interval
    <3> QED
      BY <3>1, <3>2 DEF FiniteSubsetsOf
  <2> QED
    BY <2>1
<1>2. IsWellFoundedOn(R, FiniteSubsetsOf(Nat))
  BY FS_StrictSubsetOrderingWellFounded
<1>3. \E t \in T : \A u \in T : <<u, t>> \notin R
  <2> HIDE DEF T, R
  <2> QED
    BY <1>1, <1>2, WFMin
<1>4. PICK x \in S : \A y \in S : <<y..n, x..n>> \notin R
  BY <1>3
<1>5. ASSUME NEW y \in S, y > x PROVE FALSE
  <2>1. y..n \subseteq x..n /\ x \in x..n /\ x \notin y..n
    BY <1>5
  <2>2. y..n \in SUBSET Nat /\ x..n \in SUBSET Nat
    OBVIOUS
  <2>3. <<y..n, x..n>> \in R
    BY <2>1, <2>2 DEF StrictSubsetOrdering
  <2> QED
    BY <1>4, <2>3
<1> QED
  BY <1>5

LEMMA ParamsType ==
  /\ Len(Params) \in Nat \ {0}
  /\ \A i \in 1..Len(Params) : Params[i] \in Table
  /\ \A p \in Table : \E i \in 1..Len(Params) : Params[i] = p
  BY RepoAssumption DEF Table

LEMMA RequestType ==
  ASSUME NEW r \in Request
  PROVE  /\ Len(r) \in Nat /\ DOMAIN r = 1..Len(r)
         /\ \A i \in 1..Len(r) : r[i] \in Item
         /\ r # <<>> => Len(r) # 0
<1>1. PICK n \in 0..MaxWrites : r \in [1..n -> Item]
  BY DEF Request
<1>2. n \in Nat /\ r \in Seq(Item) /\ Len(r) = n
  BY <1>1, RepoAssumption
<1> QED
  BY <1>1, <1>2

\* Nothing stored: every parameter is saved as its default.
LEMMA EmptyMemory ==
  /\ DOMAIN <<>> = {}
  /\ nvm = <<>> => \A p : Saved(p) = Default[p]
  /\ nvm' = <<>> => \A p : Saved(p)' = Default[p]
  BY DEF Saved

LEMMA DefaultType == \A p \in Table : Default[p] \in Values
  BY RepoAssumption

\* What putting a value does to the memory.
LEMMA PutSaves ==
  ASSUME NEW p \in Persistent, NEW v \in Values, Put(p, v),
         DOMAIN nvm \subseteq Persistent, \A q \in DOMAIN nvm : nvm[q] \in Values
  PROVE  /\ DOMAIN nvm' \subseteq Persistent /\ \A q \in DOMAIN nvm' : nvm'[q] \in Values
         /\ Saved(p)' = v
         /\ \A q : q # p => Saved(q)' = Saved(q)
  BY DEF Put, Saved

LEMMA SameMemory == nvm' = nvm => \A q : Saved(q)' = Saved(q)
  BY DEF Saved

LEMMA SavedType == TypeOK => \A q \in Table : Saved(q) \in Values
  BY DefaultType DEF TypeOK, Saved

LEMMA EmptyRequest == <<>> \in Request
<1>1. <<>> \in [1..0 -> Item] /\ 0 \in 0..MaxWrites
  BY RepoAssumption
<1> QED
  BY <1>1 DEF Request

LEMMA PersistentInTable == Persistent \subseteq Table /\ Generated \notin Persistent
  BY RepoAssumption

LEMMA TaggedType == \A v \in Values : Tagged(v) \in [value : Values, tagged : BOOLEAN]
  BY DEF Tagged

LEMMA MayType ==
  ASSUME NEW f, f = [p \in Persistent |-> {Default[p]}]
  PROVE  f \in Mays /\ \A p \in Persistent : f[p] = {Default[p]}
  BY DefaultType, PersistentInTable DEF Mays

\* The record of what was told is made of its fields.
LEMMA HistoryIs ==
  ASSUME HistoryOK
  PROVE  /\ history = [may |-> history.may, differs |-> history.differs,
                       serial |-> history.serial, marred |-> history.marred,
                       mishaps |-> history.mishaps]
         /\ history.may \in Mays /\ history.differs \in SUBSET Table
         /\ history.serial \in Serials \cup {NoSerial} /\ history.marred \in BOOLEAN
         /\ history.mishaps \in Nat /\ history.mishaps + 1 \in Nat
  BY DEF HistoryOK

-------------------------------------------------------------------------------
(* The initial state, and steps that leave the parameters alone *)

LEMMA InitIInv == Init => IInv
<1> SUFFICES ASSUME Init PROVE IInv
  OBVIOUS
<1>1. TypeOK
  <2>1. ram \in [Table -> [value : Values, tagged : BOOLEAN]]
    BY DefaultType, TaggedType DEF Init, Blank
  <2> QED
    BY <2>1, EmptyMemory, EmptyRequest DEF Init, TypeOK, Phases
<1>2. HistoryOK /\ \A p \in Persistent : history.may[p] = {Default[p]}
  BY MayType DEF Init, HistoryOK
<1>3. InLoop /\ RamIsSaved /\ RequestIsSaved
  BY ParamsType DEF Init, InLoop, RamIsSaved, RequestIsSaved, Initializing
<1>4. SerialKept
  BY DEF Init, SerialKept, Resetting
<1>5. AcknowledgedIsSaved
  BY <1>2, EmptyMemory DEF Init, AcknowledgedIsSaved
<1> QED
  BY <1>1, <1>2, <1>3, <1>4, <1>5 DEF IInv

LEMMA GenerateIInv ==
  ASSUME IInv, NEW v \in Values, Generate(v)
  PROVE  IInv'
<1>1. ram' = [ram EXCEPT ![Generated].value = v] /\ at = "run"
      /\ UNCHANGED <<nvm, serial, at, pos, request, has_sn, history>>
  BY DEF Generate
<1>2. TypeOK'
  BY <1>1 DEF IInv, TypeOK
<1>3. \A q \in Persistent : Agrees(q)' <=> Agrees(q)
  <2>1. \A q \in Persistent : ram'[q] = ram[q]
    BY <1>1, PersistentInTable DEF IInv, TypeOK
  <2> QED
    BY <1>1, <2>1, SameMemory DEF Agrees
<1>4. RamIsSaved'
  BY <1>1, <1>3 DEF IInv, RamIsSaved, Initializing
<1>5. HistoryOK' /\ InLoop' /\ RequestIsSaved' /\ AcknowledgedIsSaved'
  BY <1>1, SameMemory DEF IInv, HistoryOK, InLoop, RequestIsSaved,
     AcknowledgedIsSaved, Initializing
<1>6. SerialKept'
  BY <1>1 DEF IInv, SerialKept, Resetting
<1> QED
  BY <1>2, <1>4, <1>5, <1>6 DEF IInv

LEMMA SetSerialIInv ==
  ASSUME IInv, NEW s \in Serials \cup {NoSerial}, SetSerial(s)
  PROVE  IInv'
<1>1. /\ at = "run" /\ serial' = s
      /\ history' = [history EXCEPT !.serial = s, !.marred = FALSE]
      /\ UNCHANGED <<ram, nvm, at, pos, request, has_sn>>
  BY DEF SetSerial
<1>2. TypeOK'
  BY <1>1 DEF IInv, TypeOK
<1>3. HistoryOK' /\ history'.may = history.may /\ history'.differs = history.differs
      /\ history'.serial = s
  BY <1>1 DEF IInv, HistoryOK
<1>4. InLoop' /\ RequestIsSaved'
  BY <1>1, <1>3 DEF IInv, InLoop, RequestIsSaved, Initializing
<1>5. SerialKept'
  BY <1>1, <1>3 DEF IInv, SerialKept, Resetting
<1>6. RamIsSaved' /\ AcknowledgedIsSaved'
  BY <1>1, <1>3, SameMemory DEF IInv, RamIsSaved, AcknowledgedIsSaved, Agrees, Initializing
<1> QED
  BY <1>2, <1>3, <1>4, <1>5, <1>6 DEF IInv

LEMMA FactoryResetIInv == IInv /\ FactoryReset => IInv'
<1> SUFFICES ASSUME IInv, FactoryReset PROVE IInv'
  OBVIOUS
<1> DEFINE may == [p \in Persistent |-> history.may[p] \cup {Default[p]}]
<1>1. /\ at = "run" /\ at' = "erase" /\ pos' = 1
      /\ UNCHANGED <<ram, nvm, serial, request>>
      /\ \/ has_sn' = serial /\ history' = [history EXCEPT !.may = may]
         \/ /\ has_sn' = NoSerial
            /\ history' = [history EXCEPT !.may = may, !.marred = TRUE, !.mishaps = @ + 1]
  BY DEF FactoryReset, Go
<1>2. TypeOK'
  BY <1>1 DEF IInv, TypeOK, Phases
<1>3. may \in Mays /\ \A p \in Persistent : history.may[p] \subseteq may[p]
  BY DefaultType, PersistentInTable DEF IInv, HistoryOK, Mays
<1>4. HistoryOK' /\ history'.may = may /\ history'.serial = history.serial
      /\ \/ has_sn' = serial /\ history'.marred = history.marred
         \/ has_sn' = NoSerial /\ history'.marred
  <2> HIDE DEF may
  <2>1. CASE has_sn' = serial /\ history' = [history EXCEPT !.may = may]
    BY <1>3, <2>1 DEF IInv, HistoryOK
  <2>2. CASE /\ has_sn' = NoSerial
             /\ history' = [history EXCEPT !.may = may, !.marred = TRUE, !.mishaps = @ + 1]
    <3>1. history.mishaps + 1 \in Nat
      BY HistoryIs DEF IInv
    <3> QED
      BY <1>3, <2>2, <3>1 DEF IInv, HistoryOK
  <2> QED
    BY <1>1, <2>1, <2>2
<1>5. InLoop' /\ RamIsSaved' /\ RequestIsSaved'
  BY <1>1 DEF InLoop, RamIsSaved, RequestIsSaved, Initializing
<1>6. SerialKept'
  BY <1>1, <1>4 DEF IInv, SerialKept, Resetting
<1>7. AcknowledgedIsSaved'
  BY <1>1, <1>3, <1>4, SameMemory DEF IInv, AcknowledgedIsSaved
<1> QED
  BY <1>2, <1>4, <1>5, <1>6, <1>7 DEF IInv

LEMMA EraseIInv == IInv /\ Erase => IInv'
<1> SUFFICES ASSUME IInv, Erase PROVE IInv'
  OBVIOUS
<1>1. /\ at = "erase" \/ at = "erase_again"
      /\ at' = "erase_again" \/ at' = "init_again"
      /\ pos' = 1 /\ ram' = ram /\ request' = request /\ has_sn' = has_sn
  BY DEF Erase, Go
<1>2. at' \in Phases
  BY <1>1 DEF Phases
<1>3. InLoop' /\ RamIsSaved' /\ RequestIsSaved'
  BY <1>1, ParamsType DEF InLoop, RamIsSaved, RequestIsSaved, Initializing
<1>4. /\ serial \in {NoSerial, history.serial} /\ has_sn \in {NoSerial, history.serial}
      /\ ~history.marred => has_sn = history.serial
  BY <1>1 DEF IInv, SerialKept
<1>5. HistoryOK
  BY DEF IInv
<1>6. CASE Erased
  <2>1. nvm' = <<>> /\ serial' = NoSerial
    BY <1>6 DEF Erased
  <2>2. PICK may : may = [p \in Persistent |-> {Default[p]}]
                   /\ history' = [history EXCEPT !.may = may]
    BY <1>6 DEF Erased
  <2>3. DOMAIN nvm' = {}
    BY <2>1, EmptyMemory
  <2>4. serial' \in Serials \cup {NoSerial}
    BY <2>1
  <2>5. TypeOK'
    BY <1>1, <1>2, <2>3, <2>4 DEF IInv, TypeOK
  <2>6. may \in Mays /\ \A p \in Persistent : may[p] = {Default[p]}
    BY <2>2, MayType
  <2>7. /\ HistoryOK' /\ history'.serial = history.serial /\ history'.marred = history.marred
        /\ history'.may = may
    BY <1>5, <2>2, <2>6 DEF HistoryOK
  <2>8. SerialKept'
    BY <1>1, <1>4, <2>1, <2>7 DEF SerialKept, Resetting
  <2>9. AcknowledgedIsSaved'
    BY <2>1, <2>6, <2>7, EmptyMemory DEF AcknowledgedIsSaved
  <2> QED
    BY <1>3, <2>5, <2>7, <2>8, <2>9 DEF IInv
<1>7. CASE Mishap /\ serial' = serial /\ history' = [history EXCEPT !.mishaps = @ + 1]
  <2>1. nvm' = nvm /\ serial' = serial
    BY <1>7 DEF Mishap
  <2>2. TypeOK'
    BY <1>1, <1>2, <2>1 DEF IInv, TypeOK
  <2>3. /\ HistoryOK' /\ history'.serial = history.serial /\ history'.may = history.may
        /\ history'.marred = history.marred
    BY <1>5, <1>7 DEF HistoryOK
  <2>4. SerialKept'
    BY <1>1, <1>4, <2>1, <2>3 DEF SerialKept, Resetting
  <2>5. AcknowledgedIsSaved'
    BY <2>1, <2>3, SameMemory DEF IInv, AcknowledgedIsSaved
  <2> QED
    BY <1>3, <2>2, <2>3, <2>4, <2>5 DEF IInv
<1> QED
  BY <1>6, <1>7 DEF Erase

LEMMA RestoreSerialIInv == IInv /\ RestoreSerial => IInv'
<1> SUFFICES ASSUME IInv, RestoreSerial PROVE IInv'
  OBVIOUS
<1>1. /\ at = "serial" /\ at' = "run" /\ pos' = 1 /\ has_sn' = NoSerial
      /\ ram' = ram /\ nvm' = nvm /\ request' = request
  BY DEF RestoreSerial, Go
<1>2. at' \in Phases /\ ~Resetting' /\ ~Initializing'
  BY <1>1 DEF Phases, Resetting, Initializing
<1>3. /\ has_sn = history.serial /\ has_sn \in Serials \cup {NoSerial}
      /\ serial \in {NoSerial, history.serial} /\ serial \in Serials \cup {NoSerial}
  BY <1>1 DEF IInv, SerialKept, TypeOK
<1>4. HistoryOK
  BY DEF IInv
<1>5. /\ HistoryOK' /\ history'.serial = history.serial
      /\ serial' \in Serials \cup {NoSerial} /\ serial' \in {NoSerial, history.serial}
      /\ ~history'.marred => serial' = history.serial
      /\ history'.may = history.may /\ history'.differs = history.differs
  <2>1. CASE Restored /\ history' = history
    BY <1>3, <1>4, <2>1 DEF Restored, HistoryOK
  <2>2. CASE /\ serial' = serial
             /\ history' = [history EXCEPT !.mishaps = @ + 1, !.marred = @ \/ serial # has_sn]
    <3>1. PICK b \in BOOLEAN : b <=> (history.marred \/ serial # has_sn)
      OBVIOUS
    <3>2. (history.marred \/ serial # has_sn) = b
      BY <1>4, <3>1 DEF HistoryOK
    <3>3. history' = [history EXCEPT !.mishaps = @ + 1, !.marred = b]
      BY <1>4, <2>2, <3>2
    <3>4. history.mishaps + 1 \in Nat
      BY <1>4, HistoryIs
    <3>5. HistoryOK' /\ history'.marred = b /\ history'.serial = history.serial
          /\ history'.may = history.may /\ history'.differs = history.differs
      BY <1>4, <3>3, <3>4 DEF HistoryOK
    <3> QED
      BY <1>3, <2>2, <3>1, <3>5
  <2> QED
    BY <2>1, <2>2 DEF RestoreSerial
<1>6. TypeOK'
  BY <1>1, <1>2, <1>5 DEF IInv, TypeOK
<1>7. InLoop' /\ RequestIsSaved'
  BY <1>1, <1>2 DEF InLoop, RequestIsSaved
<1>8. SerialKept'
  BY <1>1, <1>2, <1>5 DEF SerialKept
<1>9. RamIsSaved' /\ AcknowledgedIsSaved'
  BY <1>1, <1>2, <1>5, SameMemory DEF IInv, RamIsSaved, AcknowledgedIsSaved, Agrees
<1> QED
  BY <1>5, <1>6, <1>7, <1>8, <1>9 DEF IInv

LEMMA ClearNvmIInv ==
  ASSUME IInv, NEW again \in BOOLEAN, ClearNvm(again)
  PROVE  IInv'
<1>1. /\ at = "run" /\ has_sn' = has_sn /\ pos' = 1 /\ ram' = ram /\ request' = request
      /\ at' = "init_again" \/ (at' = "run" /\ ~again)
  BY DEF ClearNvm, Go
<1>2. at' \in Phases /\ at' # "write" /\ at' # "serial"
      /\ at' # "erase" /\ at' # "erase_again"
  BY <1>1 DEF Phases
<1>3. has_sn = NoSerial /\ HistoryOK /\ TypeOK
  BY <1>1 DEF IInv, SerialKept, Resetting
<1>4. CASE /\ nvm' = <<>> /\ serial' = NoSerial
           /\ history' = [history EXCEPT !.may = [p \in Persistent |-> {Default[p]}],
                                         !.differs = IF again THEN @ ELSE Persistent,
                                         !.serial = NoSerial, !.marred = FALSE]
  <2>1. PICK may, differs :
          /\ may = [p \in Persistent |-> {Default[p]}]
          /\ differs = (IF again THEN history.differs ELSE Persistent)
          /\ history' = [history EXCEPT !.may = may, !.differs = differs,
                                        !.serial = NoSerial, !.marred = FALSE]
    BY <1>3, <1>4 DEF HistoryOK
  <2>2. may \in Mays /\ \A p \in Persistent : may[p] = {Default[p]}
    BY <2>1, MayType
  <2>3. differs \in SUBSET Table /\ (~again => differs = Persistent)
    BY <1>3, <2>1, PersistentInTable DEF HistoryOK
  <2>4. HistoryOK' /\ history'.may = may /\ history'.serial = NoSerial
        /\ history'.differs = differs
    BY <1>3, <2>1, <2>2, <2>3 DEF HistoryOK
  <2>5. DOMAIN nvm' = {} /\ serial' \in Serials \cup {NoSerial}
    BY <1>4, EmptyMemory
  <2>6. TypeOK'
    BY <1>1, <1>2, <1>3, <2>5 DEF TypeOK
  <2>7. SerialKept'
    BY <1>1, <1>2, <1>3, <1>4, <2>4 DEF SerialKept
  <2>8. InLoop' /\ RamIsSaved' /\ RequestIsSaved'
    BY <1>1, <1>2, <2>3, <2>4, ParamsType DEF InLoop, RamIsSaved, RequestIsSaved, Initializing
  <2>9. AcknowledgedIsSaved'
    BY <1>4, <2>2, <2>4, EmptyMemory DEF AcknowledgedIsSaved
  <2> QED
    BY <2>4, <2>6, <2>7, <2>8, <2>9 DEF IInv
<1>5. CASE again /\ Mishap /\ serial' = serial /\ history' = [history EXCEPT !.mishaps = @ + 1]
  <2>1. at' = "init_again" /\ nvm' = nvm /\ serial' = serial
    BY <1>1, <1>5 DEF Mishap
  <2>2. HistoryOK' /\ history'.may = history.may /\ history'.serial = history.serial
        /\ history'.marred = history.marred
    BY <1>3, <1>5 DEF HistoryOK
  <2>3. TypeOK'
    BY <1>1, <1>2, <1>3, <2>1 DEF TypeOK
  <2>4. SerialKept'
    BY <1>1, <1>3, <2>1, <2>2 DEF IInv, SerialKept, Resetting
  <2>5. InLoop' /\ RamIsSaved' /\ RequestIsSaved'
    BY <1>1, <2>1, ParamsType DEF InLoop, RamIsSaved, RequestIsSaved, Initializing
  <2>6. AcknowledgedIsSaved'
    BY <2>1, <2>2, SameMemory DEF IInv, AcknowledgedIsSaved
  <2> QED
    BY <2>2, <2>3, <2>4, <2>5, <2>6 DEF IInv
<1> QED
  BY <1>4, <1>5 DEF ClearNvm

LEMMA PowerFailsIInv == IInv /\ PowerFails => IInv'
<1> SUFFICES ASSUME IInv, PowerFails PROVE IInv'
  OBVIOUS
<1>1. /\ at' = "init" /\ pos' = 1 /\ ram' = Blank /\ request' = <<>> /\ has_sn' = NoSerial
      /\ nvm' = nvm /\ serial' = serial
      /\ history' = [history EXCEPT !.mishaps = @ + 1,
                                    !.marred = @ \/ has_sn \notin {NoSerial, serial}]
  BY DEF PowerFails, Go
<1>2. at' \in Phases /\ ~Resetting' /\ at' # "write"
  BY <1>1 DEF Phases, Resetting
<1>3. HistoryOK
  BY DEF IInv
<1>4. PICK b \in BOOLEAN : b <=> (history.marred \/ has_sn \notin {NoSerial, serial})
  OBVIOUS
<1>5. /\ HistoryOK' /\ history'.serial = history.serial /\ history'.marred = b
      /\ history'.may = history.may /\ history'.differs = history.differs
  <2>1. (history.marred \/ has_sn \notin {NoSerial, serial}) = b
    BY <1>3, <1>4 DEF HistoryOK
  <2>2. history' = [history EXCEPT !.mishaps = @ + 1, !.marred = b]
    BY <1>1, <1>3, <2>1
  <2>3. history.mishaps + 1 \in Nat
    BY <1>3, HistoryIs
  <2> QED
    BY <1>3, <2>2, <2>3 DEF HistoryOK
<1>6. TypeOK'
  <2>1. ram' \in [Table -> [value : Values, tagged : BOOLEAN]]
    BY <1>1, DefaultType, TaggedType DEF Blank
  <2>2. has_sn' \in Serials \cup {NoSerial} /\ request' \in Request
    BY <1>1, EmptyRequest
  <2> QED
    BY <1>1, <1>2, <2>1, <2>2 DEF IInv, TypeOK
<1>7. InLoop' /\ RamIsSaved' /\ RequestIsSaved'
  BY <1>1, <1>2, ParamsType DEF InLoop, RamIsSaved, RequestIsSaved, Initializing
<1>8. SerialKept'
  <2>1. /\ serial \in {NoSerial, history.serial} /\ has_sn \in {NoSerial, history.serial}
        /\ ~history.marred => history.serial \in {serial, has_sn}
    BY DEF IInv, SerialKept
  <2>2. ~b => serial = history.serial
    BY <1>4, <2>1
  <2> QED
    BY <1>1, <1>2, <1>5, <2>1, <2>2 DEF SerialKept
<1>9. AcknowledgedIsSaved'
  BY <1>1, <1>5, SameMemory DEF IInv, AcknowledgedIsSaved
<1> QED
  BY <1>5, <1>6, <1>7, <1>8, <1>9 DEF IInv

-------------------------------------------------------------------------------
(* The loop over the table *)

\* What one turn does: one parameter is set to what is saved of it, unless its
\* failure is recorded, and nothing changes of the others.
InitDone(p) ==
  /\ ram' \in [Table -> [value : Values, tagged : BOOLEAN]]
  /\ DOMAIN nvm' \subseteq Persistent /\ \A q \in DOMAIN nvm' : nvm'[q] \in Values
  /\ HistoryOK' /\ history'.serial = history.serial /\ history'.marred = history.marred
  /\ \A q \in Persistent : Saved(q)' \in history'.may[q]
  /\ \A q \in Persistent \ history'.differs :
       /\ q = p => Agrees(q)'
       /\ q # p => q \notin history.differs /\ Agrees(q)' = Agrees(q)

LEMMA SetOne ==
  ASSUME TypeOK, NEW p \in Table, NEW v \in Values, ram' = [ram EXCEPT ![p] = Tagged(v)]
  PROVE  /\ ram' \in [Table -> [value : Values, tagged : BOOLEAN]]
         /\ ram'[p] = Tagged(v)
         /\ \A q \in Table \ {p} : ram'[q] = ram[q]
  BY TaggedType DEF TypeOK

\* Everything else about a parameter that is left alone.
LEMMA LeftAlone ==
  ASSUME NEW p \in Table, \A q \in Table \ {p} : ram'[q] = ram[q],
         \A q : q # p => Saved(q)' = Saved(q)
  PROVE  \A q \in Persistent : q # p => Agrees(q)' = Agrees(q)
<1>1. ASSUME NEW q \in Persistent, q # p PROVE Agrees(q)' = Agrees(q)
  <2>1. ram'[q] = ram[q] /\ Saved(q)' = Saved(q)
    BY <1>1, PersistentInTable
  <2> QED
    BY <2>1 DEF Agrees
<1> QED
  BY <1>1

LEMMA LoadDone ==
  ASSUME IInv, NEW p \in Persistent, LoadParam(p)
  PROVE  InitDone(p)
<1>1. TypeOK /\ HistoryOK /\ p \in Table
  BY PersistentInTable DEF IInv
<1>2. /\ ram' = [ram EXCEPT ![p] = Tagged(Loaded(p))] /\ nvm' = nvm /\ p \in DOMAIN nvm
      /\ history' = [history EXCEPT !.differs = @ \ {p}]
  BY DEF LoadParam
<1>3. Loaded(p) \in Values /\ Loaded(p) = Saved(p)
  BY <1>1, <1>2 DEF TypeOK, Loaded, Saved
<1>4. /\ ram' \in [Table -> [value : Values, tagged : BOOLEAN]]
      /\ ram'[p] = Tagged(Loaded(p)) /\ \A q \in Table \ {p} : ram'[q] = ram[q]
  BY <1>1, <1>2, <1>3, SetOne
<1>5. \A q : Saved(q)' = Saved(q)
  BY <1>2, SameMemory
<1>6. /\ HistoryOK' /\ history'.serial = history.serial /\ history'.marred = history.marred
      /\ history'.may = history.may /\ history'.differs = history.differs \ {p}
  BY <1>1, <1>2 DEF HistoryOK
<1>7. Agrees(p)'
  BY <1>3, <1>4, <1>5 DEF Agrees
<1>8. \A q \in Persistent : q # p => Agrees(q)' = Agrees(q)
  BY <1>1, <1>4, <1>5, LeftAlone
<1>9. \A q \in Persistent : Saved(q)' \in history'.may[q]
  BY <1>5, <1>6 DEF IInv, AcknowledgedIsSaved
<1>10. DOMAIN nvm' \subseteq Persistent /\ \A q \in DOMAIN nvm' : nvm'[q] \in Values
  BY <1>1, <1>2 DEF TypeOK
<1> QED
  BY <1>4, <1>6, <1>7, <1>8, <1>9, <1>10 DEF InitDone

LEMMA DefaultDone ==
  ASSUME IInv, NEW p \in Persistent, DefaultParam(p)
  PROVE  InitDone(p)
<1>1. TypeOK /\ HistoryOK /\ p \in Table /\ Default[p] \in Values
  BY PersistentInTable, DefaultType DEF IInv
<1>2. ram' = [ram EXCEPT ![p] = Tagged(Default[p])]
  BY DEF DefaultParam
<1>3. /\ ram' \in [Table -> [value : Values, tagged : BOOLEAN]]
      /\ ram'[p] = Tagged(Default[p]) /\ \A q \in Table \ {p} : ram'[q] = ram[q]
  BY <1>1, <1>2, SetOne
<1>4. \A q \in Persistent : Saved(q) \in history.may[q]
  BY DEF IInv, AcknowledgedIsSaved
<1>5. history.mishaps + 1 \in Nat /\ history.differs \ {p} \in SUBSET Table
      /\ history.differs \cup {p} \in SUBSET Table
  BY <1>1, HistoryIs
\* The default is what is saved afterwards.
<1>6. ASSUME Saved(p)' = Default[p], \A q : q # p => Saved(q)' = Saved(q),
             DOMAIN nvm' \subseteq Persistent, \A q \in DOMAIN nvm' : nvm'[q] \in Values,
             HistoryOK', history'.serial = history.serial, history'.marred = history.marred,
             history'.differs = history.differs \ {p},
             \A q \in Persistent : history.may[q] \subseteq history'.may[q],
             Default[p] \in history'.may[p]
      PROVE  InitDone(p)
  <2>1. Agrees(p)'
    BY <1>3, <1>6 DEF Agrees
  <2>2. \A q \in Persistent : q # p => Agrees(q)' = Agrees(q)
    BY <1>1, <1>3, <1>6, LeftAlone
  <2>3. \A q \in Persistent : Saved(q)' \in history'.may[q]
    BY <1>4, <1>6
  <2> QED
    BY <1>3, <1>6, <2>1, <2>2, <2>3 DEF InitDone
<1>7. CASE /\ p \notin DOMAIN nvm /\ Put(p, Default[p])
           /\ history' = [history EXCEPT !.differs = @ \ {p}]
  <2>1. /\ DOMAIN nvm' \subseteq Persistent /\ \A q \in DOMAIN nvm' : nvm'[q] \in Values
        /\ Saved(p)' = Default[p] /\ \A q : q # p => Saved(q)' = Saved(q)
    BY <1>1, <1>7, PutSaves DEF TypeOK
  <2>2. /\ HistoryOK' /\ history'.serial = history.serial /\ history'.marred = history.marred
        /\ history'.may = history.may /\ history'.differs = history.differs \ {p}
    BY <1>1, <1>5, <1>7 DEF HistoryOK
  <2>3. Default[p] \in history.may[p]
    BY <1>4, <1>7 DEF Saved
  <2> QED
    BY <1>6, <2>1, <2>2, <2>3
<1>8. CASE /\ p \notin DOMAIN nvm /\ nvm' = nvm
           /\ history' = [history EXCEPT !.differs = @ \ {p}, !.mishaps = @ + 1]
  <2>1. /\ DOMAIN nvm' \subseteq Persistent /\ \A q \in DOMAIN nvm' : nvm'[q] \in Values
        /\ \A q : Saved(q)' = Saved(q)
    BY <1>1, <1>8, SameMemory DEF TypeOK
  <2>2. Saved(p) = Default[p]
    BY <1>8 DEF Saved
  <2>3. /\ HistoryOK' /\ history'.serial = history.serial /\ history'.marred = history.marred
        /\ history'.may = history.may /\ history'.differs = history.differs \ {p}
    BY <1>1, <1>5, <1>8 DEF HistoryOK
  <2> QED
    BY <1>4, <1>6, <2>1, <2>2, <2>3
<1>9. CASE /\ Put(p, Default[p])
           /\ history' = [history EXCEPT !.may[p] = @ \cup {Default[p]},
                                         !.differs = @ \ {p}, !.mishaps = @ + 1]
  <2>1. /\ DOMAIN nvm' \subseteq Persistent /\ \A q \in DOMAIN nvm' : nvm'[q] \in Values
        /\ Saved(p)' = Default[p] /\ \A q : q # p => Saved(q)' = Saved(q)
    BY <1>1, <1>9, PutSaves DEF TypeOK
  <2>2. PICK may : /\ may = [history.may EXCEPT ![p] = @ \cup {Default[p]}]
                   /\ history' = [history EXCEPT !.may = may, !.differs = @ \ {p},
                                                 !.mishaps = @ + 1]
    BY <1>1, <1>9 DEF HistoryOK
  <2>3. /\ may \in Mays /\ \A q \in Persistent : history.may[q] \subseteq may[q]
        /\ Default[p] \in may[p]
    BY <1>1, <2>2 DEF HistoryOK, Mays
  <2>4. /\ HistoryOK' /\ history'.serial = history.serial /\ history'.marred = history.marred
        /\ history'.may = may /\ history'.differs = history.differs \ {p}
    BY <1>1, <1>5, <2>2, <2>3 DEF HistoryOK
  <2> QED
    BY <1>6, <2>1, <2>3, <2>4
<1>10. CASE /\ nvm' = nvm
            /\ history' = [history EXCEPT !.differs = @ \cup {p}, !.mishaps = @ + 1]
  <2>1. /\ DOMAIN nvm' \subseteq Persistent /\ \A q \in DOMAIN nvm' : nvm'[q] \in Values
        /\ \A q : Saved(q)' = Saved(q)
    BY <1>1, <1>10, SameMemory DEF TypeOK
  <2>2. /\ HistoryOK' /\ history'.serial = history.serial /\ history'.marred = history.marred
        /\ history'.may = history.may /\ history'.differs = history.differs \cup {p}
    BY <1>1, <1>5, <1>10 DEF HistoryOK
  <2>3. \A q \in Persistent : q # p => Agrees(q)' = Agrees(q)
    BY <1>1, <1>3, <2>1, LeftAlone
  <2>4. \A q \in Persistent : Saved(q)' \in history'.may[q]
    BY <1>4, <2>1, <2>2
  <2> QED
    BY <1>3, <2>1, <2>2, <2>3, <2>4 DEF InitDone
<1> QED
  BY <1>7, <1>8, <1>9, <1>10 DEF DefaultParam, Mishap

LEMMA InitOne ==
  ASSUME IInv, InitParam, NEW p, p = Params[pos]
  PROVE  InitDone(p)
<1>1. p \in Table /\ Default[p] \in Values /\ TypeOK
  BY ParamsType, DefaultType DEF InitParam, IInv, InLoop, Initializing
<1>2. CASE p \in Persistent
  BY <1>2, LoadDone, DefaultDone DEF InitParam
<1>3. CASE p \notin Persistent
  <2>1. ram' = [ram EXCEPT ![p] = Tagged(Default[p])] /\ nvm' = nvm /\ history' = history
    BY <1>3 DEF InitParam
  <2>2. /\ ram' \in [Table -> [value : Values, tagged : BOOLEAN]]
        /\ \A q \in Table \ {p} : ram'[q] = ram[q]
    BY <1>1, <2>1, SetOne
  <2>3. \A q : Saved(q)' = Saved(q)
    BY <2>1, SameMemory
  <2>4. \A q \in Persistent : q # p => Agrees(q)' = Agrees(q)
    BY <1>1, <2>2, <2>3, LeftAlone
  <2>5. HistoryOK' /\ DOMAIN nvm' \subseteq Persistent /\ \A q \in DOMAIN nvm' : nvm'[q] \in Values
    BY <1>1, <2>1 DEF IInv, HistoryOK, TypeOK
  <2>6. \A q \in Persistent : Saved(q)' \in history'.may[q]
    BY <2>1, <2>3 DEF IInv, AcknowledgedIsSaved
  <2> QED
    BY <1>3, <2>1, <2>2, <2>4, <2>5, <2>6 DEF InitDone
<1> QED
  BY <1>2, <1>3

LEMMA InitParamIInv == IInv /\ InitParam => IInv'
<1> SUFFICES ASSUME IInv, InitParam PROVE IInv'
  OBVIOUS
<1>0. PICK p : p = Params[pos]
  OBVIOUS
<1>1. InitDone(p)
  BY <1>0, InitOne
<1>2. /\ at = "init" \/ at = "init_again"
      /\ serial' = serial /\ request' = request /\ has_sn' = has_sn
      /\ \/ /\ pos = Len(Params) /\ pos' = 1
            /\ at' = IF at = "init_again" /\ has_sn # NoSerial THEN "serial" ELSE "run"
         \/ pos # Len(Params) /\ pos' = pos + 1 /\ at' = at
  BY DEF InitParam, Advance, Go
<1>3. pos \in 1..Len(Params) /\ Len(Params) \in Nat
  BY <1>2, ParamsType DEF IInv, InLoop, Initializing
<1>4. TypeOK' /\ HistoryOK'
  <2>1. at' \in Phases /\ pos' \in Nat \ {0}
    BY <1>2, <1>3 DEF Phases
  <2> QED
    BY <1>1, <1>2, <2>1 DEF InitDone, IInv, TypeOK
<1>5. InLoop' /\ RequestIsSaved'
  BY <1>2, <1>3 DEF InLoop, RequestIsSaved, Initializing
<1>6. SerialKept'
  <2>1. /\ serial \in {NoSerial, history.serial} /\ has_sn \in {NoSerial, history.serial}
        /\ at = "init" => has_sn = NoSerial
        /\ ~history.marred => history.serial \in {serial, has_sn}
    BY <1>2 DEF IInv, SerialKept, Resetting
  <2>2. history'.serial = history.serial /\ history'.marred = history.marred
    BY <1>1 DEF InitDone
  <2>3. /\ at' = "serial" => has_sn # NoSerial
        /\ at' \notin {"serial", "init_again"} => has_sn = NoSerial
        /\ at' # "erase" /\ at' # "erase_again"
    BY <1>2, <2>1
  <2> QED
    BY <1>2, <2>1, <2>2, <2>3 DEF SerialKept, Resetting
<1>7. AcknowledgedIsSaved'
  BY <1>1 DEF InitDone, AcknowledgedIsSaved
<1>8. ASSUME NEW i \in 1..pos, Params[i] \in Persistent \ history'.differs
      PROVE  Agrees(Params[i])'
  <2>1. CASE Params[i] = p
    BY <1>1, <1>8, <2>1 DEF InitDone
  <2>2. CASE Params[i] # p
    <3>1. i \in 1..(pos - 1)
      BY <1>0, <1>3, <2>2
    <3>2. Params[i] \notin history.differs /\ Agrees(Params[i])' = Agrees(Params[i])
      BY <1>1, <1>8, <2>2 DEF InitDone
    <3>3. Agrees(Params[i])
      BY <1>2, <1>8, <3>1, <3>2 DEF IInv, RamIsSaved, Initializing
    <3> QED
      BY <3>2, <3>3
  <2> QED
    BY <2>1, <2>2
<1>9. RamIsSaved'
  <2>1. CASE pos = Len(Params)
    <3>1. \A q \in Persistent : \E i \in 1..pos : Params[i] = q
      BY <2>1, ParamsType, PersistentInTable
    <3>2. \A q \in Persistent \ history'.differs : Agrees(q)'
      BY <1>8, <3>1
    <3>3. ~Initializing'
      BY <1>2, <2>1 DEF Initializing
    <3> QED
      BY <3>2, <3>3 DEF RamIsSaved
  <2>2. CASE pos # Len(Params)
    <3>1. pos' - 1 = pos /\ at' = at
      BY <1>2, <1>3, <2>2
    <3> QED
      BY <1>2, <1>8, <3>1 DEF RamIsSaved
  <2> QED
    BY <2>1, <2>2
<1> QED
  BY <1>4, <1>5, <1>6, <1>7, <1>9 DEF IInv

-------------------------------------------------------------------------------
(* A request *)

LEMMA BeginWriteIInv ==
  ASSUME IInv, NEW r \in Request, BeginWrite(r)
  PROVE  IInv'
<1>1. /\ at = "run" /\ r # <<>> /\ request' = r /\ at' = "write" /\ pos' = 1
      /\ ram' = ram /\ nvm' = nvm /\ serial' = serial /\ has_sn' = has_sn
  BY DEF BeginWrite, Go
<1>2. TypeOK'
  BY <1>1 DEF IInv, TypeOK, Phases
<1>3. HistoryOK /\ history' = [history EXCEPT !.may = Possible(r)]
  BY DEF IInv, BeginWrite
<1>4. /\ \A p \in Persistent : history.may[p] \subseteq Possible(r)[p]
      /\ \A p \in Persistent : \A i \in 1..Len(r) :
           r[i].id = p /\ r[i].value \in Values => r[i].value \in Possible(r)[p]
  BY RequestType DEF Possible
<1>5. Possible(r) \in Mays
  <2>1. ASSUME NEW p \in Persistent
        PROVE  {r[i].value : i \in {j \in DOMAIN r : r[j].id = p /\ r[j].value \in Values}}
                 \subseteq Values
    OBVIOUS
  <2>2. \A p \in Persistent : history.may[p] \in SUBSET (Values \cup {Untagged})
    BY <1>3 DEF HistoryOK, Mays
  <2> QED
    BY <2>1, <2>2 DEF Possible, Mays
<1>6. /\ HistoryOK' /\ history'.may = Possible(r) /\ history'.differs = history.differs
      /\ history'.serial = history.serial /\ history'.marred = history.marred
  <2> HIDE DEF Possible
  <2> QED
    BY <1>3, <1>5 DEF HistoryOK
<1>7. InLoop' /\ SerialKept'
  BY <1>1, <1>6, RequestType DEF IInv, InLoop, SerialKept, Initializing, Resetting
<1>8. RamIsSaved'
  BY <1>1, <1>6, SameMemory DEF IInv, RamIsSaved, Agrees, Initializing
<1>9. RequestIsSaved'
  BY <1>1, <1>4, <1>6 DEF RequestIsSaved
<1>10. AcknowledgedIsSaved'
  BY <1>1, <1>4, <1>6, SameMemory DEF IInv, AcknowledgedIsSaved
<1> QED
  BY <1>2, <1>6, <1>7, <1>8, <1>9, <1>10 DEF IInv

\* What a client knows of a parameter once it is told that its request is done.
LEMMA SettledSays ==
  ASSUME request \in Request, NEW p \in Persistent, NEW h
  PROVE  \/ Settled(h)[p] = h.may[p]
         \/ \E i \in 1..Len(request) : /\ LastFor(p, i, Len(request)) /\ p \notin h.differs
                                       /\ Settled(h)[p] = {request[i].value}
<1> DEFINE given == {i \in DOMAIN request : request[i].id = p}
           last == CHOOSE i \in given : \A j \in given : j <= i
<1>1. given \in SUBSET (1..Len(request)) /\ Len(request) \in Nat /\ DOMAIN request = 1..Len(request)
  BY RequestType
<1>2. Settled(h)[p] = IF given = {} \/ p \in h.differs THEN h.may[p] ELSE {request[last].value}
  BY DEF Settled
<1>3. CASE given = {} \/ p \in h.differs
  <2> HIDE DEF given, last
  <2> QED
    BY <1>2, <1>3
<1>4. CASE given # {} /\ p \notin h.differs
  <2>1. last \in given /\ \A j \in given : j <= last
    <3>1. \E i \in given : \A j \in given : j <= i
      <4> HIDE DEF given
      <4> QED
        BY <1>1, <1>4, LastIn
    <3> QED
      BY <3>1
  <2>2. LastFor(p, last, Len(request))
    BY <1>1, <2>1 DEF LastFor
  <2>3. last \in 1..Len(request)
    BY <1>1, <2>1
  <2>4. Settled(h)[p] = {request[last].value}
    <3> HIDE DEF given, last
    <3> QED
      BY <1>2, <1>4
  <2> HIDE DEF last
  <2> QED
    BY <1>4, <2>2, <2>3, <2>4
<1> QED
  BY <1>3, <1>4

LEMMA SettledType ==
  ASSUME request \in Request, NEW h, h.may \in Mays
  PROVE  Settled(h) \in Mays
<1>1. \A i \in 1..Len(request) : request[i].value \in Values \cup {Untagged}
  BY RequestType DEF Item
<1>2. ASSUME NEW p \in Persistent PROVE Settled(h)[p] \in SUBSET (Values \cup {Untagged})
  <2>1. h.may[p] \in SUBSET (Values \cup {Untagged})
    BY DEF Mays
  <2> QED
    BY <1>1, <2>1, SettledSays
<1> QED
  BY <1>2 DEF Settled, Mays

\* What the record of what was told becomes by one value of a request.
LEMMA HistoryFields ==
  ASSUME HistoryOK, NEW u, NEW m, NEW h
  PROVE  /\ h = [history EXCEPT !.mishaps = m, !.differs = u]
            => h = [may |-> history.may, differs |-> u, serial |-> history.serial,
                    marred |-> history.marred, mishaps |-> m]
         /\ h = [history EXCEPT !.differs = u]
            => h = [may |-> history.may, differs |-> u, serial |-> history.serial,
                    marred |-> history.marred, mishaps |-> history.mishaps]
<1>1. ASSUME h = [history EXCEPT !.mishaps = m, !.differs = u]
      PROVE  h = [may |-> history.may, differs |-> u, serial |-> history.serial,
                  marred |-> history.marred, mishaps |-> m]
  BY <1>1 DEF HistoryOK
<1>2. ASSUME h = [history EXCEPT !.differs = u]
      PROVE  h = [may |-> history.may, differs |-> u, serial |-> history.serial,
                  marred |-> history.marred, mishaps |-> history.mishaps]
  BY <1>2 DEF HistoryOK
<1> QED
  BY <1>1, <1>2

\* The answer settles what may be found; until it is given nothing is.
MaysOfAnswer ==
  /\ pos # Len(request) => history'.may = history.may
  /\ pos = Len(request) =>
       \A q \in Persistent :
         \/ history'.may[q] = history.may[q]
         \/ \E i \in 1..Len(request) : /\ LastFor(q, i, Len(request)) /\ q \notin history'.differs
                                       /\ history'.may[q] = {request[i].value}

LEMMA AnsweredHistory ==
  ASSUME HistoryOK, request \in Request, NEW u \in SUBSET Table, NEW m \in Nat, NEW h,
         h = [may |-> history.may, differs |-> u, serial |-> history.serial,
              marred |-> history.marred, mishaps |-> m],
         history' = Answered(h)
  PROVE  /\ HistoryOK' /\ history'.differs = u
         /\ history'.serial = history.serial /\ history'.marred = history.marred
         /\ MaysOfAnswer
<1>1. /\ h.may = history.may /\ h.differs = u /\ h.serial = history.serial
      /\ h.marred = history.marred /\ h.mishaps = m
  OBVIOUS
<1>2. history.may \in Mays /\ history.serial \in Serials \cup {NoSerial}
      /\ history.marred \in BOOLEAN
  BY HistoryIs
<1>3. CASE pos # Len(request)
  <2>1. history' = h
    BY <1>3 DEF Answered
  <2> QED
    BY <1>1, <1>2, <1>3, <2>1 DEF HistoryOK, MaysOfAnswer
<1>4. CASE pos = Len(request)
  <2>1. Settled(h) \in Mays
    BY <1>1, <1>2, SettledType
  <2>2. history' = [may |-> Settled(h), differs |-> u, serial |-> history.serial,
                    marred |-> history.marred, mishaps |-> m]
    BY <1>4 DEF Answered
  <2>3. HistoryOK' /\ history'.differs = u /\ history'.may = Settled(h)
        /\ history'.serial = history.serial /\ history'.marred = history.marred
    BY <1>2, <2>1, <2>2 DEF HistoryOK
  <2>4. ASSUME NEW q \in Persistent
        PROVE  \/ history'.may[q] = history.may[q]
               \/ \E i \in 1..Len(request) :
                    /\ LastFor(q, i, Len(request)) /\ q \notin history'.differs
                    /\ history'.may[q] = {request[i].value}
    BY <1>1, <2>3, SettledSays
  <2> QED
    BY <1>4, <2>3, <2>4 DEF MaysOfAnswer
<1> QED
  BY <1>3, <1>4

\* What writing one value does: it is saved and read, or its parameter is recorded to
\* differ and is saved as before or as this value; nothing changes of the others.
LEMMA WriteOne ==
  ASSUME IInv, NEW p \in Table, NEW v \in Values \cup {Untagged},
         request[pos].id = p, request[pos].value = v,
         WriteUntagged(p) \/ (v \in Values /\ WriteTagged(p, v))
  PROVE  /\ ram' \in [Table -> [value : Values, tagged : BOOLEAN]]
         /\ DOMAIN nvm' \subseteq Persistent /\ \A q \in DOMAIN nvm' : nvm'[q] \in Values
         /\ HistoryOK' /\ MaysOfAnswer
         /\ history'.serial = history.serial /\ history'.marred = history.marred
         /\ \A q \in Persistent :
              Saved(q)' = Saved(q) \/ (q = p /\ v \in Values /\ Saved(q)' = v)
         /\ \A q \in Persistent \ history'.differs :
              /\ q = p => v \in Values /\ Saved(q)' = v /\ ram'[q] = Tagged(v)
              /\ q # p => q \notin history.differs /\ Saved(q)' = Saved(q) /\ ram'[q] = ram[q]
<1>1. TypeOK /\ HistoryOK /\ request \in Request
  BY DEF IInv, TypeOK
<1>2. /\ history.differs \in SUBSET Table
      /\ history.differs \cup {p} \in SUBSET Table /\ history.differs \ {p} \in SUBSET Table
      /\ history.mishaps \in Nat /\ history.mishaps + 1 \in Nat
      /\ history = [may |-> history.may, differs |-> history.differs,
                    serial |-> history.serial, marred |-> history.marred,
                    mishaps |-> history.mishaps]
  BY <1>1, HistoryIs
<1>3. CASE WriteUntagged(p)
  <2>1. /\ ram' = [ram EXCEPT ![p].tagged = FALSE] /\ nvm' = nvm
        /\ history' = Answered([history EXCEPT !.differs = @ \cup {p}])
    BY <1>3 DEF WriteUntagged, NotStored
  <2>2. PICK h : h = [history EXCEPT !.differs = @ \cup {p}] /\ history' = Answered(h)
    BY <2>1
  <2>3. h = [may |-> history.may, differs |-> history.differs \cup {p},
             serial |-> history.serial, marred |-> history.marred,
             mishaps |-> history.mishaps]
    BY <1>1, <2>2, HistoryFields
  <2>4. /\ HistoryOK' /\ MaysOfAnswer
        /\ history'.serial = history.serial /\ history'.marred = history.marred
        /\ history'.differs = history.differs \cup {p}
    BY <1>1, <1>2, <2>2, <2>3, AnsweredHistory
  <2>5. /\ ram' \in [Table -> [value : Values, tagged : BOOLEAN]]
        /\ \A q \in Table \ {p} : ram'[q] = ram[q]
    BY <1>1, <2>1 DEF TypeOK
  <2> QED
    BY <1>1, <2>1, <2>4, <2>5, SameMemory, PersistentInTable DEF TypeOK
<1>4. CASE v \in Values /\ WriteTagged(p, v)
  <2>1. ram' = [ram EXCEPT ![p] = Tagged(v)]
    BY <1>4 DEF WriteTagged
  <2>2. /\ ram' \in [Table -> [value : Values, tagged : BOOLEAN]]
        /\ ram'[p] = Tagged(v) /\ \A q \in Table \ {p} : ram'[q] = ram[q]
    BY <1>1, <1>4, <2>1, TaggedType DEF TypeOK
  <2>3. CASE /\ p \in Persistent /\ Put(p, v)
             /\ history' = Answered([history EXCEPT !.differs = @ \ {p}])
    <3>0. PICK h : h = [history EXCEPT !.differs = @ \ {p}] /\ history' = Answered(h)
      BY <2>3
    <3>1. h = [may |-> history.may, differs |-> history.differs \ {p},
               serial |-> history.serial, marred |-> history.marred,
               mishaps |-> history.mishaps]
      BY <1>1, <3>0, HistoryFields
    <3>2. /\ HistoryOK' /\ MaysOfAnswer
          /\ history'.serial = history.serial /\ history'.marred = history.marred
          /\ history'.differs = history.differs \ {p}
      BY <1>1, <1>2, <3>0, <3>1, AnsweredHistory
    <3>3. /\ DOMAIN nvm' \subseteq Persistent /\ \A q \in DOMAIN nvm' : nvm'[q] \in Values
          /\ Saved(p)' = v /\ \A q : q # p => Saved(q)' = Saved(q)
      BY <1>1, <1>4, <2>3, PutSaves DEF TypeOK
    <3> QED
      BY <1>4, <2>2, <3>2, <3>3, PersistentInTable
  <2>4. CASE /\ p \in Persistent /\ nvm' = nvm
             /\ history' = Answered([history EXCEPT !.mishaps = @ + 1, !.differs = @ \cup {p}])
    <3>0. PICK h : /\ h = [history EXCEPT !.mishaps = @ + 1, !.differs = @ \cup {p}]
                   /\ history' = Answered(h)
      BY <2>4
    <3>1. h = [may |-> history.may, differs |-> history.differs \cup {p},
               serial |-> history.serial, marred |-> history.marred,
               mishaps |-> history.mishaps + 1]
      BY <1>1, <3>0, HistoryFields
    <3>2. /\ HistoryOK' /\ MaysOfAnswer
          /\ history'.serial = history.serial /\ history'.marred = history.marred
          /\ history'.differs = history.differs \cup {p}
      BY <1>1, <1>2, <3>0, <3>1, AnsweredHistory
    <3> QED
      BY <1>1, <2>2, <2>4, <3>2, SameMemory, PersistentInTable DEF TypeOK
  <2>5. CASE p \notin Persistent /\ nvm' = nvm /\ history' = Answered(history)
    <3>1. /\ HistoryOK' /\ MaysOfAnswer
          /\ history'.serial = history.serial /\ history'.marred = history.marred
          /\ history'.differs = history.differs
      BY <1>1, <1>2, <2>5, AnsweredHistory
    <3> QED
      BY <1>1, <2>2, <2>5, <3>1, SameMemory, PersistentInTable DEF TypeOK
  <2> QED
    BY <1>4, <2>3, <2>4, <2>5 DEF WriteTagged, Kept, Mishap
<1> QED
  BY <1>3, <1>4

LEMMA WriteParamIInv == IInv /\ WriteParam => IInv'
<1> SUFFICES ASSUME IInv, WriteParam PROVE IInv'
  OBVIOUS
<1> DEFINE n == Len(request)
<1>1. /\ at = "write" /\ serial' = serial /\ has_sn' = has_sn
      /\ request' = IF at' = "run" THEN <<>> ELSE request
  BY DEF WriteParam
<1>2. /\ request \in Request /\ n \in Nat /\ pos \in 1..n
      /\ \A i \in 1..n : request[i] \in Item
  BY <1>1, RequestType DEF IInv, TypeOK, InLoop
<1>3. TypeOK /\ HistoryOK
  BY DEF IInv
<1>4. CASE WriteUnknown
  <2>1. at' = "run" /\ pos' = 1 /\ ram' = ram /\ nvm' = nvm /\ history' = history
    BY <1>4 DEF WriteUnknown, Go
  <2>2. TypeOK'
    <3>1. request' \in Request
      BY <1>1, <2>1, EmptyRequest
    <3> QED
      BY <1>1, <1>3, <2>1, <3>1 DEF TypeOK, Phases
  <2>3. InLoop' /\ SerialKept' /\ RequestIsSaved'
    BY <1>1, <2>1 DEF IInv, InLoop, SerialKept, RequestIsSaved, Initializing, Resetting
  <2>4. RamIsSaved' /\ AcknowledgedIsSaved'
    BY <1>1, <2>1, SameMemory DEF IInv, RamIsSaved, AcknowledgedIsSaved, Agrees, Initializing
  <2> QED
    BY <1>3, <2>1, <2>2, <2>3, <2>4 DEF IInv, HistoryOK
<1>5. ASSUME NEW p \in Table, NEW v \in Values \cup {Untagged},
             request[pos].id = p, request[pos].value = v,
             WriteUntagged(p) \/ (v \in Values /\ WriteTagged(p, v))
      PROVE  IInv'
  <2>1. \/ pos = n /\ at' = "run" /\ pos' = 1
        \/ pos # n /\ at' = "write" /\ pos' = pos + 1
    BY <1>1, <1>5 DEF WriteUntagged, WriteTagged, Advance, Go
  <2>2. /\ ram' \in [Table -> [value : Values, tagged : BOOLEAN]]
        /\ DOMAIN nvm' \subseteq Persistent /\ \A q \in DOMAIN nvm' : nvm'[q] \in Values
        /\ HistoryOK' /\ MaysOfAnswer
        /\ history'.serial = history.serial /\ history'.marred = history.marred
        /\ \A q \in Persistent :
             Saved(q)' = Saved(q) \/ (q = p /\ v \in Values /\ Saved(q)' = v)
        /\ \A q \in Persistent \ history'.differs :
             /\ q = p => v \in Values /\ Saved(q)' = v /\ ram'[q] = Tagged(v)
             /\ q # p => q \notin history.differs /\ Saved(q)' = Saved(q) /\ ram'[q] = ram[q]
    BY <1>5, WriteOne
  <2>3. TypeOK'
    <3>1. request' \in Request /\ at' \in Phases /\ pos' \in Nat \ {0}
      BY <1>1, <1>2, <2>1, EmptyRequest DEF Phases
    <3> QED
      BY <1>1, <1>3, <2>2, <3>1 DEF TypeOK
  <2>4. InLoop' /\ SerialKept'
    BY <1>1, <1>2, <2>1, <2>2 DEF IInv, InLoop, SerialKept, Initializing, Resetting
  <2>5. \A q \in Persistent \ history'.differs : Agrees(q)'
    BY <1>1, <2>2 DEF IInv, RamIsSaved, Agrees
  <2>6. RamIsSaved'
    BY <2>1, <2>5 DEF RamIsSaved, Initializing
  \* The value just written is the last one of the request for its parameter so far.
  <2>7. ASSUME NEW q \in Persistent \ history'.differs, NEW i \in 1..pos, LastFor(q, i, pos)
        PROVE  Saved(q)' = request[i].value
    <3>1. CASE q = p
      <4>1. i = pos
        BY <1>2, <1>5, <2>7, <3>1 DEF LastFor
      <4> QED
        BY <1>5, <2>2, <3>1, <4>1
    <3>2. CASE q # p
      <4>1. i \in 1..(pos - 1) /\ LastFor(q, i, pos - 1)
        BY <1>2, <1>5, <2>7, <3>2 DEF LastFor
      <4>2. Saved(q) = request[i].value
        BY <1>1, <2>2, <3>2, <4>1 DEF IInv, RequestIsSaved
      <4> QED
        BY <2>2, <3>2, <4>2
    <3> QED
      BY <3>1, <3>2
  <2>8. \A q \in Persistent : Saved(q)' \in history.may[q]
    BY <1>1, <1>2, <1>5, <2>2 DEF IInv, RequestIsSaved, AcknowledgedIsSaved
  <2>9. CASE pos = n
    <3>1. RequestIsSaved'
      BY <2>1, <2>9 DEF RequestIsSaved
    <3>2. ASSUME NEW q \in Persistent PROVE Saved(q)' \in history'.may[q]
      <4>1. CASE history'.may[q] = history.may[q]
        BY <2>8, <4>1
      <4>2. CASE \E i \in 1..n : /\ LastFor(q, i, n) /\ q \notin history'.differs
                                 /\ history'.may[q] = {request[i].value}
        BY <2>7, <2>9, <4>2
      <4> QED
        BY <2>2, <2>9, <4>1, <4>2 DEF MaysOfAnswer
    <3>3. AcknowledgedIsSaved'
      BY <3>2 DEF AcknowledgedIsSaved
    <3> QED
      BY <2>2, <2>3, <2>4, <2>6, <3>1, <3>3 DEF IInv
  <2>10. CASE pos # n
    <3>1. request' = request /\ pos' - 1 = pos /\ history'.may = history.may
      BY <1>1, <1>2, <2>1, <2>2, <2>10 DEF MaysOfAnswer
    <3>2. \A q \in Persistent : \A i \in 1..n :
            request[i].id = q /\ request[i].value \in Values => request[i].value \in history.may[q]
      BY <1>1 DEF IInv, RequestIsSaved
    <3>3. RequestIsSaved'
      BY <2>7, <3>1, <3>2 DEF RequestIsSaved, LastFor
    <3>4. AcknowledgedIsSaved'
      BY <2>8, <3>1 DEF AcknowledgedIsSaved
    <3> QED
      BY <2>2, <2>3, <2>4, <2>6, <3>3, <3>4 DEF IInv
  <2> QED
    BY <2>9, <2>10
<1>6. CASE \E p \in Table : WriteUntagged(p)
  <2>1. PICK p \in Table : WriteUntagged(p)
    BY <1>6
  <2>2. request[pos].id = p /\ request[pos].value = Untagged
    BY <2>1 DEF WriteUntagged
  <2> QED
    BY <1>5, <2>1, <2>2
<1>7. CASE \E p \in Table : \E v \in Values : WriteTagged(p, v)
  <2>1. PICK p \in Table, v \in Values : WriteTagged(p, v)
    BY <1>7
  <2>2. request[pos].id = p /\ request[pos].value = v
    BY <2>1 DEF WriteTagged
  <2> QED
    BY <1>5, <2>1, <2>2
<1> QED
  BY <1>4, <1>6, <1>7 DEF WriteParam

LEMMA StutterIInv == IInv /\ UNCHANGED vars => IInv'
<1> SUFFICES ASSUME IInv, UNCHANGED vars PROVE IInv'
  OBVIOUS
<1>1. TypeOK' /\ HistoryOK' /\ InLoop' /\ SerialKept'
  BY DEF IInv, TypeOK, HistoryOK, InLoop, SerialKept, Initializing, Resetting, vars
<1>2. RamIsSaved' /\ RequestIsSaved' /\ AcknowledgedIsSaved'
  BY SameMemory DEF IInv, RamIsSaved, RequestIsSaved, AcknowledgedIsSaved, Agrees, LastFor,
     Initializing, vars
<1> QED
  BY <1>1, <1>2 DEF IInv

LEMMA Invariance == Spec => []IInv
<1>1. IInv /\ [Next]_vars => IInv'
  BY InitParamIInv, BeginWriteIInv, WriteParamIInv, GenerateIInv, FactoryResetIInv, EraseIInv,
     RestoreSerialIInv, SetSerialIInv, ClearNvmIInv, PowerFailsIInv, StutterIInv DEF Next
<1> QED
  BY <1>1, InitIInv, PTL DEF Spec

-------------------------------------------------------------------------------
(* Theorems *)

\* The repository and the memory keep their types.
THEOREM TypeCorrect == Spec => []TypeOK
<1>1. IInv => TypeOK
  BY DEF IInv
<1> QED
  BY <1>1, Invariance, PTL

\* What is saved of a parameter is the value a client was last told is written, or the
\* default once the memory was erased, after any number of failures of the power and
\* of the memory, but for the three exceptions of the property: an unfinished request,
\* a write that failed or was of a value not recognized, a boot that could not read.
THEOREM Durable == Spec => []AcknowledgedIsSaved
<1>1. IInv => AcknowledgedIsSaved
  BY DEF IInv
<1> QED
  BY <1>1, Invariance, PTL

\* What a client reads is what is stored, at whatever point of a boot, a reset or a
\* request the power failed before, but for parameters whose last write, or whose last
\* reading and storing at boot, went wrong, and for all of them after "nvm clear".
THEOREM Consistent == Spec => []ReadsWhatIsSaved
<1>1. IInv => ReadsWhatIsSaved
  BY DEF IInv, RamIsSaved, ReadsWhatIsSaved, Agrees
<1> QED
  BY <1>1, Invariance, PTL

\* A factory reset gives the device its serial number back, unless it is interrupted or
\* the number can not be read before or written after; there never is another number.
THEOREM SerialRestored == Spec => []SerialSurvives
<1>1. IInv => SerialSurvives
  BY DEF IInv, SerialKept, SerialSurvives, Resetting
<1> QED
  BY <1>1, Invariance, PTL

===============================================================================
