------------------------------- MODULE ParamRepo -------------------------------
(***************************************************************************)
(* The parameter repository of the application, App/params.c, and its      *)
(* non-volatile memory: parameters are written by clients, one or several  *)
(* in a request (cr_params.c), initialised at boot (rsl_init()) and by a   *)
(* factory reset (App/commands.c), which also saves the serial number over *)
(* the erasure of the memory.                                              *)
(*                                                                         *)
(* The power may fail between any two operations on the memory, so each of *)
(* them is a step; each is atomic (external: Silicon Labs NVM3).  Its      *)
(* result codes are all but ignored by the code, so any of them, reads and *)
(* writes and erasures, may fail when Faulty.  The LED that shows one of   *)
(* the parameters is left out.                                             *)
(***************************************************************************)
EXTENDS Integers, Sequences, FiniteSets

CONSTANTS
  Params,        \* parameters, in the order of param_desc
  Persistent,    \* those whose storage_location is NONVOLATILE
  Generated,     \* the one whose value the device itself changes
  Default,       \* [parameter -> its default value]
  Values,
  Untagged,      \* a value whose which_value is not recognized
  Unknown,       \* an id no parameter has
  Serials, NoSerial,
  MaxWrites,     \* length of values[] in a ParameterWrite
  MaxMishaps,    \* bound on power failures and steps in which the memory fails
  Faulty         \* may operations on the memory fail?

Table == {Params[i] : i \in DOMAIN Params}

ASSUME RepoAssumption ==
  /\ Params \in Seq(Table) /\ Params # <<>>
  /\ Persistent \subseteq Table /\ Generated \in Table \ Persistent
  /\ Default \in [Table -> Values]
  /\ Untagged \notin Values /\ Unknown \notin Table
  /\ NoSerial \notin Serials
  /\ MaxWrites \in Nat \ {0} /\ MaxMishaps \in Nat /\ Faulty \in BOOLEAN

VARIABLES
  ram,       \* sCr_param_val: [value, which_value recognized?]
  nvm,       \* the parameters stored
  serial,    \* and the serial number
  at, pos,   \* what the one thread is doing, and how far it has come
  request,   \* the ParameterWrite being handled
  has_sn,    \* sn of crcb_command_execute(), NoSerial unless has_sn
  history    \* of what clients and the operator were told (no code reads it):
             \* may      the values a persistent parameter may be saved as
             \* differs  parameters of which RAM and memory need not agree
             \* serial   the number last set, NoSerial once cleared
             \* marred   has something failed that may lose that number?
             \* mishaps  power failures and failures of the memory

vars == <<ram, nvm, serial, at, pos, request, has_sn, history>>

Phases == {"init", "run", "write", "erase", "erase_again", "init_again", "serial"}

Item == [id : Table, value : Values \cup {Untagged}]
          \cup {[id |-> Unknown, value |-> Untagged]}
Request == UNION {[1..n -> Item] : n \in 0..MaxWrites}

Tagged(v) == [value |-> v, tagged |-> TRUE]

\* What a client would read after a power failure.
Saved(p) == IF p \in DOMAIN nvm THEN nvm[p] ELSE Default[p]

\* What RAM holds before it is initialized: nobody looks at it.
Blank == [p \in Table |-> Tagged(Default[p])]

Init ==
  /\ ram = Blank
  /\ nvm = <<>> /\ serial = NoSerial
  /\ at = "init" /\ pos = 1 /\ request = <<>> /\ has_sn = NoSerial
  /\ history = [may |-> [p \in Persistent |-> {Default[p]}], differs |-> {},
                serial |-> NoSerial, marred |-> FALSE, mishaps |-> 0]

Go(phase) == at' = phase /\ pos' = 1

Put(p, v) == nvm' = [q \in DOMAIN nvm \cup {p} |-> IF q = p THEN v ELSE nvm[q]]

\* An operation on the memory fails, which nobody but the log is told.
Fails == Faulty /\ history.mishaps < MaxMishaps

Mishap == Fails /\ nvm' = nvm

-------------------------------------------------------------------------------
(* init_param_repo() *)

Advance(last, phase) ==
  IF pos = last THEN Go(phase) ELSE pos' = pos + 1 /\ at' = at

\* Mutant: what is stored is not read back.
Loaded_NotRead(p) == Default[p]

Loaded(p) == nvm[p]

LoadParam(p) ==
  /\ p \in DOMAIN nvm
  /\ ram' = [ram EXCEPT ![p] = Tagged(Loaded(p))]
  /\ history' = [history EXCEPT !.differs = @ \ {p}]
  /\ nvm' = nvm

\* A value that is not stored, or cannot be read, is replaced by the default, and
\* that is stored unless it fails.
DefaultParam(p) ==
  /\ ram' = [ram EXCEPT ![p] = Tagged(Default[p])]
  /\ \/ /\ p \notin DOMAIN nvm
        /\ Put(p, Default[p])
        /\ history' = [history EXCEPT !.differs = @ \ {p}]
     \/ /\ p \notin DOMAIN nvm /\ Mishap
        /\ history' = [history EXCEPT !.differs = @ \ {p}, !.mishaps = @ + 1]
     \/ /\ p \in DOMAIN nvm /\ Fails
        /\ Put(p, Default[p])
        /\ history' = [history EXCEPT !.may[p] = @ \cup {Default[p]},
                                      !.differs = @ \ {p}, !.mishaps = @ + 1]
     \/ /\ p \in DOMAIN nvm /\ Mishap
        /\ history' = [history EXCEPT !.differs = @ \cup {p}, !.mishaps = @ + 1]

\* One turn of the loop over the table.
InitParam ==
  LET p == Params[pos]
  IN  /\ at \in {"init", "init_again"}
      /\ \/ /\ p \notin Persistent
            /\ ram' = [ram EXCEPT ![p] = Tagged(Default[p])]
            /\ UNCHANGED <<nvm, history>>
         \/ p \in Persistent /\ LoadParam(p)
         \/ p \in Persistent /\ DefaultParam(p)
      /\ Advance(Len(Params), IF at = "init_again" /\ has_sn # NoSerial THEN "serial" ELSE "run")
      /\ UNCHANGED <<serial, request, has_sn>>

-------------------------------------------------------------------------------
(* pvtCrParam_write_param(), crcb_parameter_write() *)

\* What a client that has asked for the values of r may find later.
Possible(r) ==
  [p \in Persistent |->
     history.may[p] \cup {r[i].value : i \in {j \in DOMAIN r : r[j].id = p /\ r[j].value \in Values}}]

\* A request of no values is reported and does nothing.
BeginWrite(r) ==
  /\ at = "run" /\ r # <<>>
  /\ request' = r
  /\ Go("write")
  /\ history' = [history EXCEPT !.may = Possible(r)]
  /\ UNCHANGED <<ram, nvm, serial, has_sn>>

\* What the client knows once told that its request is done: the last value given,
\* if that was stored; if it was not, any of those before it may be what is saved.
Settled(h) ==
  [p \in Persistent |->
     LET given == {i \in DOMAIN request : request[i].id = p}
         last == CHOOSE i \in given : \A j \in given : j <= i
     IN  IF given = {} \/ p \in h.differs THEN h.may[p] ELSE {request[last].value}]

Answered(h) == IF pos = Len(request) THEN [h EXCEPT !.may = Settled(h)] ELSE h

WriteUnknown ==
  /\ request[pos].id = Unknown
  /\ Go("run")
  /\ UNCHANGED <<ram, nvm, history>>

\* Mutant: what is not recognized is stored.
NotStored_Put(p) == Put(p, Untagged)

NotStored(p) == nvm' = nvm

\* Nothing is stored, yet the client is told that all is well.
WriteUntagged(p) ==
  /\ request[pos].id = p /\ request[pos].value = Untagged
  /\ ram' = [ram EXCEPT ![p].tagged = FALSE]
  /\ NotStored(p)
  /\ history' = Answered([history EXCEPT !.differs = @ \cup {p}])
  /\ Advance(Len(request), "run")

\* Mutant: a value is stored only if there is none.
Kept_First(p, v) == IF p \in DOMAIN nvm THEN nvm' = nvm ELSE Put(p, v)

Kept(p, v) == Put(p, v)

WriteTagged(p, v) ==
  /\ request[pos] = [id |-> p, value |-> v]
  /\ ram' = [ram EXCEPT ![p] = Tagged(v)]
  /\ \/ /\ p \in Persistent
        /\ Kept(p, v)
        /\ history' = Answered([history EXCEPT !.differs = @ \ {p}])
     \/ /\ p \in Persistent /\ Mishap
        /\ history' = Answered([history EXCEPT !.mishaps = @ + 1, !.differs = @ \cup {p}])
     \/ /\ p \notin Persistent
        /\ nvm' = nvm
        /\ history' = Answered(history)
  /\ Advance(Len(request), "run")

WriteParam ==
  /\ at = "write"
  /\ \/ WriteUnknown
     \/ \E p \in Table : WriteUntagged(p) \/ \E v \in Values : WriteTagged(p, v)
  /\ request' = IF at' = "run" THEN <<>> ELSE request
  /\ UNCHANGED <<serial, has_sn>>

\* generate_data_for_notify()
Generate(v) ==
  /\ at = "run"
  /\ ram' = [ram EXCEPT ![Generated].value = v]
  /\ UNCHANGED <<nvm, serial, at, pos, request, has_sn, history>>

-------------------------------------------------------------------------------
(* The factory reset, and the commands of the device's own console *)

\* rsl_read_serial_number() fails when there is no number, and may when there is.
FactoryReset ==
  LET may == [p \in Persistent |-> history.may[p] \cup {Default[p]}]
  IN  /\ at = "run"
      /\ \/ has_sn' = serial /\ history' = [history EXCEPT !.may = may]
         \/ /\ serial # NoSerial /\ Fails
            /\ has_sn' = NoSerial
            /\ history' = [history EXCEPT !.may = may, !.marred = TRUE, !.mishaps = @ + 1]
      /\ Go("erase")
      /\ UNCHANGED <<ram, nvm, serial, request>>

\* nvm3_eraseAll(), called twice in a row.
Erased == /\ nvm' = <<>> /\ serial' = NoSerial
          /\ history' = [history EXCEPT !.may = [p \in Persistent |-> {Default[p]}]]

Erase ==
  /\ at \in {"erase", "erase_again"}
  /\ \/ Erased
     \/ Mishap /\ serial' = serial /\ history' = [history EXCEPT !.mishaps = @ + 1]
  /\ Go(IF at = "erase" THEN "erase_again" ELSE "init_again")
  /\ UNCHANGED <<ram, request, has_sn>>

\* Mutant: the serial number is not written back.
Restored_Not == serial' = serial

Restored == serial' = has_sn

RestoreSerial ==
  /\ at = "serial"
  /\ \/ Restored /\ history' = history
     \/ /\ Mishap /\ serial' = serial
        /\ history' = [history EXCEPT !.mishaps = @ + 1, !.marred = @ \/ serial # has_sn]
  /\ Go("run")
  /\ has_sn' = NoSerial
  /\ UNCHANGED <<ram, nvm, request>>

\* "sn N", "sn clear".  One that fails changes nothing.
SetSerial(s) ==
  /\ at = "run"
  /\ serial' = s
  /\ history' = [history EXCEPT !.serial = s, !.marred = FALSE]
  /\ UNCHANGED <<ram, nvm, at, pos, request, has_sn>>

\* "nvm clear", which leaves the parameters in RAM alone, and "nvm init", which goes
\* on when the erasure fails.
ClearNvm(again) ==
  /\ at = "run"
  /\ \/ /\ nvm' = <<>> /\ serial' = NoSerial
        /\ history' = [history EXCEPT !.may = [p \in Persistent |-> {Default[p]}],
                                      !.differs = IF again THEN @ ELSE Persistent,
                                      !.serial = NoSerial, !.marred = FALSE]
     \/ /\ again /\ Mishap /\ serial' = serial
        /\ history' = [history EXCEPT !.mishaps = @ + 1]
  /\ Go(IF again THEN "init_again" ELSE "run")
  /\ UNCHANGED <<ram, request, has_sn>>

\* The serial number is lost when only RAM has it.
PowerFails ==
  /\ history.mishaps < MaxMishaps
  /\ Go("init")
  /\ ram' = Blank /\ request' = <<>> /\ has_sn' = NoSerial
  /\ history' = [history EXCEPT !.mishaps = @ + 1,
                                !.marred = @ \/ has_sn \notin {NoSerial, serial}]
  /\ UNCHANGED <<nvm, serial>>

Next ==
  \/ InitParam
  \/ \E r \in Request : BeginWrite(r)
  \/ WriteParam
  \/ \E v \in Values : Generate(v)
  \/ FactoryReset
  \/ Erase
  \/ RestoreSerial
  \/ \E s \in Serials \cup {NoSerial} : SetSerial(s)
  \/ \E again \in BOOLEAN : ClearNvm(again)
  \/ PowerFails

Spec == Init /\ [][Next]_vars

-------------------------------------------------------------------------------
(* Properties *)

\* The repository and the memory hold values of parameters, and only parameters
\* that are to be stored are stored.
TypeOK ==
  /\ ram \in [Table -> [value : Values, tagged : BOOLEAN]]
  /\ DOMAIN nvm \subseteq Persistent /\ \A p \in DOMAIN nvm : nvm[p] \in Values
  /\ serial \in Serials \cup {NoSerial} /\ has_sn \in Serials \cup {NoSerial}
  /\ at \in Phases /\ pos \in Nat \ {0} /\ request \in Request

\* What a client reads of a persistent parameter is what it would read after a power
\* failure, whenever the power or the memory failed before, with these exceptions: a
\* parameter whose last write failed or was of a value not recognized, one that at
\* boot could neither be read nor be stored, and all of them after "nvm clear"; each
\* until it is written, or the repository initialized, without such a failure.
ReadsWhatIsSaved ==
  at = "run" => \A p \in Persistent \ history.differs : ram[p] = Tagged(Saved(p))

\* What is saved of any parameter, at any moment and after any number of failures, is
\* the value a client was last told is written, or the default once the memory was
\* erased, with these exceptions: one of an unfinished request, the one before it if
\* the write failed or was of a value not recognized, which the client is not told,
\* and the default if a boot could not read what was stored.
AcknowledgedIsSaved == \A p \in Persistent : Saved(p) \in history.may[p]

\* "erases NVM, restores serial number" (commands.c:83): a factory reset changes no
\* serial number, and loses it only if reading it before the erasure or writing it
\* back afterwards fails, or the power does while only RAM has it; none of these ever
\* leaves another number than the one last set.
SerialSurvives ==
  /\ serial \in {NoSerial, history.serial}
  /\ at = "run" /\ ~history.marred => serial = history.serial

===============================================================================
