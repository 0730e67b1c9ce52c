# A formal model of the Reach firmware

This directory holds TLA+ modules of the Reach device firmware (`src/`), the
TLC configurations that check them on small instances, and proofs, checked by
TLAPS, that their safety properties hold for every instance. `PROJECT.json`
lists the runs, their properties, the mutants that break them, which lines of
the source every definition stands for, the hazards the properties are aimed
at, and the findings.

To check a run: `tlc -config MCFileService.cfg MCFileService` (the table under
*Runs* names the pairs). To check the proofs: `tlapm FileServiceProofs.tla`,
and the same for `ReachStackProofs`, `FileWriteProofs`, `WatchdogProofs`,
`ParamServiceProofs`, `ParamNotifyProofs`, `ParamRepoProofs` and
`MessagePathProofs` (this one takes fifteen minutes).

## The system

Reach lets a Bluetooth client (a phone) inspect and operate a device. The
device is a server: it answers prompts, and streams what does not fit one
message in *continued transactions*. It is one thread: `app.c` loops over
`rsl_app_process_action()`, which calls `cr_process()`; the events of the
Bluetooth stack come in the same loop, between two such calls. So there is no
data race, and the hard behaviour lies in the order in which calls and events
come, in state that outlives the request it was made for, in counters and
clocks of 32 bits, and in the radio.

| Component (source) | State | Operations | Interacts with |
| --- | --- | --- | --- |
| stack core, `cr_stack.c` | the stored prompt, the encoded response, the continued transaction (type, count, remaining), the connection flag | `cr_process`, `cr_store_coded_prompt`, `cr_set_comm_link_connected`, `cr_report_error` | calls every service; called by the link |
| Bluetooth link, `Integrations/Silabs/reach_silabs.c` | connection, subscription | opened, closed, subscribed, written, read events; notify | stores prompts, sends responses |
| file service, `cr_files.c` | one transfer (`sCr_file_xfer_state`), its watchdog | discover, init, data, data notification, the continued window | reads and writes the application's files |
| transfer watchdog, `cr_files.c` | active flag, period, target tick | start, stroke, end, check | polled by `cr_process` |
| time service, `cr_stack.c`, `App/time.c` | a time of day, the tick count it was set at, a time zone | set, get | the tick count the watchdog reads |
| parameter service, `cr_params.c` | list of requested ids, an index, the notification slots | discover, discover extensions, read, write, configure notifications, check notifications | reads and moves the application's cursors |
| parameter repository, `App/params.c` | values in RAM, values in NVM, two cursors | read, write, boot, iterate | non-volatile memory |
| commands, `App/commands.c` | cursor | discover, execute (factory reset) | erases NVM, re-initialises the repository |
| files of the application, `App/files.c` | a table | describe, read, write, prepare | called by the file service |
| device information and ping, `cr_stack.c`, `App/device.c` | none | get info, ping | stack core |
| command line, `silabs_cli.c`, `App/reach_client.c`, logging | the line being typed | remote line, echo of a log line to the client | sends notifications, writes NVM |
| message coding, `reach_decode.c`, `reach_proto` (nanopb, `reach.pb.h`) | two buffers in `cr_stack.c` | encode and decode a payload and its envelope | every service, both directions |
| streams, WiFi, printing of messages, weak defaults, platform | see *Not modelled* | | |

What makes it hard, and what each component owes its callers:

- *file service*: a transfer is moved by three handlers that a client calls in
  any order, and by a fourth that runs without a prompt. It must stream only
  for the read it belongs to, keep flow control and numbering on both sides,
  move contiguous bytes, and say "complete" only when that is so.
- *stack core and link*: a prompt is one of a kind in a one-place mailbox, and
  so is a response. An answer must belong to its prompt, a window to the
  prompt that opened it, and no prompt may wait for ever.
- *watchdog and time*: both measure time on a 32-bit clock. Timeouts neither
  early nor late, the time of day as it was set.
- *end to end*: messages are overwritten, notifications are lost. A client
  that is told "complete" has its file; while nothing is lost, nobody waits
  for ever.
- *message coding*: two coders written apart, structures with limits, buffers
  with others. What one end means is what the other end gets, or an error; a
  prompt that arrives cut is not taken for another one.
- *parameter listings*: the position is kept half in the stack and half in the
  application, and other handlers move the application's half. A client gets
  what it asked for, once, in order, all of it.
- *notifications*: slots are reused with the last occupant's value and time;
  the clock rolls over. Periods and delta hold, and changes are told.
- *repository*: the power may fail between any two operations on the memory.
  What a client was told is written stays.

## Modules

    Wire - Coding - ReachProto - AppTables - MessagePath - MessagePathProofs
                                                 \
                                               Structures

    FileService ------------- FileServiceProofs
      |      \                   |          \
    ReachStack --------- ReachStackProofs    |
             \                               |
           FileWrite ------------------ FileWriteProofs
              | refines
           FileCopy

    Watchdog - TimeService - WatchdogProofs
    ParamService - ParamServiceProofs        (ParamService refines Listing)
    ParamNotify - ParamNotifyProofs
    ParamRepo - ParamRepoProofs

- **FileService** models all of `cr_files.c`. `xfer` is
  `sCr_file_xfer_state`, `continued` the three `pvtCr_...continued...`
  variables, `watchdog` the active flag, `reply` what the handler left to be
  encoded. One action is one handler run to its return; the disjuncts of an
  action are the handler's paths (`NoSuchFile`, `Refused` and `Opened` of
  `TransferInit`, and so on). Every action takes `w`, the watchdog flag as the
  check at the start of `cr_process()` left it, so a time-out may come before
  any step. `history` is a record for the properties only. Bytes are
  abstracted to offsets and sizes; counters wrap at `Word`.
- **ReachStack** puts the file service into `cr_process()`: the prompt buffer,
  the encoded response that stays in its buffer, errors, connections, prompts
  that are answered at once, the command line's that are not answered, and
  listings of parameters, of which the stack sees that messages are left, that
  one more call sends the next one, and that a listing may end with nothing
  more to send. It INSTANCEs FileService and runs its handlers; link events
  interleave.
- **FileWrite** composes the file service with a client that writes a file,
  the mailbox that a second prompt overwrites, and notifications that are
  lost. **FileCopy** is what such a transfer promises: more and more of the
  file is in place, what is in place is not damaged again, and the writer is
  told that it is done only when all of it is in place. FileWrite implements it.
- **Watchdog** models the four functions of the watchdog over a tick count
  modulo `Word`, and the true time beside it. `Process` is the beginning of
  `cr_process()`: the ticks are stored in every call, but a call that finds no
  client returns before it looks at the watchdog (`cr_stack.c:436`), and no
  handler runs in it (`serving`). `Link` changes the connection and nothing else,
  so that a watchdog started for one client may be found expired by the next.
  **TimeService** extends it by the time of day that is counted on the same
  ticks; `DeviceSpec` is both.
- **Wire** has the varints, tags and lengths of nanopb as sequences of base-128
  digits, in their real widths of 32 and 64 bits; **Coding** the encoder and the
  decoder over descriptors of messages (labels, types, room of the structures,
  fields nobody knows, messages that end in the middle). The protocol nests
  messages once, so the code's recursion is written out: what is done with a
  field is the same for a message and a flat message in it, and takes what is
  done with one value as a parameter; the decoder's loops are `UntilEnd`, steps
  until the stream is empty. **ReachProto** has the
  descriptors of the protocol, its limits and declared sizes from the generated
  header; **AppTables** the application's tables (parameters, extensions, files,
  commands, device) as messages. **MessagePath** sends messages through all of
  it: payload, buffer, envelope, header with its uninitialised field, the link's
  limit, and back. These definitions are pure, so a run of them is a check of the
  algorithm against what was meant, over many inputs. **Structures** computes the
  sizes of the C structures, and states which of them fit the stack's buffers
  (`StructuresFit`); it is recursive, and apart for that reason.
- **ParamService** models discovery (descriptions, extensions) and reading of
  parameters, by list and all, with the cursors of `App/params.c`. A list that
  names an id of `MAX_NUM_PARAM_ID` or more (`TooGreat`) meets an `affirm()` and
  stops the firmware (`Halt`), which only a reset of the device starts again
  (`Reset`, external). The prompts of ReachStack are those that meet no `affirm()`.
  **Listing** is the promise: got is always a prefix of what was wanted, it
  grows, and nothing else is begun before it is complete. ParamService
  implements it for descriptions and values.
- **ParamNotify** models the notification slots and the check of them.
- **ParamRepo** models writes, boots, the factory reset and the console's
  commands on the memory, one operation on the memory a step, with power
  failures between them. Reads fail as well as writes and erasures: of a stored
  parameter at boot (`DefaultParam`), of the serial number before a factory reset
  (`FactoryReset`). `history` keeps what was told, which the exceptions of the
  properties refer to: `differs` and `marred` name the parameters and the serial
  number that a failure nobody was told of has touched.
- **...Proofs**: theorems and their proofs.

`MC*` modules give the constants that a `.cfg` cannot write (functions,
sequences, sets of records). Definitions named `X_Y` with the comment *Mutant*
are wrong variants of `X`; putting one in X's place makes a property fail.

## Runs

| Run (module) | States | What it shows |
| --- | --- | --- |
| file_service (MCFileService) | 90 000 | whatever a client sends in whatever order, with an application that fails or reads short: windows, numbering, contiguity, completeness; every window ends |
| reach_stack (MCReachStack) | 143 000 | prompts, windows, listings and connections interleaved: what is streamed belongs to the prompt that asked for it, an answer names its prompt, every prompt is taken |
| file_write (MCFileWrite) | 4 100 | a file written over loss: implements FileCopy; "done" means intact; nothing outside is touched; ends while nothing is lost |
| watchdog (MCWatchdog) | 1 702 000 | unless the target rolled over, a timeout is declared never early, and late only by the ticks that passed without a client; the time of day as it was set, at most a second ahead, until the clock rolls over |
| messages (MCMessages) | 42 000 | what either end means is what the other gets, or an error; a cut prompt is never taken for another one; declared sizes are the greatest sizes |
| param_service (MCParamService) | 214 000 | listings implement Listing, counts are exact, the index stays in the array, every listing that begins ends, though a request may stop the device |
| param_notify (MCParamNotify) | 170 000 | one slot a parameter; periods, delta and roll-over; changes are told |
| param_repo (MCParamRepo) | 1 522 000 | what is read is what is saved, what was acknowledged stays, the serial number survives a factory reset, under power failures and failing memory, with the exceptions listed below |
| complete_but_damaged, watchdog_rollover, stale_answer_on_error, stale_across_connections | | each refutes one sentence of the repository about the code, see *Findings* |

Bounds, and why they are enough:

- *FileService*: packets of 2 bytes, transfers of 0 and 5 bytes from offset 1,
  ack rates 0 (the default, 1, is taken) and 2, message numbers 0 to 2, with and
  without a watchdog, `Word` 8. A transfer has full packets, a short last one,
  or none; a window ends before, with and after the transfer; sums wrap in 3
  bits. A read-only file, a file for both and an unknown id, as in
  `App/files.c`. Longer transfers only repeat windows, and the proofs cover all
  of them, and the other access levels.
- *ReachStack*: one file to read, two messages in one window, listings that have
  up to `MaxMessages` = 1 message after their first, two transaction ids, one
  connection after another, prompts of every kind (`MCPrompts`). Interleavings
  of a window with a prompt and a connection need no more, and the proofs do not
  depend on the numbers.
- *FileWrite*: eleven bytes from offset 3 in six messages, the last one short,
  and two windows of three; at most two answers under way; several attempts, so
  that an old acknowledgement can meet a new attempt. Three messages in a window
  are the fewest in which a failure can be made up for by the next two, which is
  the first finding; the run of it has `FaultyApp` TRUE, the passing run FALSE,
  because with writes that fail the promise is not kept.
- *Watchdog and time*: a clock of 11 ticks, three ticks a second, periods 0, 3
  and 5, at most 4 ticks between two calls, so that targets fall on both sides
  of the roll-over, and the roll-over into the middle of a second. Clients come
  and go between any two calls. Two times of day, two zones and none.
- *Messages*: the real limits, tables and descriptors. For every prompt, each
  field alone at its boundaries (widths, signs, 127/128, lengths at, below and
  above the room), all at their greatest and all left out; each of them written
  by this encoder, by one that writes what this one leaves out, with fields
  nobody knows, and cut at each byte. For answers, all that the application's
  tables give, in the pairs in which a reply can carry them, and the greatest of
  the others; log lines, errors and values for notifications at the lengths
  where they are cut. Combinations of several fields at once are not tried
  beyond that: fields are coded one after the other and do not share state but
  the place in the stream.
- *ParamService*: six parameters, replies of two descriptions and three values,
  an array of six ids: the same shape as the firmware's 35 parameters, 2 and 4,
  and 32 (whole replies fill the array, the table is longer than a reply; both
  are the named assumption `SizesAssumption`). Requests: none, fewer than a
  reply, exactly one, more, as many as fit, repeated ids, unknown ids first, in
  the middle and last, and one that is too great.
- *ParamNotify*: three parameters compete for two slots, periods up to 2 on a
  clock of 4 ticks, so that each period meets a roll-over; `Poll` = 1 bounds
  the ticks between two checks, and `NeverSilent` allows for two of them.
- *ParamRepo*: one stored and one volatile parameter, requests of up to two of
  three values, two serial numbers, `MaxMishaps` = 3 power failures or failed
  operations: a failure during the recovery from a failure during a reset.
  Parameters do not share state but for the loop over them.

The properties of the repository have exceptions, each a behaviour of the code:

- `ReadsWhatIsSaved` leaves out a parameter whose last write failed or had no type
  that is recognized, and one that a boot could neither read nor store, until it is
  written or the repository initialized without such a failure; and all of them
  after "nvm clear", which leaves RAM alone.
- `AcknowledgedIsSaved` is about every parameter at every moment, and says less of
  some: while a request is unfinished, and after a write that failed or was not
  recognized, the value before it is as good as the one given, though the client
  was told that the latter is written; and a value that a boot cannot read is
  replaced by the default.
- `SerialSurvives` says that there is never another number than the one last set,
  and that it is there unless the factory reset failed to read it or to write it
  back, or lost the power in between.

Fairness. FairSpec asks only that the main loop keeps calling `cr_process()`:
weak fairness of the action that continues a transaction (FileService,
ParamService), of `Process` (ReachStack), of the two sides of FileWrite, of
the check and of time in ParamNotify. Clients and the link are never fair,
except for FileWrite's client, which must go on as long as nothing is lost
(`TransferEnds` says nothing once something is).
ParamNotify also assumes that the slots are checked every `Poll` ticks; a
client that always has a prompt stored keeps `cr_process()` from the check,
and then no notification is promised.

## Proofs

Every safety property that a run checks is also a theorem for all constants that
satisfy the named assumptions of its module, and so for the firmware's sizes. All
theorems rest on inductive invariants (`IInv`) with one lemma for each handler.

- `FileServiceProofs`, from `ConstantsAssumption`, `AccessAssumption` and
  `FilesAssumption`: `TypeCorrect`, `StreamingIsSound` (ContinuationSound),
  `FlowIsControlled` (FlowControl), `WindowsAreNumbered` (WindowNumbering),
  `CompleteStaysQuiet` (CompleteIsQuiet), `TransferIsContiguous` (Contiguous),
  `TransferIsWhole` (CompleteIsWhole). The properties are not inductive alone:
  `ContinuationSound` needs that a transfer which has left IDLE has an ack rate
  (`OpenHasRate`) and that writes never reach DATA (`WriteStaysInInit`);
  `WindowNumbering` needs that the code's counter equals the length of the
  window while streaming (`CounterIsWindow`); `CompleteIsWhole` needs that a
  read without mishap is within its length (`StraightShape`), which keeps the
  unsigned subtraction of bytes left from wrapping.
- `ReachStackProofs` instantiates them: the steps of ReachStack are steps of the
  file service or leave it alone, so its IInv is kept, and on top of it
  `TypeCorrect`, `ContinuationIsOwned` (ContinuationBelongsToPrompt) and
  `AnswersAreNamed` (AnswerNamesItsPrompt) follow for any prompts, length of
  listings and number of connections. What is needed is that a continued
  transaction has an owner whose id is the one kept in `sCr_transaction_id`, and
  that nothing but a prompt that is taken changes it.
- `FileWriteProofs`: `TypeCorrect` and `NothingElseTouched` (OutsideUntouched),
  with writes that fail and any rate of the application. The invariant is the
  file service's and that the place the device writes at is never ahead of the
  message on its way, which lies within the piece. Then `CompleteMeansIntact`
  (DoneIsIntact) and `TransferCopies` (FileWrite implements FileCopy), for any
  length, packet and window, from `Faultless`: no write fails, and the application does not override the rate.
  Both are needed: without either the first finding, or its like, breaks them.
  Either nothing was overwritten and the two sides agree (`InStep`), or the count
  of bytes stays behind what the client has sent and never reaches the length
  (`LeftBehind`); in both cases nothing from the device's offset on is in place
  yet (`Pristine`). The abstract `copied` is the least position not in place.
- `WatchdogProofs`, for every width of the clock and rate of ticks: `TypeCorrect`
  (DeviceTypeOK, the variables of both modules), `OnTime` (NotEarly), `NoneMissed`
  (NotLate: an active watchdog is overdue at most by the ticks of the calls that
  found no client), and `TimeIsTold` (TimeIsKept), which needs that two divisions
  by the tick rate differ by at most one from that of the difference.
- `ParamServiceProofs`, from `SizesAssumption`, `RequestsAssumption` and
  `TableAssumption`: `TypeCorrect`, `TellsWhatIsLeft` (RemainingIsExact),
  `NeverBeyondTheArray` (IndexInArray), and `ListingsAreComplete` (ParamService
  implements Listing). While a listing goes on, what the client got is the part
  of its request before the stack's index (`NamedSound`) or of the table before
  the application's cursor (`AllSound`). A device that stops keeps that part, and a
  reset forgets both. The index is a multiple of what fits
  one reply, as the array's length is: the next multiple is not beyond it.
- `ParamNotifyProofs`, from `NotifyAssumption`, for any parameters, number of
  slots and width of the clock: `TypeCorrect`, `OneSlot` (OneSlotEach), `Paced`
  (NotTooOften), `ToldOfChanges` (OnlyChanges), `NewsInTime` (NeverSilent). A slot keeps the value and the
  time of its last occupant until the first check of the new one, so the
  invariant says for which slots they are to be believed: two slots in use are
  for two parameters (`Separate`), and a slot that has notified holds the value
  that was sent and a time whose distance to the clock, modulo its width, is
  never more than the true age, unless that has reached its cap (`SlotsAreTrue`).
  For `NewsInTime`, a slot either has not been checked since it was configured, or
  was within its maximum period at the last check, and then the clock cannot come
  round in it before the next one (`InTime`).
- `ParamRepoProofs`, from `RepoAssumption`, for any table, requests and number of
  mishaps: `TypeCorrect`, `Durable` (AcknowledgedIsSaved), `Consistent`
  (ReadsWhatIsSaved) and `SerialRestored` (SerialSurvives), with the exceptions
  above. One operation on the memory is a step, so the invariant follows the
  thread: RAM agrees with the memory for the parameters that a boot has come to
  (`RamIsSaved`); every value of a request may be found later, and of those done
  the last for each parameter is the one that is saved, unless recorded to differ
  (`RequestIsSaved`); the number last set is in the memory, or in `has_sn` while a
  reset lasts, or something that may lose it has failed (`SerialKept`).

- `MessagePathProofs`, about every sound descriptor (`Sound`: labels, types and
  tags as the generator makes them) and streams of every length. `DecodedIsTyped`:
  the decoder returns nothing, or a value of the message that its structure has
  room for, whatever the bytes. `EncodedFits`: what is written of a value that has
  room is no longer than the greatest size computed from the descriptor. On them
  rest the theorems of the specification: `TypeCorrect`, for messages cut anywhere
  and written by any of the three encoders, and `SizesAreKept` (SizesAreDeclared).
  The invariant `PathInv` says that what is on the link and what was meant
  belong together and have values of their messages. The assumptions are that the
  tables are sound (`DescriptorsAreSound`, `TablesAreSound`), that the generated
  sizes are those of the descriptors (`SizesAreAnnounced`), and that clients and
  handlers send values of their messages (`PromptsAssumption`,
  `RepliesAssumption`, `NotesAssumption`, `GarbageAssumption`). The one that says
  more than types is of answers whose greatest size is above the 208 bytes of a
  payload: none is composed that long. TLC evaluates it for all that the
  application's tables give.
  The library's rules of induction are beyond the provers, so the module has its
  own, stated with sets: a property that fails for some number has a least number
  it fails for (`Induction`), and a function defined by recursion is what it is
  defined to be (`Recursion`). The decoder's loops are then steps each of which
  shortens the stream, and the encoder's sums are kept by each field in turn.
- The same module proves the round trip. `RoundTrip`: what an encoder writes of a
  value, defaults left out or written, or with fields of a newer version before
  and after, is read back as the value, or refused if the structure has no room
  for it. One piece of the encoding at a time: with the first i - 1 fields read
  (`Partly`), what is written of field i takes the decoder to i (`Moves`), or
  makes it give up (`Fails`), and a field that is not known leaves the value as it
  is; this is shown for the fields of a message in a message first, then for
  those of the message. `HeadRead`: any head of a message whose fields all carry
  their lengths is refused or ends after one of its fields (`Stops`). For the
  specification, `AlwaysAsMeant` (ArrivesAsMeant) says that what arrives whole is
  taken as it was meant, twice decoded, envelope and payload; `AlwaysNoOther`
  (CutIsNoOther) that a head is refused, or has lost nothing or only its payload;
  one that has lost its header has the type 0, which no message has. The proofs
  need that no descriptor has the tags of the newer fields, and that two messages
  of a table have different types (`TablesAreSound`). The buffers of 208 and 244
  bytes keep every length below 2^21, far from the 32 bits a length has.

Only model-checked: liveness (ContinuationEnds, PromptIsTaken, TransferEnds,
ListingEnds, ChangesAreTold), since liveness under fairness and ENABLED are
beyond the prover.

## Findings

Each is a run of its own whose counterexample shows it.

1. `complete_but_damaged`: when the first message of a window of three cannot be
   written, the next is refused for its number but written in its place and its
   number taken over, the third is accepted, and the bytes counted reach the
   length: the file is declared complete with a damaged piece (`cr_files.c:338`).
2. `watchdog_rollover`: a transfer begun shortly before the tick count rolls over
   times out at once (`cr_files.c:641`).
3. `stale_answer_on_error`: after a failed prompt the previous response is sent again
   (`cr_stack.c:513`).
4. `stale_across_connections`: a new client is given an answer to a prompt of an
   earlier connection (`cr_stack.c:546`).

Seen while modelling, present in the model, and not stated as properties,
because nothing in the repository promises otherwise or one run each would
add little:

- The offset a client is told to retry at (`cr_files.c:375`) is computed after the
  offset of the request was advanced: it is the gap plus what has just come.
- A data message writes during a read transfer too; a write-only file opened for
  reading is reported as denied and opened; an expired watchdog does not abandon
  its transfer; a finished write stays in INIT; transfer ids are never compared.
- When the device overrides the ack rate it does not tell the client. With
  `PreferredRate` above the client's rate, `TransferEnds` of file_write fails:
  both wait. The proofs of what arrives intact assume that it does not.
- The watchdog is not ended by a disconnection and not looked at during one: the
  first call of `cr_process()` for the next client declares the time-out of a
  transfer that client knows nothing of (`cr_stack.c:436`).
- An id of `MAX_NUM_PARAM_ID` or more in a list of parameters meets an `affirm()`
  (`cr_params.c:138`, `284`, `411`) that stops the firmware at a breakpoint.
- Every failure is reported twice: the flag that should prevent it is never set.
  The error's text is formatted in the buffer of the response being prepared.
- A list that names an unknown parameter is answered by the first one of the
  table (discovery) or ends there, with objects announced that never come
  (reading). A list of extensions ends at a parameter that has none, and the
  first search begins where an earlier one ended (`cr_params.c:319`): a client
  that asks for the enumerations of some parameters may be given another one's
  first.
- In a table no longer than one reply of descriptions, a discovery leaves its
  continued type behind, and enabling a notification makes it go on.
- A write to the memory that fails, and a value without a type, are reported as
  written. A stored value that cannot be read at boot is replaced by the default.
  Writes do not look at a parameter's access level.
- A power failure between the erasure and the end of a factory reset loses the
  serial number, and so does a reset that cannot read it first, which goes on and
  erases it, or cannot write it back; `nvm init` on the console loses it always.
- The id of a command has 32 bits in the message and 8 in the callback: 266 is
  taken for 10, the factory reset.
- Answers are composed in 240 bytes, and the structure of two parameter
  descriptions takes 280 (`cr_stack.c:104`); a decoder that fills in both would
  write beyond it. The named assumption `StructuresFit` of Structures
  singles it out.
- A log line longer than its message loses its end, the line end included, in the
  echo: the line end is written after all that the line would have had, past what
  fits (`i3_log.c:266-286`). `LineShown` is what is shown; the bytes written past it
  are left out, and no property depends on them. A notification that cannot be encoded becomes an error report while its
  caller goes on.
- At a roll-over of the tick count the time of day jumps back by 2^32 milliseconds.

## Not modelled

- *Streams and WiFi*: messages without an implementation in this repository.
- *Printing of messages* (`message_util.c`, which uses `lib/cJSON.c`), the masks of
  the log and the local console's parsing: they write text and keep nothing a
  handler reads.
- *Weak defaults* (`cr_weak.c`): each answers NOT_IMPLEMENTED, and those the
  modelled services call are overridden by `src/App`.
- *Advertising, RSSI, connection parameters, boot-to-DFU*: calls into the vendor's
  stack without a state the services depend on. The advertised name is kept in
  that stack.
- *Platform*: start-up, boot loader, prebuilt images, configuration, and the main
  loop itself, which is the fairness assumption of the modules.
- *The challenge key* and the error tests are compiled out.
- *Parts of nanopb* the protocol does not use: callbacks, extensions, maps,
  submessages in a oneof, streams that are not buffers.
- *Commands other than the factory reset* only switch the log's masks.
- In ParamRepo NVM3, the power and the client are external: each operation on the
  memory, erasure included, is atomic, and fails at will. The LED shown by one
  parameter and the two version parameters, which are set after each boot, are
  left out.
- In FileService the contents of files: `App/files.c` makes them up.

## Plan

Done: the file service, the stack core with listings, the end-to-end write, the
watchdog and the time service, message coding, listings, notifications and the
repository, each checked; and the proofs of their safety.

Left, in this order:

1. The end-to-end read: a client that reads a file window by window, with lost
   data and the abstract FileCopy again. The device's side of it is in
   FileService (Contiguous, CompleteIsWhole); the client is not in this
   repository, so its retries would be guesses.
2. The commands with their ids, the truncation to 8 bits included.
