------------------------------ MODULE FileService ------------------------------
(***************************************************************************)
(* The file service of the Reach stack, reach-c-stack/cr_files.c: one file *)
(* transfer at a time, read or written by a client in messages of at most  *)
(* Packet bytes, acknowledged once per messages_per_ack messages.          *)
(*                                                                         *)
(* cr_process() (cr_stack.c) is the only caller.  It runs on one thread,   *)
(* checks the transfer's watchdog, then either produces the next message   *)
(* of a continued transaction or, when there is none, hands one prompt to  *)
(* its handler.  So every action below is one handler, run to its return,  *)
(* and takes w, the watchdog flag as that check left it.                   *)
(*                                                                         *)
(* Byte contents are abstracted: a message is its number and its size, a   *)
(* position in the file is an offset.  Counters are C uint32_t: they wrap  *)
(* at Word.                                                                *)
(***************************************************************************)
EXTENDS Integers, FiniteSets

CONSTANTS
  Access,          \* [file id -> access level]: crcb_file_get_description()
  TransferIds,     \* transfer ids clients use
  NoId, Garbled,   \* no transfer id; a transfer id overwritten by error text
  Packet,          \* REACH_BYTES_IN_A_FILE_PACKET
  Word,            \* 2^32: counters wrap here
  Offsets,         \* request_offset of a FileTransferInit
  Lengths,         \* transfer_length of a FileTransferInit
  AckRates,        \* messages_per_ack of a FileTransferInit
  Timed,           \* whether a FileTransferInit has timeout_in_ms > 0
  PreferredRate,   \* crcb_file_get_preferred_ack_rate(), 0 for none
  DefaultRate,     \* the rate when neither side names one
  Numbers,         \* message_number of a client's FileTransferData
  FilesPerReply,   \* REACH_COUNT_PARAM_READ_VALUES
  FaultyApp        \* may the application's file callbacks fail or read short?

AccessLevels == {"NO_ACCESS", "READ", "WRITE", "READ_WRITE"}

ASSUME ConstantsAssumption ==
  /\ Word \in Nat /\ Packet \in 1..(Word - 1)
  /\ Offsets \subseteq 0..(Word - 1)
  /\ Lengths \subseteq 0..(Word - 1)
  /\ AckRates \subseteq 0..(Word - 1)
  /\ Numbers \subseteq 0..(Word - 1)
  /\ PreferredRate \in 0..(Word - 1)
  /\ DefaultRate \in 1..(Word - 1)
  /\ FilesPerReply \in Nat \ {0}
  /\ Timed \subseteq BOOLEAN /\ FaultyApp \in BOOLEAN
  /\ NoId \notin TransferIds /\ Garbled \notin TransferIds

\* A file id without a description: the application knows no such file.
ASSUME AccessAssumption ==
  \A f \in DOMAIN Access : Access[f] \in AccessLevels \cup {"UNKNOWN"}

ASSUME FilesAssumption == IsFiniteSet(DOMAIN Access)

Uint32 == 0..(Word - 1)
Plus(a, b)  == IF a + b < Word THEN a + b ELSE a + b - Word
Minus(a, b) == IF a >= b THEN a - b ELSE a + Word - b
Least(a, b) == IF a <= b THEN a ELSE b

-------------------------------------------------------------------------------
VARIABLES
  xfer,        \* sCr_file_xfer_state
  continued,   \* pvtCr_continued_message_type and its two object counts
  watchdog,    \* sTimeoutWatchdog_is_active
  reply,       \* what the last handler returned, and left to be encoded
  history      \* what the client has seen of the transfer (no code reads it)

vars == <<xfer, continued, watchdog, reply, history>>

States == {"INVALID", "IDLE", "INIT", "DATA", "COMPLETE"}

Transfer == [state : States,
             transfer_id : TransferIds \cup {NoId},
             file_id : DOMAIN Access \cup {NoId},
             request_offset : Uint32,
             transfer_length : Uint32,
             read_write : {0, 1},          \* 0: read, 1: write
             message_number : Uint32,
             messages_per_ack : Uint32,
             messages_until_ack : Uint32,
             bytes_transfered : Uint32]

\* The zeroed structure, in a given state.
Cleared(state) ==
  [state |-> state, transfer_id |-> NoId, file_id |-> NoId,
   request_offset |-> 0, transfer_length |-> 0, read_write |-> 0,
   message_number |-> 0, messages_per_ack |-> 0, messages_until_ack |-> 0,
   bytes_transfered |-> 0]

ContinuedTypes == {"INVALID", "TRANSFER_DATA", "DISCOVER_FILES"}
Continued == [type : ContinuedTypes, count : Nat, remaining : Nat]
NotContinued == [type |-> "INVALID", count |-> 0, remaining |-> 0]

Codes == {"NO_ERROR", "BAD_FILE", "PERMISSION_DENIED", "INVALID_STATE",
          "WRITE_FAILED", "READ_FAILED", "PACKET_COUNT_ERR", "NO_DATA"}

Reply == [kind : {"none", "error", "init", "data", "notification", "files"},
          code : Codes,
          transfer_id : TransferIds \cup {NoId, Garbled},
          number : Uint32,          \* message_number of a data message
          offset : Uint32,          \* where in the file its bytes are
          size : 0..Packet,         \* and how many there are
          is_complete : BOOLEAN,
          retry_offset : Uint32,
          reports : 0..1]           \* error reports sent while handling

\* rval NO_RESPONSE or NO_DATA: nothing is encoded.
Silence == [kind |-> "none", code |-> "NO_ERROR", transfer_id |-> NoId,
            number |-> 0, offset |-> 0, size |-> 0, is_complete |-> FALSE,
            retry_offset |-> 0, reports |-> 0]

\* A handler that reports an error and returns its code.
Failure(code) ==
  [Silence EXCEPT !.kind = "error", !.code = code, !.reports = 1]

History == [from : Uint32,        \* request_offset the transfer began at
            window : Uint32,      \* data messages since the receiver last spoke
            done : BOOLEAN,       \* the transfer has been announced complete
            straight : BOOLEAN]   \* no unexpected message and no failure, yet

Init ==
  /\ xfer = Cleared("INVALID")
  /\ continued = NotContinued
  /\ watchdog = FALSE
  /\ reply = Silence
  /\ history = [from |-> 0, window |-> 0, done |-> FALSE, straight |-> FALSE]

-------------------------------------------------------------------------------
(* The messages a client may send, and when they are handled *)

InitRequest ==
  [file_id : DOMAIN Access, read_write : {0, 1}, request_offset : Offsets,
   transfer_length : Lengths, transfer_id : TransferIds,
   messages_per_ack : AckRates, timed : Timed]

\* nanopb refuses to decode more than Packet bytes, so the size check of
\* pvtCrFile_transfer_data() never fires.
DataMessage == [transfer_id : TransferIds, number : Numbers, size : 0..Packet]

\* The device acts on nothing but is_complete of a client's notification.
Notification == [is_complete : BOOLEAN, transfer_id : TransferIds]

\* cr_process() takes a prompt only when no transaction is being continued.  A
\* continued DISCOVER_FILES is not supported: it is dropped, then the prompt
\* is taken.
PromptsAreTaken == continued.type # "TRANSFER_DATA"

\* pvtCr_watchdog_check_timeout() in cr_process(): the period may have run out
\* since the last call, and then the watchdog is ended.
AfterCheck == {watchdog, FALSE}

-------------------------------------------------------------------------------
(* pvtCrFile_transfer_init *)

NoSuchFile(req, w) ==
  /\ Access[req.file_id] = "UNKNOWN"
  /\ xfer' = Cleared("IDLE")
  /\ reply' = Failure("BAD_FILE")
  /\ watchdog' = w

\* The error report is formatted in the buffer that holds the response.
Refused(req, w) ==
  /\ \/ Access[req.file_id] = "NO_ACCESS"
     \/ Access[req.file_id] = "READ" /\ req.read_write = 1
  /\ xfer' = Cleared("IDLE")
  /\ reply' = [Silence EXCEPT !.kind = "init", !.code = "PERMISSION_DENIED",
                              !.transfer_id = Garbled, !.reports = 1]
  /\ watchdog' = w

AckRate(req) ==
  IF PreferredRate # 0 THEN PreferredRate
  ELSE IF req.messages_per_ack # 0 THEN req.messages_per_ack
  ELSE DefaultRate

\* A read of a write-only file is reported as denied, and opened all the same.
Opened(req) ==
  /\ \/ Access[req.file_id] \in {"READ_WRITE", "WRITE"}
     \/ Access[req.file_id] = "READ" /\ req.read_write = 0
  /\ xfer' = [state |-> "INIT", transfer_id |-> req.transfer_id,
              file_id |-> req.file_id, request_offset |-> req.request_offset,
              transfer_length |-> req.transfer_length,
              read_write |-> req.read_write, message_number |-> 0,
              messages_per_ack |-> AckRate(req),
              messages_until_ack |-> AckRate(req), bytes_transfered |-> 0]
  /\ \E prepared \in IF FaultyApp /\ req.read_write = 1 THEN BOOLEAN ELSE {TRUE} :
       LET reported == ~prepared \/ (Access[req.file_id] = "WRITE" /\ req.read_write = 0)
       IN  reply' = [Silence EXCEPT
                       !.kind = "init",
                       !.code = IF prepared THEN "NO_ERROR" ELSE "WRITE_FAILED",
                       !.transfer_id = IF reported THEN Garbled ELSE req.transfer_id,
                       !.reports = IF reported THEN 1 ELSE 0]
  /\ watchdog' = req.timed

TransferInit(req, w) ==
  /\ PromptsAreTaken
  /\ NoSuchFile(req, w) \/ Refused(req, w) \/ Opened(req)
  /\ continued' = NotContinued
  /\ history' = [from |-> req.request_offset, window |-> 0, done |-> FALSE,
                 straight |-> xfer'.state = "INIT"]

-------------------------------------------------------------------------------
(* pvtCrFile_transfer_data: the client writes *)

Receiving == xfer.state \in {"INIT", "DATA"}

NotReceiving ==
  /\ ~Receiving
  /\ xfer' = xfer
  /\ reply' = Failure("INVALID_STATE")
  /\ watchdog' = FALSE

\* crcb_write_file() of the application refuses a file that is not writable.
Writable(fid) == Access[fid] \in {"WRITE", "READ_WRITE"}

\* The byte count is advanced before the write is tried.
WriteFails(m) ==
  /\ Receiving
  /\ FaultyApp \/ ~Writable(xfer.file_id)
  /\ xfer' = [xfer EXCEPT !.bytes_transfered = Plus(@, m.size)]
  /\ reply' = Failure("WRITE_FAILED")
  /\ watchdog' = FALSE

Expected == Plus(xfer.message_number, 1)

\* Mutant: the place in the file is not moved on.
Received_SamePlace(m) ==
  [xfer EXCEPT !.bytes_transfered = Plus(@, m.size),
               !.messages_until_ack = IF @ = 0 THEN 0 ELSE @ - 1,
               !.message_number = Plus(@, 1)]

\* Mutant: a message received is not counted against the window.
Received_Uncounted(m) ==
  [xfer EXCEPT !.bytes_transfered = Plus(@, m.size),
               !.message_number = Plus(@, 1),
               !.request_offset = Plus(@, m.size)]

\* What a successful crcb_write_file() is counted as.
Received(m) ==
  [xfer EXCEPT !.bytes_transfered = Plus(@, m.size),
               !.messages_until_ack = IF @ = 0 THEN 0 ELSE @ - 1,
               !.message_number = Plus(@, 1),
               !.request_offset = Plus(@, m.size)]

\* Mutant: the last byte of the file is not waited for.
Whole_OneShort(x) == x.bytes_transfered + 1 >= x.transfer_length

Whole(x) == x.bytes_transfered >= x.transfer_length

\* The bytes were written, and counted, before the number was looked at.
OutOfSequence(m, w) ==
  /\ Receiving /\ Writable(xfer.file_id)
  /\ m.number # Expected
  /\ xfer' = [Received(m) EXCEPT !.request_offset = xfer.request_offset,
                                 !.message_number = m.number]
  /\ reply' = [Silence EXCEPT
                 !.kind = "notification", !.code = "PACKET_COUNT_ERR",
                 !.transfer_id = m.transfer_id,
                 !.retry_offset = Plus(xfer.request_offset,
                                       Plus(xfer.bytes_transfered, m.size))]
  /\ watchdog' = w

InSequence(m) ==
  /\ Receiving /\ Writable(xfer.file_id)
  /\ m.number = Expected

\* The state stays what it was: more data would still be received.
WriteCompletes(m) ==
  /\ InSequence(m)
  /\ Whole(Received(m))
  /\ xfer' = Received(m)
  /\ reply' = [Silence EXCEPT !.kind = "notification", !.is_complete = TRUE,
                              !.transfer_id = m.transfer_id]
  /\ watchdog' = FALSE

Unacknowledged(m, w) ==
  /\ InSequence(m)
  /\ ~Whole(Received(m))
  /\ Received(m).messages_until_ack # 0
  /\ xfer' = Received(m)
  /\ reply' = Silence
  /\ watchdog' = w

Acknowledged(m, w) ==
  /\ InSequence(m)
  /\ ~Whole(Received(m))
  /\ Received(m).messages_until_ack = 0
  /\ xfer' = [Received(m) EXCEPT !.messages_until_ack = xfer.messages_per_ack,
                                 !.message_number = 0]
  /\ reply' = [Silence EXCEPT !.kind = "notification",
                              !.transfer_id = m.transfer_id]
  /\ watchdog' = w

TransferData(m, w) ==
  /\ PromptsAreTaken
  /\ \/ NotReceiving
     \/ WriteFails(m)
     \/ OutOfSequence(m, w)
     \/ WriteCompletes(m)
     \/ Unacknowledged(m, w)
     \/ Acknowledged(m, w)
  /\ continued' = NotContinued
  /\ history' = [history EXCEPT
                   !.window = IF reply'.kind = "none" THEN @ + 1 ELSE 0,
                   !.done = @ \/ reply'.is_complete,
                   !.straight = /\ @ /\ ~history.done
                                /\ xfer.read_write = 1
                                /\ reply'.code = "NO_ERROR"]

-------------------------------------------------------------------------------
(* pvtCrFile_transfer_data_notification: the client reads *)

\* Mutant: a failed read is tried again, in a window begun anew.
ReadFails_TriesAgain(x) ==
  /\ FaultyApp
  /\ xfer' = [x EXCEPT !.messages_until_ack = x.messages_per_ack,
                       !.message_number = 0]
  /\ continued' = continued
  /\ reply' = Failure("READ_FAILED")
  /\ watchdog' = FALSE

\* The next message of a read of x, the transfer once a prompt, if there was
\* one, has been taken into account.
ReadFails(x) ==
  /\ FaultyApp
  /\ xfer' = x
  /\ continued' = NotContinued
  /\ reply' = Failure("READ_FAILED")
  /\ watchdog' = FALSE

Unread(x) == Minus(x.transfer_length, x.bytes_transfered)

\* Mutant: a message is not limited to what its buffer holds.
BytesRequested_Unlimited(x) == Unread(x)

BytesRequested(x) == Least(Packet, Unread(x))
BytesRead(x) == IF FaultyApp THEN 0..BytesRequested(x) ELSE {BytesRequested(x)}

\* Mutant: a message sent is not counted against the window.
Sent_Uncounted(x, n) ==
  [x EXCEPT !.bytes_transfered = Plus(@, n),
            !.request_offset = Plus(@, n),
            !.message_number = Plus(@, 1),
            !.state = IF Unread(x) = n THEN "COMPLETE" ELSE "DATA"]

\* Mutant: the place in the file is not moved on.
Sent_SamePlace(x, n) ==
  [x EXCEPT !.bytes_transfered = Plus(@, n),
            !.messages_until_ack = IF @ = 0 THEN 0 ELSE @ - 1,
            !.message_number = Plus(@, 1),
            !.state = IF Unread(x) = n THEN "COMPLETE" ELSE "DATA"]

Sent(x, n) ==
  [x EXCEPT !.bytes_transfered = Plus(@, n),
            !.request_offset = Plus(@, n),
            !.messages_until_ack = IF @ = 0 THEN 0 ELSE @ - 1,
            !.message_number = Plus(@, 1),
            !.state = IF Unread(x) = n THEN "COMPLETE" ELSE "DATA"]

DataSent(x, n) ==
  [Silence EXCEPT !.kind = "data", !.transfer_id = x.transfer_id,
                  !.number = Plus(x.message_number, 1),
                  !.offset = x.request_offset, !.size = n]

\* Mutant: the end of the read does not end the continued transaction.
Continuing_PastTheEnd(y) ==
  [type |-> IF y.messages_until_ack = 0 THEN "INVALID" ELSE "TRANSFER_DATA",
   count |-> y.messages_per_ack,
   remaining |-> y.messages_until_ack]

\* remaining_objects counts the messages left before the client must answer.
Continuing(y) ==
  IF y.state = "COMPLETE" \/ y.messages_until_ack = 0
  THEN [type |-> "INVALID", count |-> y.messages_per_ack, remaining |-> 0]
  ELSE [type |-> "TRANSFER_DATA", count |-> y.messages_per_ack,
        remaining |-> y.messages_until_ack]

ReadSends(x, w) ==
  \E n \in BytesRead(x) :
    /\ xfer' = Sent(x, n)
    /\ reply' = DataSent(x, n)
    /\ continued' = Continuing(Sent(x, n))
    /\ watchdog' = IF Sent(x, n).state = "COMPLETE" THEN FALSE ELSE w

NotSending ==
  /\ xfer.state \in {"INVALID", "IDLE"}
  /\ xfer' = xfer
  /\ continued' = NotContinued
  /\ reply' = Failure("INVALID_STATE")
  /\ watchdog' = FALSE

\* The client confirms the end of a read.
ReadConfirmed(m) ==
  /\ xfer.state = "COMPLETE"
  /\ m.is_complete
  /\ xfer' = [xfer EXCEPT !.state = "IDLE"]
  /\ continued' = NotContinued
  /\ reply' = [Silence EXCEPT !.kind = "notification", !.is_complete = TRUE,
                              !.transfer_id = m.transfer_id]
  /\ watchdog' = FALSE

AlreadyComplete(m) ==
  /\ xfer.state = "COMPLETE"
  /\ ~m.is_complete
  /\ xfer' = xfer
  /\ continued' = NotContinued
  /\ reply' = Failure("INVALID_STATE")
  /\ watchdog' = FALSE

ExpectingRead ==
  /\ xfer.state \in {"INIT", "DATA"}
  /\ xfer.read_write = 1
  /\ xfer' = xfer
  /\ continued' = NotContinued
  /\ reply' = Failure("WRITE_FAILED")
  /\ watchdog' = FALSE

\* Mutant: the watchdog is left running.
ReadStopped_Watched(m) ==
  /\ xfer.state \in {"INIT", "DATA"}
  /\ xfer.read_write = 0
  /\ m.is_complete
  /\ xfer' = [xfer EXCEPT !.state = "COMPLETE"]
  /\ continued' = NotContinued
  /\ reply' = [Silence EXCEPT !.kind = "notification"]
  /\ watchdog' = watchdog

\* The client ends the read before the last byte was sent to it.
ReadStopped(m) ==
  /\ xfer.state \in {"INIT", "DATA"}
  /\ xfer.read_write = 0
  /\ m.is_complete
  /\ xfer' = [xfer EXCEPT !.state = "COMPLETE"]
  /\ continued' = NotContinued
  /\ reply' = [Silence EXCEPT !.kind = "notification"]
  /\ watchdog' = FALSE

\* Mutant: the rolling counter goes on counting.
NextWindow_StillCounting ==
  [xfer EXCEPT !.messages_until_ack = xfer.messages_per_ack]

NextWindow == [xfer EXCEPT !.messages_until_ack = xfer.messages_per_ack,
                           !.message_number = 0]

ReadPrompted(m, w) ==
  /\ xfer.state \in {"INIT", "DATA"}
  /\ xfer.read_write = 0
  /\ ~m.is_complete
  /\ ReadFails(NextWindow) \/ ReadSends(NextWindow, w)

TransferDataNotification(m, w) ==
  /\ PromptsAreTaken
  /\ \/ NotSending
     \/ ReadConfirmed(m)
     \/ AlreadyComplete(m)
     \/ ExpectingRead
     \/ ReadStopped(m)
     \/ ReadPrompted(m, w)
  /\ history' = [history EXCEPT
                   !.window = IF reply'.kind = "data" THEN 1 ELSE 0,
                   !.done = @ \/ xfer'.state = "COMPLETE",
                   !.straight = @ /\ reply'.kind = "data"]

\* handle_continued_transactions() with TRANSFER_DATA: no state is checked.
ContinueTransfer(w) ==
  /\ continued.type = "TRANSFER_DATA"
  /\ ReadFails(xfer) \/ ReadSends(xfer, w)
  /\ history' = [history EXCEPT
                   !.window = IF reply'.kind = "data" THEN @ + 1 ELSE 0,
                   !.done = @ \/ xfer'.state = "COMPLETE",
                   !.straight = @ /\ reply'.kind = "data"]

-------------------------------------------------------------------------------
(* pvtCrFile_discover *)

FileCount == Cardinality({f \in DOMAIN Access : Access[f] # "UNKNOWN"})

\* The count of files left is only cleared when the table runs out.
DiscoverFiles(w) ==
  /\ PromptsAreTaken
  /\ continued' = [type |-> IF FileCount > FilesPerReply THEN "DISCOVER_FILES"
                            ELSE "INVALID",
                   count |-> FileCount,
                   remaining |-> IF FileCount < FilesPerReply THEN 0 ELSE FileCount]
  /\ reply' = IF FileCount = 0 THEN [Silence EXCEPT !.code = "NO_DATA"]
              ELSE [Silence EXCEPT !.kind = "files"]
  /\ watchdog' = w
  /\ UNCHANGED <<xfer, history>>

-------------------------------------------------------------------------------
(* The rest of cr_process() and cr_set_comm_link_connected() *)

\* No prompt, or one of another service.
NothingForFiles(w) ==
  /\ PromptsAreTaken
  /\ continued' \in {NotContinued, [continued EXCEPT !.type = "INVALID"]}
  /\ reply' = Silence
  /\ watchdog' = w
  /\ UNCHANGED <<xfer, history>>

\* A new connection: the transfer and its watchdog are kept.
Connect ==
  /\ continued' = NotContinued
  /\ reply' = Silence
  /\ UNCHANGED <<xfer, watchdog, history>>

Process(w) ==
  \/ \E req \in InitRequest : TransferInit(req, w)
  \/ \E m \in DataMessage : TransferData(m, w)
  \/ \E m \in Notification : TransferDataNotification(m, w)
  \/ ContinueTransfer(w)
  \/ DiscoverFiles(w)
  \/ NothingForFiles(w)

Next == Connect \/ \E w \in AfterCheck : Process(w)

Spec == Init /\ [][Next]_vars

\* cr_process() is called from the main loop for as long as the device runs.
Fairness == WF_vars(\E w \in AfterCheck : ContinueTransfer(w))

FairSpec == Spec /\ Fairness

-------------------------------------------------------------------------------
(* Properties *)

\* The state of the transfer, the continued transaction and the last reply have
\* the types of the C structures they stand for.
TypeOK ==
  /\ xfer \in Transfer
  /\ continued \in Continued
  /\ watchdog \in BOOLEAN
  /\ reply \in Reply
  /\ history \in History

\* The stack streams on its own (handle_continued_transactions() calls the
\* handler without a prompt and without looking at the state) only for a read
\* in progress, and it announces exactly the messages left in the window.
ContinuationSound ==
  continued.type = "TRANSFER_DATA" =>
    /\ xfer.state = "DATA" /\ xfer.read_write = 0
    /\ continued.remaining = xfer.messages_until_ack
    /\ continued.remaining \in 1..(xfer.messages_per_ack - 1)
    /\ continued.count = xfer.messages_per_ack

\* Flow control, both ways: neither side is sent more than messages_per_ack
\* data messages in a row before it hears from, or speaks to, the other one.
FlowControl ==
  /\ history.window + xfer.messages_until_ack <= xfer.messages_per_ack
  /\ xfer.state = "INIT" => history.window < xfer.messages_per_ack

\* The data messages of a window are numbered 1, 2, 3, ... without a gap: that
\* is all a client has to tell that one was lost.
WindowNumbering ==
  reply.kind = "data" => reply.number = history.window

\* A transfer that is over neither streams nor leaves a watchdog behind.
CompleteIsQuiet ==
  xfer.state = "COMPLETE" =>
    ~watchdog /\ continued.type # "TRANSFER_DATA" /\ xfer.read_write = 0

\* As long as a transfer goes as both sides expect, what has been transferred
\* is one contiguous piece of the file that starts where the client asked.
Contiguous ==
  history.straight =>
    xfer.request_offset = Plus(history.from, xfer.bytes_transfered)

\* The device announces a transfer complete only when it is whole: all the bytes
\* asked for, and for a read not one more.
CompleteIsWhole ==
  history.straight /\ history.done =>
    /\ xfer.bytes_transfered >= xfer.transfer_length
    /\ xfer.read_write = 0 => /\ xfer.state = "COMPLETE"
                              /\ xfer.bytes_transfered = xfer.transfer_length

\* A window that is being streamed comes to its end, and then prompts are
\* taken again.
ContinuationEnds ==
  continued.type = "TRANSFER_DATA" ~> PromptsAreTaken

===============================================================================
