--------------------------- MODULE FileServiceProofs ---------------------------
(***************************************************************************)
(* The safety properties of FileService hold for every client, every table *)
(* of files and every value of the constants, not only for those TLC runs. *)
(***************************************************************************)
EXTENDS FileService, FiniteSetTheorems, TLAPS

-------------------------------------------------------------------------------
(* The inductive invariant *)

\* Only a transfer that was opened has left IDLE, and it has an ack rate.
OpenHasRate ==
  xfer.state \in {"INIT", "DATA", "COMPLETE"} =>
    xfer.file_id \in DOMAIN Access /\ xfer.messages_per_ack >= 1

\* A write never leaves INIT.
WriteStaysInInit == xfer.state \in {"DATA", "COMPLETE"} => xfer.read_write = 0

\* While the stack streams, the rolling counter is the length of the window.
CounterIsWindow ==
  continued.type = "TRANSFER_DATA" => xfer.message_number = history.window

\* A transfer without mishap is open, and a read of it is within its length.
StraightShape ==
  history.straight =>
    /\ xfer.state \in {"INIT", "DATA", "COMPLETE"}
    /\ xfer.read_write = 0 => xfer.bytes_transfered <= xfer.transfer_length

IInv ==
  /\ TypeOK
  /\ OpenHasRate
  /\ WriteStaysInInit
  /\ ContinuationSound
  /\ CounterIsWindow
  /\ FlowControl
  /\ WindowNumbering
  /\ CompleteIsQuiet
  /\ StraightShape
  /\ Contiguous
  /\ CompleteIsWhole

-------------------------------------------------------------------------------
(* What the operators on the transfer return *)

\* 32-bit addition and subtraction stay within 32 bits.
LEMMA WordArithmetic ==
  ASSUME NEW a \in Uint32, NEW b \in Uint32
  PROVE  Plus(a, b) \in Uint32 /\ Minus(a, b) \in Uint32
BY ConstantsAssumption DEF Plus, Minus, Uint32

\* Addition is associative, so positions and byte counts advance together.
LEMMA PlusAssociative ==
  ASSUME NEW a \in Uint32, NEW b \in Uint32, NEW c \in Uint32
  PROVE  Plus(Plus(a, b), c) = Plus(a, Plus(b, c))
BY ConstantsAssumption DEF Plus, Uint32

\* Sizes and message numbers fit in 32 bits.
LEMMA ConstantsFit ==
  /\ 0 \in Uint32 /\ 1 \in Uint32
  /\ \A n \in 0..Packet : n \in Uint32
  /\ \A n \in Numbers : n \in Uint32
<1>1. Word \in Nat /\ Packet \in 1..(Word - 1) /\ Numbers \subseteq 0..(Word - 1)
  BY ConstantsAssumption
<1>2. \A n \in Numbers : n \in Uint32
  BY <1>1 DEF Uint32
<1>3. 0 \in Uint32 /\ 1 \in Uint32 /\ \A n \in 0..Packet : n \in Uint32
  BY <1>1 DEF Uint32
<1> QED BY <1>2, <1>3

\* A transfer after one more message has been received.
LEMMA ReceivedFields ==
  ASSUME xfer \in Transfer, NEW m \in DataMessage
  PROVE  /\ Received(m) \in Transfer
         /\ Received(m).state = xfer.state
         /\ Received(m).file_id = xfer.file_id
         /\ Received(m).read_write = xfer.read_write
         /\ Received(m).transfer_length = xfer.transfer_length
         /\ Received(m).messages_per_ack = xfer.messages_per_ack
         /\ Received(m).messages_until_ack =
              IF xfer.messages_until_ack = 0 THEN 0 ELSE xfer.messages_until_ack - 1
         /\ Received(m).message_number = Plus(xfer.message_number, 1)
         /\ Received(m).bytes_transfered = Plus(xfer.bytes_transfered, m.size)
         /\ Received(m).request_offset = Plus(xfer.request_offset, m.size)
<1>1. m.size \in Uint32 /\ 1 \in Uint32
  BY ConstantsAssumption DEF DataMessage, Uint32
<1>2. /\ Plus(xfer.bytes_transfered, m.size) \in Uint32
      /\ Plus(xfer.request_offset, m.size) \in Uint32
      /\ Plus(xfer.message_number, 1) \in Uint32
  BY <1>1, WordArithmetic DEF Transfer
<1>3. (IF xfer.messages_until_ack = 0 THEN 0 ELSE xfer.messages_until_ack - 1)
        \in Uint32
  BY ConstantsAssumption DEF Transfer, Uint32
<1> QED
  BY <1>2, <1>3 DEF Received, Transfer

\* A transfer after one more message has been sent.
LEMMA SentFields ==
  ASSUME NEW x \in Transfer, NEW n \in BytesRead(x)
  PROVE  /\ n \in 0..Packet
         /\ Sent(x, n) \in Transfer
         /\ Sent(x, n).state = IF Unread(x) = n THEN "COMPLETE" ELSE "DATA"
         /\ Sent(x, n).file_id = x.file_id
         /\ Sent(x, n).read_write = x.read_write
         /\ Sent(x, n).transfer_length = x.transfer_length
         /\ Sent(x, n).messages_per_ack = x.messages_per_ack
         /\ Sent(x, n).messages_until_ack =
              IF x.messages_until_ack = 0 THEN 0 ELSE x.messages_until_ack - 1
         /\ Sent(x, n).message_number = Plus(x.message_number, 1)
         /\ Sent(x, n).bytes_transfered = Plus(x.bytes_transfered, n)
         /\ Sent(x, n).request_offset = Plus(x.request_offset, n)
<1>1. Unread(x) \in Uint32
  BY WordArithmetic DEF Unread, Transfer
<1>2. n \in 0..Packet /\ n \in Uint32 /\ 1 \in Uint32
  BY <1>1, ConstantsAssumption DEF BytesRead, BytesRequested, Least, Uint32
<1>3. /\ Plus(x.bytes_transfered, n) \in Uint32
      /\ Plus(x.request_offset, n) \in Uint32
      /\ Plus(x.message_number, 1) \in Uint32
  BY <1>2, WordArithmetic DEF Transfer
<1>4. (IF x.messages_until_ack = 0 THEN 0 ELSE x.messages_until_ack - 1)
        \in Uint32
  BY ConstantsAssumption DEF Transfer, Uint32
<1>5. (IF Unread(x) = n THEN "COMPLETE" ELSE "DATA") \in States
  BY DEF States
<1> QED
  BY <1>2, <1>3, <1>4, <1>5 DEF Sent, Transfer

\* A transfer once a prompt has opened its next window.
LEMMA NextWindowFields ==
  ASSUME xfer \in Transfer
  PROVE  /\ NextWindow \in Transfer
         /\ NextWindow.state = xfer.state
         /\ NextWindow.file_id = xfer.file_id
         /\ NextWindow.read_write = xfer.read_write
         /\ NextWindow.transfer_length = xfer.transfer_length
         /\ NextWindow.messages_per_ack = xfer.messages_per_ack
         /\ NextWindow.messages_until_ack = xfer.messages_per_ack
         /\ NextWindow.message_number = 0
         /\ NextWindow.bytes_transfered = xfer.bytes_transfered
         /\ NextWindow.request_offset = xfer.request_offset
<1>1. 0 \in Uint32
  BY ConstantsAssumption DEF Uint32
<1> QED
  BY <1>1 DEF NextWindow, Transfer

\* The cleared transfer.
LEMMA ClearedFields ==
  ASSUME NEW state \in States
  PROVE  /\ Cleared(state) \in Transfer
         /\ Cleared(state).state = state
         /\ Cleared(state).read_write = 0
         /\ Cleared(state).messages_per_ack = 0
         /\ Cleared(state).messages_until_ack = 0
<1>1. 0 \in Uint32
  BY ConstantsAssumption DEF Uint32
<1> QED
  BY <1>1 DEF Cleared, Transfer

\* The two kinds of reply that carry nothing.
LEMMA SilenceType ==
  /\ Silence \in Reply
  /\ Silence.kind = "none"
  /\ ~Silence.is_complete
<1>1. 0 \in Uint32 /\ 0 \in 0..Packet /\ 0 \in 0..1
  BY ConstantsAssumption DEF Uint32
<1> QED
  BY <1>1 DEF Silence, Reply, Codes

LEMMA FailureType ==
  ASSUME NEW code \in Codes
  PROVE  /\ Failure(code) \in Reply
         /\ Failure(code).kind = "error"
         /\ Failure(code).code = code
         /\ ~Failure(code).is_complete
<1>1. 0 \in Uint32 /\ 0 \in 0..Packet /\ 1 \in 0..1
  BY ConstantsAssumption DEF Uint32
<1> QED
  BY <1>1 DEF Failure, Silence, Reply

\* The watchdog flag is a Boolean after the check too.
LEMMA CheckedIsBoolean ==
  ASSUME TypeOK, NEW w \in AfterCheck
  PROVE  w \in BOOLEAN
BY DEF TypeOK, AfterCheck

\* The ack rate of a transfer is never zero.
LEMMA InitRequestFields ==
  ASSUME NEW req \in InitRequest
  PROVE  /\ AckRate(req) \in Uint32 /\ AckRate(req) >= 1
         /\ req.request_offset \in Uint32
         /\ req.transfer_length \in Uint32
<1>1. req.request_offset \in Offsets /\ req.transfer_length \in Lengths
      /\ req.messages_per_ack \in AckRates
  BY DEF InitRequest
<1>2. req.request_offset \in Uint32 /\ req.transfer_length \in Uint32
      /\ req.messages_per_ack \in 0..(Word - 1)
  BY <1>1, ConstantsAssumption DEF Uint32
<1>3. /\ PreferredRate \in 0..(Word - 1)
      /\ DefaultRate \in 1..(Word - 1)
      /\ Word \in Nat
  BY ConstantsAssumption
<1>4. AckRate(req) \in Uint32 /\ AckRate(req) >= 1
  BY <1>2, <1>3 DEF AckRate, Uint32
<1> QED
  BY <1>2, <1>4

-------------------------------------------------------------------------------
(* The invariant holds initially, and every handler preserves it *)

LEMMA InitIInv == Init => IInv
<1> SUFFICES ASSUME Init PROVE IInv
  OBVIOUS
<1>1. 0 \in Uint32 /\ "INVALID" \in States
  BY ConstantsAssumption DEF Uint32, States
<1>2. /\ xfer \in Transfer /\ xfer.state = "INVALID"
      /\ xfer.messages_per_ack = 0 /\ xfer.messages_until_ack = 0
  BY <1>1, ClearedFields DEF Init
<1>3. continued \in Continued /\ continued.type = "INVALID"
  BY DEF Init, Continued, NotContinued, ContinuedTypes
<1>4. reply \in Reply /\ reply.kind = "none"
  BY SilenceType DEF Init
<1>5. history \in History /\ ~history.straight /\ history.window = 0
  BY <1>1 DEF Init, History
<1>6. watchdog \in BOOLEAN
  BY DEF Init
<1> QED
  BY <1>2, <1>3, <1>4, <1>5, <1>6
  DEF IInv, TypeOK, OpenHasRate, WriteStaysInInit, ContinuationSound,
      CounterIsWindow, FlowControl, WindowNumbering, CompleteIsQuiet,
      StraightShape, Contiguous, CompleteIsWhole

LEMMA TransferInitIInv ==
  ASSUME IInv, NEW w \in AfterCheck, NEW req \in InitRequest, TransferInit(req, w)
  PROVE  IInv'
<1> USE DEF IInv
<1>0. /\ 0 \in Uint32 /\ AckRate(req) \in Uint32 /\ AckRate(req) >= 1
      /\ req.request_offset \in Uint32 /\ req.transfer_length \in Uint32
      /\ w \in BOOLEAN
  <2>1. 0 \in Uint32
    BY ConstantsAssumption DEF Uint32
  <2>2. w \in BOOLEAN
    BY CheckedIsBoolean
  <2> QED BY <2>1, <2>2, InitRequestFields
<1>1. continued' \in Continued /\ continued'.type = "INVALID"
  BY DEF TransferInit, NotContinued, Continued, ContinuedTypes
<1>2. /\ history' \in History
      /\ history'.from = req.request_offset
      /\ history'.window = 0
      /\ ~history'.done
      /\ history'.straight => xfer'.state = "INIT"
  BY <1>0 DEF TransferInit, History
<1>3. CASE NoSuchFile(req, w) \/ Refused(req, w)
  <2>1. /\ xfer' = Cleared("IDLE") /\ watchdog' = w
        /\ reply' \in Reply /\ reply'.kind # "data"
    <3>1. CASE NoSuchFile(req, w)
      BY <3>1, FailureType DEF NoSuchFile, Codes
    <3>2. CASE Refused(req, w)
      <4>1. 1 \in 0..1 /\ 0 \in 0..Packet
        BY ConstantsAssumption DEF Uint32
      <4> QED
        BY <3>2, <4>1, <1>0 DEF Refused, Silence, Reply, Codes
    <3> QED BY <1>3, <3>1, <3>2
  <2>2. /\ xfer' \in Transfer /\ xfer'.state = "IDLE"
        /\ xfer'.messages_per_ack = 0 /\ xfer'.messages_until_ack = 0
    BY <2>1, ClearedFields DEF States
  <2>3. ~history'.straight
    BY <2>2, <1>2
  <2>4. TypeOK'
    BY <2>1, <2>2, <1>0, <1>1, <1>2 DEF TypeOK
  <2>5. OpenHasRate' /\ WriteStaysInInit' /\ CompleteIsQuiet'
    BY <2>2 DEF OpenHasRate, WriteStaysInInit, CompleteIsQuiet
  <2>6. ContinuationSound' /\ CounterIsWindow'
    BY <1>1 DEF ContinuationSound, CounterIsWindow
  <2>7. WindowNumbering'
    BY <2>1 DEF WindowNumbering
  <2>8. FlowControl'
    BY <2>2, <1>2 DEF FlowControl
  <2>9. StraightShape' /\ Contiguous' /\ CompleteIsWhole'
    BY <2>3 DEF StraightShape, Contiguous, CompleteIsWhole
  <2> QED
    BY <2>4, <2>5, <2>6, <2>7, <2>8, <2>9
<1>4. CASE Opened(req)
  <2>1. reply' \in Reply /\ reply'.kind = "init"
    <3>1. 0 \in 0..1 /\ 1 \in 0..1 /\ 0 \in 0..Packet
      BY ConstantsAssumption DEF Uint32
    <3>2. req.transfer_id \in TransferIds
      BY DEF InitRequest
    <3>3. \E code \in Codes, id \in TransferIds \cup {Garbled}, n \in 0..1 :
            reply' = [Silence EXCEPT !.kind = "init", !.code = code,
                                     !.transfer_id = id, !.reports = n]
      BY <1>4, <3>1, <3>2 DEF Opened, Codes
    <3> QED
      BY <3>3, SilenceType DEF Reply
  <2>2. xfer' = [state |-> "INIT", transfer_id |-> req.transfer_id,
              file_id |-> req.file_id, request_offset |-> req.request_offset,
              transfer_length |-> req.transfer_length,
              read_write |-> req.read_write, message_number |-> 0,
              messages_per_ack |-> AckRate(req),
              messages_until_ack |-> AckRate(req), bytes_transfered |-> 0]
    BY <1>4 DEF Opened
  <2>3. xfer' \in Transfer
    BY <2>2, <1>0 DEF Transfer, States, InitRequest
  <2>4. watchdog' \in BOOLEAN
    <3>1. req.timed \in Timed
      BY DEF InitRequest
    <3> QED
      BY <1>4, <3>1, ConstantsAssumption DEF Opened
  <2>5. /\ xfer'.state = "INIT" /\ xfer'.file_id \in DOMAIN Access
        /\ xfer'.messages_per_ack = AckRate(req)
        /\ xfer'.messages_until_ack = AckRate(req)
        /\ xfer'.bytes_transfered = 0
        /\ xfer'.request_offset = req.request_offset
        /\ xfer'.transfer_length = req.transfer_length
    BY <2>2 DEF InitRequest
  <2>6. Plus(req.request_offset, 0) = req.request_offset
    BY <1>0, ConstantsAssumption DEF Plus, Uint32
  <2>7. 0 <= req.transfer_length /\ 0 < AckRate(req)
        /\ 0 + AckRate(req) <= AckRate(req)
    BY <1>0, ConstantsAssumption DEF Uint32
  <2> QED
    BY <2>1, <2>3, <2>4, <2>5, <2>6, <2>7, <1>0, <1>1, <1>2
    DEF TypeOK, OpenHasRate, WriteStaysInInit, ContinuationSound,
        CounterIsWindow, FlowControl, WindowNumbering, CompleteIsQuiet,
        StraightShape, Contiguous, CompleteIsWhole
<1> QED BY <1>3, <1>4 DEF TransferInit

\* What TransferData notes of the message.
LEMMA TransferDataHistory ==
  ASSUME TypeOK, NEW w, NEW m \in DataMessage, TransferData(m, w)
  PROVE  /\ history'.from = history.from
         /\ history'.window = IF reply'.kind = "none" THEN history.window + 1 ELSE 0
         /\ history'.done => history.done \/ reply'.is_complete
         /\ history'.straight => /\ history.straight /\ ~history.done
                                 /\ xfer.read_write = 1
                                 /\ reply'.code = "NO_ERROR"
         /\ history'.window \in Uint32 /\ reply' \in Reply => history' \in History
<1>1. history \in History
  BY DEF TypeOK
<1>2. history' = [history EXCEPT
                   !.window = IF reply'.kind = "none" THEN @ + 1 ELSE 0,
                   !.done = @ \/ reply'.is_complete,
                   !.straight = /\ @ /\ ~history.done
                                /\ xfer.read_write = 1
                                /\ reply'.code = "NO_ERROR"]
  BY DEF TransferData
<1>3. /\ history'.from = history.from
      /\ history'.window = IF reply'.kind = "none" THEN history.window + 1 ELSE 0
      /\ history'.done = (history.done \/ reply'.is_complete)
      /\ history'.straight = (/\ history.straight /\ ~history.done
                              /\ xfer.read_write = 1
                              /\ reply'.code = "NO_ERROR")
  BY <1>1, <1>2 DEF History
<1>4. reply' \in Reply => reply'.is_complete \in BOOLEAN
  BY DEF Reply
<1>5. history'.window \in Uint32 /\ reply' \in Reply => history' \in History
  BY <1>1, <1>2, <1>4 DEF History
<1> QED
  BY <1>3, <1>5

\* A transfer that rejected or failed a message only loses its good record.
LEMMA TransferDataIInv ==
  ASSUME IInv, NEW w \in AfterCheck, NEW m \in DataMessage, TransferData(m, w)
  PROVE  IInv'
<1>0. /\ TypeOK /\ OpenHasRate /\ WriteStaysInInit /\ ContinuationSound
      /\ CounterIsWindow /\ FlowControl /\ WindowNumbering /\ CompleteIsQuiet
      /\ StraightShape /\ Contiguous /\ CompleteIsWhole
  BY DEF IInv
<1>1. continued' \in Continued /\ continued'.type = "INVALID"
  BY DEF TransferData, NotContinued, Continued, ContinuedTypes
<1>2. /\ xfer \in Transfer /\ w \in BOOLEAN /\ history \in History
      /\ history.window \in Uint32 /\ 0 \in Uint32 /\ m.size \in Uint32
      /\ m.number \in Uint32 /\ m.transfer_id \in TransferIds
  <2>1. m.size \in 0..Packet /\ m.number \in Numbers /\ m.transfer_id \in TransferIds
    BY DEF DataMessage
  <2>2. m.size \in Uint32 /\ m.number \in Uint32 /\ 0 \in Uint32
    BY <2>1, ConstantsFit
  <2>3. w \in BOOLEAN
    BY <1>0, CheckedIsBoolean
  <2> QED BY <1>0, <2>1, <2>2, <2>3 DEF TypeOK, History
<1>3. /\ history'.from = history.from
      /\ history'.window = IF reply'.kind = "none" THEN history.window + 1 ELSE 0
      /\ history'.done => history.done \/ reply'.is_complete
      /\ history'.straight => /\ history.straight /\ ~history.done
                              /\ xfer.read_write = 1
                              /\ reply'.code = "NO_ERROR"
      /\ history'.window \in Uint32 /\ reply' \in Reply => history' \in History
  BY <1>0, TransferDataHistory
<1>4. ContinuationSound' /\ CounterIsWindow'
  BY <1>1 DEF ContinuationSound, CounterIsWindow
<1>5. CASE NotReceiving \/ WriteFails(m)
  <2>1. /\ watchdog' = FALSE /\ reply' \in Reply
        /\ reply'.kind = "error" /\ reply'.code # "NO_ERROR"
    <3>1. CASE NotReceiving
      BY <3>1, FailureType DEF NotReceiving, Codes
    <3>2. CASE WriteFails(m)
      BY <3>2, FailureType DEF WriteFails, Codes
    <3> QED BY <1>5, <3>1, <3>2
  <2>2. /\ xfer' \in Transfer /\ xfer'.state = xfer.state
        /\ xfer'.file_id = xfer.file_id /\ xfer'.read_write = xfer.read_write
        /\ xfer'.messages_per_ack = xfer.messages_per_ack
        /\ xfer'.messages_until_ack = xfer.messages_until_ack
    <3>1. CASE NotReceiving
      BY <3>1, <1>2 DEF NotReceiving
    <3>2. CASE WriteFails(m)
      <4>1. Plus(xfer.bytes_transfered, m.size) \in Uint32
        BY <1>2, WordArithmetic DEF Transfer
      <4> QED BY <3>2, <1>2, <4>1 DEF WriteFails, Transfer
    <3> QED BY <1>5, <3>1, <3>2
  <2>3. ~history'.straight /\ history'.window = 0
    BY <1>3, <2>1
  <2>4. TypeOK'
    BY <2>1, <2>2, <2>3, <1>1, <1>2, <1>3 DEF TypeOK
  <2>5. FlowControl'
    BY <2>2, <2>3, <1>0, <1>2, ConstantsAssumption
    DEF FlowControl, Transfer, Uint32, OpenHasRate
  <2>6. OpenHasRate' /\ WriteStaysInInit'
    BY <2>2, <1>0 DEF OpenHasRate, WriteStaysInInit
  <2>7. WindowNumbering' /\ CompleteIsQuiet'
    BY <2>1, <2>2, <1>0, <1>1 DEF WindowNumbering, CompleteIsQuiet
  <2>8. StraightShape' /\ Contiguous' /\ CompleteIsWhole'
    BY <2>3 DEF StraightShape, Contiguous, CompleteIsWhole
  <2> QED
    BY <1>4, <2>4, <2>5, <2>6, <2>7, <2>8 DEF IInv
<1>6. CASE Receiving /\ ~WriteFails(m)
  <2>1. /\ Received(m) \in Transfer
        /\ Received(m).state = xfer.state
        /\ Received(m).file_id = xfer.file_id
        /\ Received(m).read_write = xfer.read_write
        /\ Received(m).transfer_length = xfer.transfer_length
        /\ Received(m).messages_per_ack = xfer.messages_per_ack
        /\ Received(m).messages_until_ack =
             IF xfer.messages_until_ack = 0 THEN 0 ELSE xfer.messages_until_ack - 1
        /\ Received(m).message_number = Plus(xfer.message_number, 1)
        /\ Received(m).bytes_transfered = Plus(xfer.bytes_transfered, m.size)
        /\ Received(m).request_offset = Plus(xfer.request_offset, m.size)
    BY <1>2, ReceivedFields
  <2> DEFINE Carried == /\ xfer' \in Transfer
                        /\ xfer'.state = xfer.state
                        /\ xfer'.file_id = xfer.file_id
                        /\ xfer'.read_write = xfer.read_write
                        /\ xfer'.transfer_length = xfer.transfer_length
                        /\ xfer'.messages_per_ack = xfer.messages_per_ack
             Answered == /\ reply' \in Reply /\ reply'.kind \in {"none", "notification"}
                         /\ watchdog' \in BOOLEAN
             Counted == xfer'.bytes_transfered = Plus(xfer.bytes_transfered, m.size)
                        /\ xfer'.request_offset = Plus(xfer.request_offset, m.size)
             Paced == /\ history'.window \in Uint32
                      /\ history'.window + xfer'.messages_until_ack <= xfer'.messages_per_ack
                      /\ history'.window < xfer'.messages_per_ack
             Ended == reply'.is_complete =>
                        xfer'.bytes_transfered >= xfer'.transfer_length
             Kept == Carried /\ Answered /\ Paced /\ (history'.straight => Counted /\ Ended)
  <2>2. /\ xfer.messages_per_ack \in Uint32 /\ xfer.messages_until_ack \in Uint32
        /\ xfer.messages_per_ack >= 1
        /\ history.window + xfer.messages_until_ack <= xfer.messages_per_ack
    BY <1>0, <1>2, <1>6 DEF OpenHasRate, FlowControl, Receiving, Transfer
  <2>3. ASSUME OutOfSequence(m, w) PROVE  Kept
    <3>1. xfer' = [Received(m) EXCEPT !.request_offset = xfer.request_offset,
                                      !.message_number = m.number]
      BY <2>3 DEF OutOfSequence
    <3>2. xfer.request_offset \in Uint32
      BY <1>2 DEF Transfer
    <3>3. Carried /\ xfer'.messages_until_ack = Received(m).messages_until_ack
      BY <2>1, <3>1, <3>2, <1>2 DEF Transfer
    <3>4. Plus(xfer.request_offset, Plus(xfer.bytes_transfered, m.size)) \in Uint32
      BY <1>2, WordArithmetic DEF Transfer
    <3>5. Answered /\ reply'.kind = "notification" /\ reply'.code # "NO_ERROR"
      BY <2>3, <3>4, <1>2, SilenceType DEF OutOfSequence, Reply, Codes
    <3>6. Paced
      BY <3>3, <3>5, <2>1, <2>2, <1>2, <1>3 DEF Uint32
    <3>7. ~history'.straight
      BY <3>5, <1>3
    <3> QED BY <3>3, <3>5, <3>6, <3>7
  <2>4. ASSUME WriteCompletes(m) PROVE  Kept
    <3>1. xfer' = Received(m)
      BY <2>4 DEF WriteCompletes
    <3>2. Carried /\ Counted
      BY <3>1, <2>1
    <3>3. Answered /\ reply'.kind = "notification"
      BY <2>4, <1>2, SilenceType DEF WriteCompletes, Reply, Codes
    <3>4. Paced
      BY <3>1, <3>2, <3>3, <2>1, <2>2, <1>2, <1>3 DEF Uint32
    <3>5. Ended
      BY <2>4, <3>1 DEF WriteCompletes, Whole
    <3> QED BY <3>2, <3>3, <3>4, <3>5
  <2>5. ASSUME Unacknowledged(m, w) PROVE  Kept
    <3>1. xfer' = Received(m) /\ Received(m).messages_until_ack # 0
      BY <2>5 DEF Unacknowledged
    <3>2. Carried /\ Counted
      BY <3>1, <2>1
    <3>3. Answered /\ reply'.kind = "none" /\ ~reply'.is_complete
      BY <2>5, <1>2, SilenceType DEF Unacknowledged
    <3>4. Paced
      BY <3>1, <3>2, <3>3, <2>1, <2>2, <1>2, <1>3, ConstantsAssumption DEF Uint32
    <3> QED BY <3>2, <3>3, <3>4
  <2>6. ASSUME Acknowledged(m, w) PROVE  Kept
    <3>1. xfer' = [Received(m) EXCEPT !.messages_until_ack = xfer.messages_per_ack,
                                      !.message_number = 0]
      BY <2>6 DEF Acknowledged
    <3>2. Carried /\ Counted /\ xfer'.messages_until_ack = xfer.messages_per_ack
      BY <3>1, <2>1, <2>2, <1>2 DEF Transfer
    <3>3. Answered /\ reply'.kind = "notification" /\ ~reply'.is_complete
      BY <2>6, <1>2, SilenceType DEF Acknowledged, Reply, Codes
    <3>4. Paced
      BY <3>2, <3>3, <2>2, <1>2, <1>3 DEF Uint32
    <3> QED BY <3>2, <3>3, <3>4
  <2>7. Kept
    BY <1>6, <2>3, <2>4, <2>5, <2>6 DEF TransferData, NotReceiving
  <2>8. TypeOK'
    BY <2>7, <1>1, <1>3 DEF TypeOK
  <2>9. OpenHasRate' /\ WriteStaysInInit'
    BY <2>7, <1>0 DEF OpenHasRate, WriteStaysInInit
  <2>10. WindowNumbering' /\ CompleteIsQuiet' /\ FlowControl'
    BY <2>7, <1>6 DEF WindowNumbering, CompleteIsQuiet, FlowControl, Receiving
  <2>11. StraightShape'
    BY <2>7, <1>0, <1>3 DEF StraightShape
  <2>12. Contiguous'
    <3>1. xfer.bytes_transfered \in Uint32 /\ history.from \in Uint32
      BY <1>2 DEF Transfer, History
    <3> QED
      BY <2>7, <3>1, <1>0, <1>2, <1>3, PlusAssociative DEF Contiguous
  <2>13. CompleteIsWhole'
    BY <2>7, <1>3 DEF CompleteIsWhole
  <2> QED
    BY <1>4, <2>8, <2>9, <2>10, <2>11, <2>12, <2>13 DEF IInv
<1> QED
  BY <1>5, <1>6
  DEF TransferData, NotReceiving, OutOfSequence, WriteCompletes, Unacknowledged,
      Acknowledged, InSequence

\* A data message is sent, the k+1st of its window, for a read as x has it.
LEMMA ReadSendsIInv ==
  ASSUME NEW x \in Transfer, NEW w \in BOOLEAN, NEW k \in Uint32, ReadSends(x, w),
         history \in History,
         x.state \in {"INIT", "DATA"}, x.read_write = 0,
         x.file_id \in DOMAIN Access,
         x.messages_until_ack >= 1,
         k + x.messages_until_ack <= x.messages_per_ack,
         x.message_number = k,
         history.straight => /\ x.request_offset = Plus(history.from, x.bytes_transfered)
                             /\ x.bytes_transfered <= x.transfer_length
                             /\ ~history.done,
         history'.from = history.from,
         history'.window = k + 1,
         history'.done => history.done \/ xfer'.state = "COMPLETE",
         history'.straight => history.straight,
         history'.window \in Uint32 => history' \in History
  PROVE  IInv'
<1>1. PICK n \in BytesRead(x) : /\ xfer' = Sent(x, n)
                                /\ reply' = DataSent(x, n)
                                /\ continued' = Continuing(Sent(x, n))
                                /\ watchdog' = IF Sent(x, n).state = "COMPLETE"
                                               THEN FALSE ELSE w
  BY DEF ReadSends
<1>2. /\ n \in 0..Packet
      /\ xfer' \in Transfer
      /\ xfer'.state = IF Unread(x) = n THEN "COMPLETE" ELSE "DATA"
      /\ xfer'.file_id = x.file_id
      /\ xfer'.read_write = x.read_write
      /\ xfer'.transfer_length = x.transfer_length
      /\ xfer'.messages_per_ack = x.messages_per_ack
      /\ xfer'.messages_until_ack =
           IF x.messages_until_ack = 0 THEN 0 ELSE x.messages_until_ack - 1
      /\ xfer'.message_number = Plus(x.message_number, 1)
      /\ xfer'.bytes_transfered = Plus(x.bytes_transfered, n)
      /\ xfer'.request_offset = Plus(x.request_offset, n)
  BY <1>1, SentFields
<1>3. /\ x.messages_per_ack \in Uint32 /\ x.messages_until_ack \in Uint32
      /\ x.bytes_transfered \in Uint32 /\ x.request_offset \in Uint32
      /\ x.transfer_length \in Uint32 /\ x.transfer_id \in TransferIds \cup {NoId}
      /\ n \in Uint32 /\ history.from \in Uint32
  BY <1>2, ConstantsFit DEF Transfer, History
<1>4. /\ xfer'.messages_until_ack = x.messages_until_ack - 1
      /\ k + 1 \in Uint32 /\ Plus(x.message_number, 1) = k + 1
      /\ k + 1 + xfer'.messages_until_ack <= xfer'.messages_per_ack
      /\ xfer'.messages_until_ack <= xfer'.messages_per_ack - 1
  BY <1>2, <1>3, ConstantsAssumption DEF Uint32, Plus
<1>5. reply' \in Reply /\ reply'.kind = "data" /\ reply'.number = k + 1
  <2>1. reply' = [Silence EXCEPT !.kind = "data", !.transfer_id = x.transfer_id,
                      !.number = k + 1, !.offset = x.request_offset, !.size = n]
    BY <1>1, <1>4 DEF DataSent
  <2>2. x.transfer_id \in TransferIds \cup {NoId, Garbled}
    BY <1>3
  <2> QED
    BY <2>1, <2>2, <1>2, <1>3, <1>4, SilenceType DEF Reply
<1>6. /\ continued' \in Continued
      /\ continued'.type = "TRANSFER_DATA" =>
           /\ xfer'.state # "COMPLETE" /\ xfer'.messages_until_ack # 0
           /\ continued'.remaining = xfer'.messages_until_ack
           /\ continued'.count = xfer'.messages_per_ack
  <2>1. /\ Sent(x, n).messages_until_ack = xfer'.messages_until_ack
        /\ Sent(x, n).messages_per_ack = xfer'.messages_per_ack
        /\ Sent(x, n).state = xfer'.state
    BY <1>1
  <2>2. xfer'.messages_until_ack \in Nat /\ xfer'.messages_per_ack \in Nat
    BY <1>2, <1>3 DEF Transfer, Uint32
  <2> QED
    BY <1>1, <2>1, <2>2 DEF Continuing, Continued, ContinuedTypes
<1>7. watchdog' \in BOOLEAN /\ (xfer'.state = "COMPLETE" => ~watchdog')
  BY <1>1
<1>8. TypeOK'
  BY <1>2, <1>4, <1>5, <1>6, <1>7 DEF TypeOK
<1>9. xfer'.state \in {"DATA", "COMPLETE"} /\ xfer'.read_write = 0
  BY <1>2
<1>10. xfer'.messages_per_ack >= 1
  BY <1>2, <1>3 DEF Uint32
<1>11. OpenHasRate' /\ WriteStaysInInit'
  BY <1>2, <1>9, <1>10 DEF OpenHasRate, WriteStaysInInit
<1>12. ContinuationSound'
  <2>1. /\ xfer'.messages_until_ack \in Nat /\ xfer'.messages_per_ack \in Nat
    BY <1>2, <1>3 DEF Transfer, Uint32
  <2>2. xfer'.messages_until_ack # 0
           => xfer'.messages_until_ack \in 1..(xfer'.messages_per_ack - 1)
    <3>1. \A u, p \in Nat : u # 0 /\ u <= p - 1 => u \in 1..(p - 1)
      OBVIOUS
    <3>2. xfer'.messages_until_ack <= xfer'.messages_per_ack - 1
      BY <1>4
    <3> QED BY <2>1, <3>1, <3>2
  <2>3. continued'.type = "TRANSFER_DATA" => xfer'.state = "DATA"
    BY <1>6, <1>9
  <2> QED
    BY <2>2, <2>3, <1>6, <1>9 DEF ContinuationSound
<1>13. CounterIsWindow' /\ WindowNumbering'
  BY <1>2, <1>4, <1>5 DEF CounterIsWindow, WindowNumbering
<1>14. FlowControl'
  BY <1>4, <1>9 DEF FlowControl
<1>15. CompleteIsQuiet'
  BY <1>6, <1>7, <1>9 DEF CompleteIsQuiet
<1>16. Contiguous'
  <2>1. Plus(Plus(history.from, x.bytes_transfered), n)
          = Plus(history.from, Plus(x.bytes_transfered, n))
    BY <1>3, PlusAssociative
  <2> QED
    BY <2>1, <1>2 DEF Contiguous
<1>17. history'.straight =>
         /\ xfer'.bytes_transfered <= xfer'.transfer_length
         /\ xfer'.state = "COMPLETE" => xfer'.bytes_transfered = xfer'.transfer_length
  <2> SUFFICES ASSUME history'.straight
               PROVE  /\ xfer'.bytes_transfered <= xfer'.transfer_length
                      /\ xfer'.state = "COMPLETE" =>
                           xfer'.bytes_transfered = xfer'.transfer_length
    OBVIOUS
  <2>1. x.bytes_transfered <= x.transfer_length
    OBVIOUS
  <2>2. Unread(x) = x.transfer_length - x.bytes_transfered
    BY <2>1, <1>3 DEF Unread, Minus, Uint32
  <2>3. n <= Unread(x)
    <3>1. Unread(x) \in Nat /\ Packet \in Nat
      BY <2>1, <2>2, <1>3, ConstantsAssumption DEF Uint32
    <3>2. BytesRequested(x) \in Nat /\ BytesRequested(x) <= Unread(x)
      BY <3>1 DEF BytesRequested, Least
    <3>3. n \in 0..BytesRequested(x)
      BY <1>1, <3>2 DEF BytesRead
    <3> QED BY <3>1, <3>2, <3>3
  <2>4. Plus(x.bytes_transfered, n) = x.bytes_transfered + n
    BY <2>2, <2>3, <1>3, ConstantsAssumption DEF Plus, Uint32
  <2> QED
    BY <2>2, <2>3, <2>4, <1>2, <1>3 DEF Uint32
<1>18. StraightShape'
  BY <1>9, <1>17 DEF StraightShape
<1>19. CompleteIsWhole'
  <2> SUFFICES ASSUME history'.straight, history'.done
               PROVE  /\ xfer'.bytes_transfered >= xfer'.transfer_length
                      /\ xfer'.read_write = 0 =>
                           /\ xfer'.state = "COMPLETE"
                           /\ xfer'.bytes_transfered = xfer'.transfer_length
    BY DEF CompleteIsWhole
  <2>1. xfer'.state = "COMPLETE" /\ xfer'.bytes_transfered = xfer'.transfer_length
    BY <1>17
  <2>2. xfer'.transfer_length \in Int
    BY <1>2, <1>3 DEF Uint32
  <2> QED BY <2>1, <2>2
<1> QED
  BY <1>8, <1>11, <1>12, <1>13, <1>14, <1>15, <1>16, <1>18, <1>19 DEF IInv

\* A handler that changes at most the state of a read that is over.
LEMMA ReadFailsIInv ==
  ASSUME NEW x \in Transfer, ReadFails(x), history \in History,
         x.state \in {"INIT", "DATA"}, x.read_write = 0,
         x.file_id \in DOMAIN Access,
         x.messages_until_ack <= x.messages_per_ack,
         x.messages_per_ack >= 1,
         history'.window = 0, ~history'.straight,
         history'.window \in Uint32 => history' \in History
  PROVE  IInv'
<1>1. xfer' = x /\ ~watchdog' /\ watchdog' \in BOOLEAN
  BY DEF ReadFails
<1>2. reply' \in Reply /\ reply'.kind = "error"
  BY FailureType DEF ReadFails, Codes
<1>3. continued' \in Continued /\ continued'.type = "INVALID"
  BY DEF ReadFails, NotContinued, Continued, ContinuedTypes
<1>4. TypeOK'
  BY <1>1, <1>2, <1>3, ConstantsFit DEF TypeOK
<1>5. FlowControl'
  BY <1>1, ConstantsAssumption DEF FlowControl, Transfer, Uint32
<1>6. OpenHasRate' /\ WriteStaysInInit' /\ CompleteIsQuiet'
  BY <1>1, <1>3 DEF OpenHasRate, WriteStaysInInit, CompleteIsQuiet
<1>7. ContinuationSound' /\ CounterIsWindow' /\ WindowNumbering'
  BY <1>2, <1>3 DEF ContinuationSound, CounterIsWindow, WindowNumbering
<1>8. StraightShape' /\ Contiguous' /\ CompleteIsWhole'
  BY DEF StraightShape, Contiguous, CompleteIsWhole
<1> QED BY <1>4, <1>5, <1>6, <1>7, <1>8 DEF IInv

LEMMA TransferDataNotificationIInv ==
  ASSUME IInv, NEW w \in AfterCheck, NEW m \in Notification,
         TransferDataNotification(m, w)
  PROVE  IInv'
<1>0. /\ TypeOK /\ OpenHasRate /\ WriteStaysInInit /\ FlowControl
      /\ StraightShape /\ Contiguous /\ CompleteIsWhole
      /\ w \in BOOLEAN /\ xfer \in Transfer /\ history \in History
  BY CheckedIsBoolean DEF IInv, TypeOK
<1>1. /\ history'.from = history.from
      /\ history'.window = IF reply'.kind = "data" THEN 1 ELSE 0
      /\ history'.done => history.done \/ xfer'.state = "COMPLETE"
      /\ history'.straight => history.straight /\ reply'.kind = "data"
      /\ history'.window \in Uint32 => history' \in History
  <2>1. history' = [history EXCEPT
                   !.window = IF reply'.kind = "data" THEN 1 ELSE 0,
                   !.done = @ \/ xfer'.state = "COMPLETE",
                   !.straight = @ /\ reply'.kind = "data"]
    BY DEF TransferDataNotification
  <2>2. /\ history'.from = history.from
        /\ history'.window = IF reply'.kind = "data" THEN 1 ELSE 0
        /\ history'.done = (history.done \/ xfer'.state = "COMPLETE")
        /\ history'.straight = (history.straight /\ reply'.kind = "data")
    BY <1>0, <2>1 DEF History
  <2>3. history'.window \in Uint32 => history' \in History
    BY <1>0, <2>1, <2>2 DEF History
  <2> QED BY <2>2, <2>3
<1>2. CASE ReadPrompted(m, w)
  <2>1. xfer.state \in {"INIT", "DATA"} /\ xfer.read_write = 0
    BY <1>2 DEF ReadPrompted
  <2>2. /\ NextWindow \in Transfer
        /\ NextWindow.state = xfer.state
        /\ NextWindow.file_id = xfer.file_id
        /\ NextWindow.read_write = xfer.read_write
        /\ NextWindow.transfer_length = xfer.transfer_length
        /\ NextWindow.messages_per_ack = xfer.messages_per_ack
        /\ NextWindow.messages_until_ack = xfer.messages_per_ack
        /\ NextWindow.message_number = 0
        /\ NextWindow.bytes_transfered = xfer.bytes_transfered
        /\ NextWindow.request_offset = xfer.request_offset
    BY <1>0, NextWindowFields
  <2>3. /\ xfer.file_id \in DOMAIN Access /\ xfer.messages_per_ack >= 1
        /\ 0 + xfer.messages_per_ack <= xfer.messages_per_ack
    BY <1>0, <2>1, ConstantsAssumption DEF OpenHasRate, Transfer, Uint32
  <2>4. CASE ReadFails(NextWindow)
    <3>1. reply'.kind = "error"
      BY <2>4, FailureType DEF ReadFails, Codes
    <3>2. history'.window = 0 /\ ~history'.straight
      BY <1>1, <3>1
    <3>3. NextWindow.messages_until_ack <= NextWindow.messages_per_ack
      BY <2>2, <2>3, <1>0 DEF Transfer, Uint32
    <3> QED
      BY <2>1, <2>2, <2>3, <2>4, <3>2, <3>3, <1>0, <1>1, ReadFailsIInv
  <2>5. CASE ReadSends(NextWindow, w)
    <3>1. reply'.kind = "data"
      BY <2>5 DEF ReadSends, DataSent, Silence
    <3>2. history'.window = 0 + 1
      BY <1>1, <3>1
    <3>3. history.straight =>
            /\ NextWindow.request_offset
                 = Plus(history.from, NextWindow.bytes_transfered)
            /\ NextWindow.bytes_transfered <= NextWindow.transfer_length
            /\ ~history.done
      BY <2>1, <2>2, <1>0 DEF Contiguous, StraightShape, CompleteIsWhole
    <3>4. 0 \in Uint32
      BY ConstantsFit
    <3> QED
      BY <2>1, <2>2, <2>3, <2>5, <3>2, <3>3, <3>4, <1>0, <1>1, ReadSendsIInv
  <2> QED BY <1>2, <2>4, <2>5 DEF ReadPrompted
<1>3. CASE ~ReadPrompted(m, w)
  <2>1. /\ \/ xfer' = xfer
           \/ xfer' = [xfer EXCEPT !.state = "IDLE"]
           \/ xfer.read_write = 0 /\ xfer.state \in {"INIT", "DATA"}
              /\ xfer' = [xfer EXCEPT !.state = "COMPLETE"]
        /\ continued' = NotContinued
        /\ watchdog' = FALSE
        /\ reply' \in Reply /\ reply'.kind \in {"error", "notification"}
    <3>1. CASE NotSending
      BY <3>1, FailureType DEF NotSending, Codes
    <3>2. CASE ReadConfirmed(m)
      <4>1. m.transfer_id \in TransferIds
        BY DEF Notification
      <4>2. reply' \in Reply /\ reply'.kind = "notification"
        BY <3>2, <4>1, SilenceType DEF ReadConfirmed, Reply
      <4> QED
        BY <3>2, <4>2 DEF ReadConfirmed
    <3>3. CASE AlreadyComplete(m)
      BY <3>3, FailureType DEF AlreadyComplete, Codes
    <3>4. CASE ExpectingRead
      BY <3>4, FailureType DEF ExpectingRead, Codes
    <3>5. CASE ReadStopped(m)
      BY <3>5, SilenceType DEF ReadStopped, Reply
    <3> QED
      BY <1>3, <3>1, <3>2, <3>3, <3>4, <3>5 DEF TransferDataNotification
  <2>2. /\ xfer' \in Transfer
        /\ xfer'.file_id = xfer.file_id /\ xfer'.read_write = xfer.read_write
        /\ xfer'.messages_per_ack = xfer.messages_per_ack
        /\ xfer'.messages_until_ack = xfer.messages_until_ack
        /\ \/ xfer'.state = xfer.state
           \/ xfer'.state = "IDLE"
           \/ /\ xfer'.state = "COMPLETE" /\ xfer.read_write = 0
              /\ xfer.state \in {"INIT", "DATA"}
    BY <2>1, <1>0 DEF Transfer, States
  <2>3. history'.window = 0 /\ ~history'.straight /\ history' \in History
    BY <1>1, <2>1, ConstantsFit
  <2>4. continued' \in Continued /\ continued'.type = "INVALID"
    BY <2>1 DEF NotContinued, Continued, ContinuedTypes
  <2>5. TypeOK'
    BY <2>1, <2>2, <2>3, <2>4 DEF TypeOK
  <2>6. OpenHasRate' /\ WriteStaysInInit' /\ CompleteIsQuiet'
    BY <2>1, <2>2, <2>4, <1>0
    DEF OpenHasRate, WriteStaysInInit, CompleteIsQuiet
  <2>7. FlowControl'
    <3>1. xfer.messages_until_ack <= xfer.messages_per_ack
      BY <1>0, ConstantsAssumption DEF FlowControl, Transfer, History, Uint32
    <3>2. xfer'.state = "INIT" => xfer.messages_per_ack > 0
      BY <2>2, <1>0, ConstantsAssumption DEF OpenHasRate, Transfer, Uint32
    <3> QED
      BY <2>2, <2>3, <3>1, <3>2, <1>0 DEF FlowControl, Transfer, Uint32
  <2>8. ContinuationSound' /\ CounterIsWindow' /\ WindowNumbering'
    BY <2>1, <2>4 DEF ContinuationSound, CounterIsWindow, WindowNumbering
  <2>9. StraightShape' /\ Contiguous' /\ CompleteIsWhole'
    BY <2>3 DEF StraightShape, Contiguous, CompleteIsWhole
  <2> QED BY <2>5, <2>6, <2>7, <2>8, <2>9 DEF IInv
<1> QED BY <1>2, <1>3

LEMMA ContinueTransferIInv ==
  ASSUME IInv, NEW w \in AfterCheck, ContinueTransfer(w)
  PROVE  IInv'
<1>1. /\ TypeOK /\ OpenHasRate /\ ContinuationSound /\ CounterIsWindow
      /\ FlowControl /\ StraightShape /\ Contiguous /\ CompleteIsWhole
      /\ w \in BOOLEAN /\ xfer \in Transfer /\ history \in History
  BY CheckedIsBoolean DEF IInv, TypeOK
<1>2. /\ xfer.state = "DATA" /\ xfer.read_write = 0
      /\ xfer.messages_until_ack \in 1..(xfer.messages_per_ack - 1)
      /\ xfer.message_number = history.window
      /\ xfer.file_id \in DOMAIN Access /\ xfer.messages_per_ack >= 1
      /\ history.window + xfer.messages_until_ack <= xfer.messages_per_ack
  BY <1>1
  DEF ContinueTransfer, ContinuationSound, CounterIsWindow, OpenHasRate, FlowControl
<1>3. /\ history'.from = history.from
      /\ history'.window = IF reply'.kind = "data" THEN history.window + 1 ELSE 0
      /\ history'.done => history.done \/ xfer'.state = "COMPLETE"
      /\ history'.straight => history.straight /\ reply'.kind = "data"
      /\ history'.window \in Uint32 => history' \in History
  <2>1. history' = [history EXCEPT
                   !.window = IF reply'.kind = "data" THEN @ + 1 ELSE 0,
                   !.done = @ \/ xfer'.state = "COMPLETE",
                   !.straight = @ /\ reply'.kind = "data"]
    BY DEF ContinueTransfer
  <2>2. /\ history'.from = history.from
        /\ history'.window = IF reply'.kind = "data" THEN history.window + 1 ELSE 0
        /\ history'.done = (history.done \/ xfer'.state = "COMPLETE")
        /\ history'.straight = (history.straight /\ reply'.kind = "data")
    BY <1>1, <2>1 DEF History
  <2>3. history'.window \in Uint32 => history' \in History
    BY <1>1, <2>1, <2>2 DEF History
  <2> QED BY <2>2, <2>3
<1>4. /\ xfer.messages_per_ack \in Int /\ xfer.messages_until_ack \in Int
      /\ xfer.messages_until_ack >= 1
      /\ xfer.messages_until_ack <= xfer.messages_per_ack
      /\ history.window \in Uint32
  BY <1>1, <1>2 DEF Transfer, Uint32, History
<1>5. CASE ReadFails(xfer)
  <2>1. reply'.kind = "error"
    BY <1>5, FailureType DEF ReadFails, Codes
  <2>2. history'.window = 0 /\ ~history'.straight
    BY <1>3, <2>1
  <2> QED
    BY <1>1, <1>2, <1>3, <1>4, <1>5, <2>2, ReadFailsIInv
<1>6. CASE ReadSends(xfer, w)
  <2>1. reply'.kind = "data"
    BY <1>6 DEF ReadSends, DataSent, Silence
  <2>2. history'.window = history.window + 1
    BY <1>3, <2>1
  <2>3. history.straight =>
          /\ xfer.request_offset = Plus(history.from, xfer.bytes_transfered)
          /\ xfer.bytes_transfered <= xfer.transfer_length
          /\ ~history.done
    BY <1>1, <1>2 DEF Contiguous, StraightShape, CompleteIsWhole
  <2> QED
    BY <1>1, <1>2, <1>3, <1>4, <1>6, <2>2, <2>3, ReadSendsIInv
<1> QED BY <1>5, <1>6 DEF ContinueTransfer

\* The counts of files fit the counters of the continued transaction.
LEMMA FileCountType == FileCount \in Nat
<1>1. IsFiniteSet({f \in DOMAIN Access : Access[f] # "UNKNOWN"})
  BY FilesAssumption, FS_Subset
<1> QED BY <1>1, FS_CardinalityType DEF FileCount

\* Steps that leave the transfer and its history alone.
LEMMA OtherIInv ==
  ASSUME IInv, UNCHANGED <<xfer, history>>,
         continued' \in Continued, continued'.type # "TRANSFER_DATA",
         reply' \in Reply, reply'.kind # "data",
         watchdog' \in AfterCheck
  PROVE  IInv'
<1>1. TypeOK'
  BY CheckedIsBoolean DEF IInv, TypeOK
<1>2. CompleteIsQuiet'
  BY DEF IInv, CompleteIsQuiet, AfterCheck
<1>3. ContinuationSound' /\ CounterIsWindow' /\ WindowNumbering'
  BY DEF ContinuationSound, CounterIsWindow, WindowNumbering
<1> QED
  BY <1>1, <1>2, <1>3
  DEF IInv, OpenHasRate, WriteStaysInInit, FlowControl, StraightShape,
      Contiguous, CompleteIsWhole

LEMMA DiscoverFilesIInv ==
  ASSUME IInv, NEW w \in AfterCheck, DiscoverFiles(w)
  PROVE  IInv'
<1>1. continued' \in Continued /\ continued'.type # "TRANSFER_DATA"
  BY FileCountType DEF DiscoverFiles, Continued, ContinuedTypes
<1>2. reply' \in Reply /\ reply'.kind # "data"
  BY SilenceType DEF DiscoverFiles, Reply, Codes
<1> QED BY <1>1, <1>2, OtherIInv DEF DiscoverFiles

LEMMA NothingForFilesIInv ==
  ASSUME IInv, NEW w \in AfterCheck, NothingForFiles(w)
  PROVE  IInv'
<1>1. continued' \in Continued /\ continued'.type # "TRANSFER_DATA"
  BY DEF NothingForFiles, IInv, TypeOK, NotContinued, Continued, ContinuedTypes
<1> QED BY <1>1, SilenceType, OtherIInv DEF NothingForFiles

LEMMA ConnectIInv ==
  ASSUME IInv, Connect
  PROVE  IInv'
<1>1. continued' \in Continued /\ continued'.type # "TRANSFER_DATA"
  BY DEF Connect, NotContinued, Continued, ContinuedTypes
<1> QED BY <1>1, SilenceType, OtherIInv DEF Connect, AfterCheck

-------------------------------------------------------------------------------
(* Theorems *)

\* The invariant is inductive: every reachable state satisfies it.
THEOREM Invariance == Spec => []IInv
<1>1. IInv /\ [Next]_vars => IInv'
  <2> SUFFICES ASSUME IInv, [Next]_vars PROVE IInv'
    OBVIOUS
  <2>1. CASE Connect
    BY <2>1, ConnectIInv
  <2>2. ASSUME NEW w \in AfterCheck, Process(w) PROVE IInv'
    <3>1. ASSUME NEW req \in InitRequest, TransferInit(req, w) PROVE IInv'
      BY <3>1, TransferInitIInv
    <3>2. ASSUME NEW m \in DataMessage, TransferData(m, w) PROVE IInv'
      BY <3>2, TransferDataIInv
    <3>3. ASSUME NEW m \in Notification, TransferDataNotification(m, w) PROVE IInv'
      BY <3>3, TransferDataNotificationIInv
    <3>4. CASE ContinueTransfer(w)
      BY <3>4, ContinueTransferIInv
    <3>5. CASE DiscoverFiles(w)
      BY <3>5, DiscoverFilesIInv
    <3>6. CASE NothingForFiles(w)
      BY <3>6, NothingForFilesIInv
    <3> QED BY <2>2, <3>1, <3>2, <3>3, <3>4, <3>5, <3>6 DEF Process
  <2>3. CASE UNCHANGED vars
    BY <2>3
    DEF vars, IInv, TypeOK, OpenHasRate, WriteStaysInInit, ContinuationSound,
        CounterIsWindow, FlowControl, WindowNumbering, CompleteIsQuiet,
        StraightShape, Contiguous, CompleteIsWhole
  <2> QED BY <2>1, <2>2, <2>3 DEF Next
<1> QED BY <1>1, InitIInv, PTL DEF Spec

\* The transfer structure, the continued transaction and the replies always have
\* the types of the C structures, and their counters stay within 32 bits.
THEOREM TypeCorrect == Spec => []TypeOK
<1>1. IInv => TypeOK
  BY DEF IInv
<1> QED BY <1>1, Invariance, PTL

\* Whatever clients send and whenever they connect, the stack streams on its own
\* only for a read in progress, within the window it announced.
THEOREM StreamingIsSound == Spec => []ContinuationSound
<1>1. IInv => ContinuationSound
  BY DEF IInv
<1> QED BY <1>1, Invariance, PTL

\* Neither side is ever sent more data messages in a row than the ack rate.
THEOREM FlowIsControlled == Spec => []FlowControl
<1>1. IInv => FlowControl
  BY DEF IInv
<1> QED BY <1>1, Invariance, PTL

\* The data messages of a window are numbered without a gap, however wide the
\* counters are.
THEOREM WindowsAreNumbered == Spec => []WindowNumbering
<1>1. IInv => WindowNumbering
  BY DEF IInv
<1> QED BY <1>1, Invariance, PTL

\* A finished transfer never streams on and never times out.
THEOREM CompleteStaysQuiet == Spec => []CompleteIsQuiet
<1>1. IInv => CompleteIsQuiet
  BY DEF IInv
<1> QED BY <1>1, Invariance, PTL

\* A transfer that went without mishap is one contiguous piece of the file.
THEOREM TransferIsContiguous == Spec => []Contiguous
<1>1. IInv => Contiguous
  BY DEF IInv
<1> QED BY <1>1, Invariance, PTL

\* A transfer that went without mishap is announced complete only when it is whole.
THEOREM TransferIsWhole == Spec => []CompleteIsWhole
<1>1. IInv => CompleteIsWhole
  BY DEF IInv
<1> QED BY <1>1, Invariance, PTL

===============================================================================
