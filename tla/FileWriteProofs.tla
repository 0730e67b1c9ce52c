----------------------------- MODULE FileWriteProofs ----------------------------
(***************************************************************************)
(* A file written over lost prompts and lost notifications, of any length, *)
(* in packets and windows of any size: types are kept, nothing outside the *)
(* piece that was opened is touched, and the transfer implements FileCopy: *)
(* what is in place is not damaged again, and a client that is told its    *)
(* transfer is complete has got the file in place.                         *)
(*                                                                         *)
(* The argument for the piece: the place the device writes at is never     *)
(* ahead of the message on its way, which lies within the piece.           *)
(*                                                                         *)
(* The argument for FileCopy: either nothing was overwritten so far and    *)
(* the counters of the two sides agree, with everything before the         *)
(* device's offset in place (InStep); or the count of bytes stays behind   *)
(* what the client has sent and never reaches the length (LeftBehind).  In *)
(* both cases nothing from the device's offset on is in place (Pristine),  *)
(* which is where the device writes.                                       *)
(***************************************************************************)
EXTENDS FileWrite, WellFoundedInduction, TLAPS

Proved == INSTANCE FileServiceProofs WITH
  Access <- [f \in {0} |-> "READ_WRITE"], TransferIds <- Attempts,
  Offsets <- {From}, Lengths <- {Length}, AckRates <- {Rate}, Timed <- {TRUE},
  DefaultRate <- 10,
  Numbers <- 0..(Word - 1), FilesPerReply <- 4

-------------------------------------------------------------------------------
(* The two instances of the file service are one *)

LEMMA ProvedConstants ==
  Proved!ConstantsAssumption /\ Proved!AccessAssumption /\ Proved!FilesAssumption
<1>1. Proved!ConstantsAssumption
  BY ServiceAssumption
<1>2. Proved!AccessAssumption
  BY ServiceAssumption DEF Files!AccessLevels, Proved!AccessLevels
<1>3. Proved!FilesAssumption
  BY ServiceAssumption DEF Files!IsFiniteSet, Proved!IsFiniteSet
<1> QED
  BY <1>1, <1>2, <1>3

LEMMA SameInputs ==
  /\ Files!InitRequest = Proved!InitRequest
  /\ Files!DataMessage = Proved!DataMessage
  /\ Files!AfterCheck = Proved!AfterCheck
  BY DEF Files!InitRequest, Proved!InitRequest, Files!DataMessage, Proved!DataMessage,
         Files!AfterCheck, Proved!AfterCheck

LEMMA SameType == Proved!IInv => Files!TypeOK
  BY DEF Proved!IInv, Proved!TypeOK, Files!TypeOK, Files!Transfer, Proved!Transfer,
         Files!States, Proved!States, Files!Uint32, Proved!Uint32, Files!Continued,
         Proved!Continued, Files!ContinuedTypes, Proved!ContinuedTypes, Files!Reply,
         Proved!Reply, Files!Codes, Proved!Codes, Files!History, Proved!History

LEMMA SameInit == Files!Init => Proved!Init
  BY DEF Files!Init, Proved!Init, Files!Cleared, Proved!Cleared, Files!NotContinued,
         Proved!NotContinued, Files!Silence, Proved!Silence

LEMMA SameNothing ==
  ASSUME NEW w, Files!NothingForFiles(w)
  PROVE  Proved!NothingForFiles(w)
  BY DEF Files!NothingForFiles, Proved!NothingForFiles, Files!NotContinued,
         Proved!NotContinued, Files!Silence, Proved!Silence, Files!PromptsAreTaken,
         Proved!PromptsAreTaken

LEMMA SameTransferInit ==
  ASSUME NEW w, NEW req, Files!TransferInit(req, w)
  PROVE  Proved!TransferInit(req, w)
  BY DEF Files!TransferInit, Proved!TransferInit, Files!PromptsAreTaken,
         Proved!PromptsAreTaken, Files!NoSuchFile, Proved!NoSuchFile, Files!Refused,
         Proved!Refused, Files!Opened, Proved!Opened, Files!Cleared, Proved!Cleared,
         Files!Failure, Proved!Failure, Files!Silence, Proved!Silence, Files!AckRate,
         Proved!AckRate, Files!NotContinued, Proved!NotContinued

LEMMA SameTransferData ==
  ASSUME NEW w, NEW m, Files!TransferData(m, w)
  PROVE  Proved!TransferData(m, w)
  BY DEF Files!TransferData, Proved!TransferData, Files!PromptsAreTaken,
         Proved!PromptsAreTaken, Files!NotReceiving, Proved!NotReceiving,
         Files!Receiving, Proved!Receiving, Files!WriteFails, Proved!WriteFails,
         Files!Writable, Proved!Writable, Files!Plus, Proved!Plus, Files!Expected,
         Proved!Expected, Files!Received, Proved!Received, Files!Whole, Proved!Whole,
         Files!OutOfSequence, Proved!OutOfSequence, Files!InSequence,
         Proved!InSequence, Files!WriteCompletes, Proved!WriteCompletes,
         Files!Unacknowledged, Proved!Unacknowledged, Files!Acknowledged,
         Proved!Acknowledged, Files!Failure, Proved!Failure, Files!Silence,
         Proved!Silence, Files!NotContinued, Proved!NotContinued

-------------------------------------------------------------------------------
(* The inductive invariant *)

Pending(what) == prompt # None /\ prompt.what = what

\* The client's counters, by the phase it is in.
ClientSound ==
  /\ client.phase = "opening" => client.sent = 0 /\ client.number = 0
  /\ client.phase = "sending" => client.sent < Length /\ client.number < Rate

\* A prompt that opens an attempt finds everything as the client left it to be.
InitSound ==
  Pending("init") =>
    /\ client.phase \in {"ended", "opening"} /\ client.sent = 0 /\ client.number = 0
    /\ \A p \in Positions : file[p] = None
    /\ \A i \in DOMAIN inbox : inbox[i].transfer_id # client.attempt
    /\ prompt.body.read_write = 1

\* A data message on its way is the last one sent.
DataSound ==
  Pending("data") =>
    /\ client.phase # "opening"
    /\ prompt.at >= From /\ prompt.at + prompt.body.size = From + client.sent
    /\ prompt.body.size > 0

\* Whatever the device has begun, it is this piece of the file.
DeviceSound ==
  /\ xfer.state \in {"INVALID", "INIT"}
  /\ xfer.state = "INVALID" =>
       /\ client.phase \in {"ended", "opening"}
       /\ client.phase = "opening" => Pending("init")
       /\ ~Pending("data")
  /\ xfer.state = "INIT" =>
       /\ xfer.file_id = 0 /\ xfer.read_write = 1 /\ xfer.transfer_length = Length
       /\ PreferredRate = 0 => xfer.messages_per_ack = Rate

\* The device is never ahead of the client.
Behind ==
  xfer.state = "INIT" /\ ~Pending("init") =>
    /\ xfer.request_offset >= From
    /\ xfer.request_offset <= IF Pending("data") THEN prompt.at ELSE From + client.sent

Sound == ClientSound /\ InitSound /\ DataSound /\ DeviceSound /\ Behind

\* An acknowledgement of the attempt.
IsAck(i) == inbox[i].kind = "notification" /\ inbox[i].transfer_id = client.attempt

\* The variables of this module have their types.
OwnTypes ==
  /\ file \in [Positions -> Positions \cup {None}]
  /\ prompt \in Prompt \cup {None}
  /\ inbox \in Seq(Files!Reply) /\ Len(inbox) <= MaxInbox
  /\ client \in Client
  /\ lost \in BOOLEAN

IInv == Proved!IInv /\ OwnTypes /\ OutsideUntouched /\ Sound

-------------------------------------------------------------------------------
(* Facts about the constants, the client and messages *)

LEMMA Constants ==
  /\ Word \in Nat /\ Packet \in 1..(Word - 1) /\ Rate \in 1..(Word - 1)
  /\ From \in Nat /\ Length \in Nat /\ Length > 0 /\ From + Length < Word
  /\ MaxInbox \in Nat /\ MaxInbox > 0
  /\ PreferredRate \in 0..(Word - 1)
  BY ServiceAssumption, RegionAssumption DEF Files!ConstantsAssumption

LEMMA ServiceStays ==
  ASSUME Proved!IInv, UNCHANGED service
  PROVE  Proved!IInv'
  BY DEF service, Proved!IInv, Proved!TypeOK, Proved!OpenHasRate, Proved!WriteStaysInInit,
     Proved!ContinuationSound, Proved!CounterIsWindow, Proved!FlowControl,
     Proved!WindowNumbering, Proved!CompleteIsQuiet, Proved!StraightShape,
     Proved!Contiguous, Proved!CompleteIsWhole

LEMMA ClientFields ==
  ASSUME OwnTypes
  PROVE  /\ client.phase \in Phases /\ client.attempt \in Attempts
         /\ client.sent \in 0..Length /\ client.number \in 0..Rate
  BY DEF OwnTypes, Client

LEMMA SizeFacts ==
  ASSUME OwnTypes, client.sent < Length
  PROVE  Size \in 1..Packet /\ client.sent + Size \in 1..Length
  BY ClientFields, Constants DEF Size

\* What is in the buffer, by its kind.
LEMMA PromptFields ==
  ASSUME NEW p \in Prompt
  PROVE  /\ p.what \in {"init", "data"}
         /\ p.what = "init" =>
              /\ p.body \in Files!InitRequest
              /\ p.body.file_id = 0 /\ p.body.request_offset = From
              /\ p.body.transfer_length = Length /\ p.body.messages_per_ack = Rate
         /\ p.what = "data" =>
              /\ p.body \in Files!DataMessage /\ p.at \in 0..(Word - 1)
              /\ p.body.size \in 0..Packet /\ p.body.number \in 0..(Word - 1)
  BY DEF Prompt, Files!InitRequest, Files!DataMessage, Positions

-------------------------------------------------------------------------------
(* Steps of the client *)

LEMMA InitIInv == Init => IInv
<1> SUFFICES ASSUME Init PROVE IInv
  OBVIOUS
<1>1. Proved!IInv
  BY SameInit, Proved!InitIInv, ProvedConstants DEF Init
<1>2. OwnTypes
  <2>1. file \in [Positions -> Positions \cup {None}]
    BY DEF Init
  <2>2. inbox \in Seq(Files!Reply) /\ Len(inbox) <= MaxInbox
    BY Constants DEF Init
  <2>3. client \in Client
    BY Constants DEF Init, Client, Phases, Attempts
  <2> QED
    BY <2>1, <2>2, <2>3 DEF Init, OwnTypes
<1>3. OutsideUntouched
  BY DEF Init, OutsideUntouched
<1>4. xfer.state = "INVALID"
  BY DEF Init, Files!Init, Files!Cleared
<1>5. client.phase = "ended"
  BY DEF Init
<1>6. Sound
  BY <1>4, <1>5
  DEF Init, Sound, ClientSound, InitSound, DataSound, DeviceSound, Behind, Pending
<1> QED
  BY <1>1, <1>2, <1>3, <1>6 DEF IInv

LEMMA StartIInv ==
  ASSUME IInv, Start
  PROVE  IInv'
<1>1. PICK a \in Attempts \ {inbox[i].transfer_id : i \in DOMAIN inbox} :
        client' = [phase |-> "opening", attempt |-> a, sent |-> 0, number |-> 0]
  BY DEF Start
<1>2. PICK p : p = prompt'
  OBVIOUS
<1>3. p = [what |-> "init", at |-> None,
           body |-> [file_id |-> 0, read_write |-> 1, request_offset |-> From,
                     transfer_length |-> Length, transfer_id |-> a,
                     messages_per_ack |-> Rate, timed |-> TRUE]]
  BY <1>1, <1>2 DEF Start
<1>4. p \in Prompt
  BY <1>3 DEF Prompt, Files!InitRequest
<1>5. Proved!IInv'
  BY ServiceStays DEF IInv, Start
<1>6. client' \in Client
  BY <1>1, Constants DEF Client, Phases
<1>7. file' = [q \in Positions |-> None] /\ inbox' = inbox /\ lost' = FALSE /\ xfer' = xfer
  BY DEF Start, service
<1>8. OwnTypes'
  BY <1>2, <1>4, <1>6, <1>7 DEF IInv, OwnTypes
<1>9. OutsideUntouched'
  BY <1>7 DEF OutsideUntouched
<1>10. Sound'
  <2>1. client'.phase = "opening" /\ client'.sent = 0 /\ client'.number = 0
        /\ client'.attempt = a
    BY <1>1
  <2>2. ClientSound' /\ DeviceSound' /\ DataSound' /\ Behind'
    <3>1. prompt'.what = "init"
      BY <1>2, <1>3
    <3>2. prompt' # None => Pending("init")'
      BY <3>1 DEF Pending
    <3>3. ~Pending("data")'
      BY <3>1 DEF Pending
    <3>4. prompt' # None
      BY <1>2, <1>4, NoneAssumption
    <3> QED
      BY <1>7, <2>1, <3>2, <3>3, <3>4
      DEF IInv, Sound, ClientSound, DataSound, DeviceSound, Behind
  <2>3. InitSound'
    BY <1>1, <1>2, <1>3, <1>7, <2>1 DEF InitSound
  <2> QED
    BY <2>2, <2>3 DEF Sound
<1> QED
  BY <1>5, <1>8, <1>9, <1>10 DEF IInv

LEMMA SendIInv ==
  ASSUME IInv, Send
  PROVE  IInv'
<1>1. client.sent < Length /\ client.number < Rate /\ ~Pending("init") /\ xfer.state = "INIT"
  BY DEF IInv, Sound, ClientSound, InitSound, DeviceSound, Send
<1>2. Size \in 1..Packet /\ client.sent + Size \in 1..Length
  BY <1>1, SizeFacts DEF IInv
<1>3. PICK s \in Nat : s = Size /\ s > 0 /\ s <= Packet /\ client.sent + s <= Length
  BY <1>2, Constants
<1>4. PICK p : p = prompt'
  OBVIOUS
<1>5. p = [what |-> "data", at |-> From + client.sent,
           body |-> [transfer_id |-> client.attempt, number |-> client.number + 1, size |-> s]]
  BY <1>3, <1>4 DEF Send
<1>6. /\ client.phase \in Phases /\ client.attempt \in Attempts
      /\ client.sent \in 0..Length /\ client.number \in 0..Rate
  BY ClientFields DEF IInv
<1>7. p \in Prompt
  <2>1. p.at \in Positions
    BY <1>3, <1>5, <1>6, Constants DEF Positions
  <2>2. p.body \in Files!DataMessage
    BY <1>1, <1>3, <1>5, <1>6, Constants DEF Files!DataMessage
  <2> QED
    BY <1>5, <2>1, <2>2 DEF Prompt
<1>8. Proved!IInv'
  BY ServiceStays DEF IInv, Send
<1>9. PICK g : g = IF client.number + 1 = Rate \/ client.sent + s = Length
                   THEN "waiting" ELSE "sending"
  OBVIOUS
<1>10. client' = [client EXCEPT !.sent = @ + s, !.number = @ + 1, !.phase = g]
  BY <1>3, <1>9 DEF Send
<1>11. client' = [phase |-> g, attempt |-> client.attempt, sent |-> client.sent + s,
                  number |-> client.number + 1]
  BY <1>10 DEF IInv, OwnTypes, Client
<1>12. client' \in Client
  <2>1. client.sent + s \in 0..Length /\ client.number + 1 \in 0..Rate
    BY <1>1, <1>3, <1>6, Constants
  <2>2. g \in Phases
    BY <1>9 DEF Phases
  <2> QED
    BY <1>6, <1>11, <2>1, <2>2 DEF Client
<1>13. file' = file /\ inbox' = inbox /\ xfer' = xfer /\ lost' \in BOOLEAN
  BY DEF Send, service, IInv, OwnTypes
<1>14. OwnTypes'
  BY <1>4, <1>7, <1>12, <1>13 DEF IInv, OwnTypes
<1>15. OutsideUntouched'
  BY <1>13 DEF IInv, OutsideUntouched
<1>16. Sound'
  <2>1. /\ prompt' # None /\ prompt'.what = "data" /\ prompt'.at = From + client.sent
        /\ prompt'.body.size = s
    BY <1>4, <1>5, <1>7, NoneAssumption
  <2>2. Pending("data")' /\ ~Pending("init")'
    BY <2>1 DEF Pending
  <2>3. ClientSound'
    BY <1>1, <1>3, <1>6, <1>9, <1>11, Constants DEF ClientSound
  <2>4. InitSound' /\ DeviceSound'
    BY <1>1, <1>13, <2>2 DEF InitSound, DeviceSound, IInv, Sound
  <2>5. DataSound'
    BY <1>3, <1>6, <1>9, <1>11, <2>1, <2>2, Constants DEF DataSound
  <2>6. Behind'
    <3>1. xfer.request_offset >= From /\ xfer.request_offset <= From + client.sent
      <4>1. CASE Pending("data")
        <5>1. prompt \in Prompt /\ prompt.what = "data"
          BY <4>1 DEF Pending, IInv, OwnTypes
        <5>2. prompt.at \in 0..(Word - 1) /\ prompt.body.size \in 0..Packet
          BY <5>1, PromptFields
        <5>3. xfer.request_offset \in Nat
          BY SameType, Constants DEF IInv, Files!TypeOK, Files!Transfer, Files!Uint32
        <5> QED
          BY <1>1, <1>6, <4>1, <5>2, <5>3, Constants DEF IInv, Sound, Behind, DataSound
      <4>2. CASE ~Pending("data")
        BY <1>1, <4>2 DEF IInv, Sound, Behind
      <4> QED
        BY <4>1, <4>2
    <3> QED
      BY <1>13, <2>1, <2>2, <3>1 DEF Behind
  <2> QED
    BY <2>3, <2>4, <2>5, <2>6 DEF Sound
<1> QED
  BY <1>8, <1>14, <1>15, <1>16 DEF IInv

\* What is left of the notifications once the first was looked at.
LEMMA TailFacts ==
  ASSUME OwnTypes, inbox # <<>>
  PROVE  /\ Tail(inbox) \in Seq(Files!Reply) /\ Len(Tail(inbox)) <= MaxInbox
         /\ 1 \in DOMAIN inbox /\ Head(inbox) = inbox[1]
         /\ \A i \in DOMAIN Tail(inbox) :
              i \in Nat /\ i + 1 \in DOMAIN inbox /\ Tail(inbox)[i] = inbox[i + 1]
<1>1. inbox \in Seq(Files!Reply) /\ Len(inbox) <= MaxInbox
  BY DEF OwnTypes
<1>2. DOMAIN inbox = 1..Len(inbox) /\ Len(inbox) \in Nat /\ Len(inbox) > 0
  BY <1>1
<1>3. Len(Tail(inbox)) = Len(inbox) - 1 /\ Tail(inbox) \in Seq(Files!Reply)
  BY <1>1
<1>4. DOMAIN Tail(inbox) = 1..(Len(inbox) - 1)
  BY <1>2, <1>3
<1>5. \A i \in 1..(Len(inbox) - 1) : Tail(inbox)[i] = inbox[i + 1]
  BY <1>1
<1> QED
  BY <1>1, <1>2, <1>3, <1>4, <1>5, Constants

\* What the client may do at a notification.
LEMMA ReceiveCases ==
  ASSUME IInv, Receive
  PROVE  \/ client' = client
         \/ /\ client.phase \notin {"ended", "done"}
            /\ client' = [client EXCEPT !.phase = "ended"]
         \/ /\ client.phase = "opening" /\ ~Pending("init")
            /\ client' = [client EXCEPT !.phase = "sending"]
         \/ /\ client.phase = "waiting" /\ IsAck(1) /\ inbox[1].is_complete
            /\ client' = [client EXCEPT !.phase = "done"]
         \/ /\ client.phase = "waiting" /\ IsAck(1) /\ ~inbox[1].is_complete
            /\ client.sent # Length
            /\ client' = [client EXCEPT !.phase = "sending", !.number = 0]
<1>1. inbox # <<>> /\ 1 \in DOMAIN inbox /\ Head(inbox) = inbox[1]
  BY TailFacts DEF IInv, Receive
<1>2. inbox[1].transfer_id = client.attempt => ~Pending("init")
  BY <1>1 DEF IInv, Sound, InitSound
<1> QED
  BY <1>1, <1>2 DEF Receive, After, IsAck

LEMMA ReceiveIInv ==
  ASSUME IInv, Receive
  PROVE  IInv'
<1>1. /\ client.phase \in Phases /\ client.attempt \in Attempts
      /\ client.sent \in 0..Length /\ client.number \in 0..Rate
  BY ClientFields DEF IInv
<1>2. Proved!IInv'
  BY ServiceStays DEF IInv, Receive
<1>3. file' = file /\ xfer' = xfer /\ lost' = lost /\ prompt' = prompt /\ inbox' = Tail(inbox)
  BY DEF Receive, service
<1>4. /\ inbox' \in Seq(Files!Reply) /\ Len(inbox') <= MaxInbox
      /\ \A i \in DOMAIN inbox' : i + 1 \in DOMAIN inbox /\ inbox'[i] = inbox[i + 1]
  BY <1>3, TailFacts DEF IInv, Receive
<1>5. client' \in Client
  <2>1. client \in Client
    BY DEF IInv, OwnTypes
  <2>2. \A ph \in Phases : [client EXCEPT !.phase = ph] \in Client
    BY <2>1 DEF Client
  <2>3. [client EXCEPT !.phase = "sending", !.number = 0] \in Client
    <3>1. PICK c : c = [client EXCEPT !.phase = "sending", !.number = 0]
      OBVIOUS
    <3>2. c = [phase |-> "sending", attempt |-> client.attempt, sent |-> client.sent,
               number |-> 0]
      BY <2>1, <3>1 DEF Client
    <3>3. c \in Client
      BY <1>1, <3>2, Constants DEF Client, Phases
    <3> QED
      BY <3>1, <3>3
  <2>4. {"ended", "sending", "done"} \subseteq Phases
    BY DEF Phases
  <2> QED
    BY <2>1, <2>2, <2>3, <2>4, ReceiveCases
<1>6. OwnTypes'
  BY <1>3, <1>4, <1>5 DEF IInv, OwnTypes
<1>7. OutsideUntouched'
  BY <1>3 DEF IInv, OutsideUntouched
<1>8. client'.sent = client.sent /\ client'.attempt = client.attempt
  BY ReceiveCases DEF IInv, OwnTypes, Client
<1>9. \/ client' = client
      \/ client'.phase = "ended" /\ client'.number = client.number
      \/ client.phase = "opening" /\ ~Pending("init") /\ client'.phase = "sending"
         /\ client'.number = client.number
      \/ client.phase = "waiting" /\ client'.phase = "done"
      \/ client.phase = "waiting" /\ client.sent # Length /\ client'.phase = "sending"
         /\ client'.number = 0
  BY ReceiveCases DEF IInv, OwnTypes, Client
<1>10. ClientSound'
  BY <1>1, <1>8, <1>9, Constants DEF ClientSound, IInv, Sound
<1>11. InitSound'
  <2>1. \A i \in DOMAIN inbox : Pending("init") => inbox[i].transfer_id # client.attempt
    BY DEF IInv, Sound, InitSound
  <2>2. Pending("init")' => Pending("init")
    BY <1>3 DEF Pending
  <2> QED
    BY <1>3, <1>4, <1>8, <1>9, <2>1, <2>2 DEF InitSound, IInv, Sound
<1>12. DataSound'
  BY <1>3, <1>8, <1>9 DEF DataSound, Pending, IInv, Sound
<1>13. DeviceSound'
  BY <1>3, <1>9 DEF DeviceSound, Pending, IInv, Sound
<1>14. Behind'
  BY <1>3, <1>8 DEF Behind, Pending, IInv, Sound
<1> QED
  BY <1>2, <1>6, <1>7, <1>10, <1>11, <1>12, <1>13, <1>14 DEF IInv, Sound

LEMMA GiveUpIInv ==
  ASSUME IInv, GiveUp
  PROVE  IInv'
<1>1. Proved!IInv'
  BY ServiceStays DEF IInv, GiveUp
<1>2. file' = file /\ xfer' = xfer /\ lost' = lost /\ prompt' = prompt /\ inbox' = inbox
  BY DEF GiveUp, service
<1>3. client' = [client EXCEPT !.phase = "ended"]
  BY DEF GiveUp
<1>4. client' \in Client
  BY <1>3 DEF IInv, OwnTypes, Client, Phases
<1>5. /\ client'.phase = "ended" /\ client'.sent = client.sent
      /\ client'.attempt = client.attempt /\ client'.number = client.number
  BY <1>3 DEF IInv, OwnTypes, Client
<1>6. OwnTypes' /\ OutsideUntouched'
  BY <1>2, <1>4 DEF IInv, OwnTypes, OutsideUntouched
<1>7. Sound'
  BY <1>2, <1>5
  DEF Sound, ClientSound, InitSound, DataSound, DeviceSound, Behind, Pending, IInv
<1> QED
  BY <1>1, <1>6, <1>7 DEF IInv

-------------------------------------------------------------------------------
(* Steps of the device *)

LEMMA IdleIInv ==
  ASSUME IInv, Idle
  PROVE  IInv'
<1>1. PICK w \in Files!AfterCheck : Files!NothingForFiles(w)
  BY DEF Idle
<1>2. Proved!IInv'
  <2>1. w \in Proved!AfterCheck /\ Proved!NothingForFiles(w)
    BY <1>1, SameInputs, SameNothing
  <2> QED
    BY <2>1, Proved!NothingForFilesIInv, ProvedConstants DEF IInv
<1>3. xfer' = xfer /\ file' = file /\ prompt' = prompt /\ inbox' = inbox /\ client' = client
      /\ lost' = lost
  BY <1>1 DEF Idle, Files!NothingForFiles
<1>4. OwnTypes' /\ OutsideUntouched'
  BY <1>3 DEF IInv, OwnTypes, OutsideUntouched
<1>5. Sound'
  BY <1>3 DEF Sound, ClientSound, InitSound, DataSound, DeviceSound, Behind, Pending, IInv
<1> QED
  BY <1>2, <1>4, <1>5 DEF IInv

\* At most one notification is added, the last.
LEMMA NotifyFacts ==
  ASSUME OwnTypes, reply' \in Files!Reply, Notify
  PROVE  /\ inbox' \in Seq(Files!Reply) /\ Len(inbox') <= MaxInbox
         /\ lost' \in BOOLEAN
         /\ \/ inbox' = inbox
            \/ /\ reply'.kind # "none"
               /\ \A i \in DOMAIN inbox' :
                    \/ i \in DOMAIN inbox /\ inbox'[i] = inbox[i]
                    \/ i = Len(inbox) + 1 /\ inbox'[i] = reply'
<1>1. inbox \in Seq(Files!Reply) /\ Len(inbox) <= MaxInbox /\ lost \in BOOLEAN
  BY DEF OwnTypes
<1>2. CASE inbox' = inbox
  BY <1>1, <1>2 DEF Notify
<1>3. CASE /\ reply'.kind # "none" /\ Len(inbox) < MaxInbox
           /\ inbox' = Append(inbox, reply') /\ lost' = lost
  <2>1. PICK r \in Files!Reply : r = reply'
    OBVIOUS
  <2>2. inbox' = Append(inbox, r)
    BY <1>3, <2>1
  <2>3. inbox' \in Seq(Files!Reply) /\ Len(inbox') = Len(inbox) + 1
    BY <1>1, <2>2
  <2>4. \A i \in DOMAIN inbox' :
          \/ i \in DOMAIN inbox /\ inbox'[i] = inbox[i]
          \/ i = Len(inbox) + 1 /\ inbox'[i] = r
    BY <1>1, <2>2
  <2> QED
    BY <1>1, <1>3, <2>1, <2>3, <2>4, Constants
<1> QED
  BY <1>2, <1>3 DEF Notify

\* The service keeps its own invariant, whatever the prompt.
LEMMA ServiceStep ==
  ASSUME IInv, Process
  PROVE  Proved!IInv' /\ reply' \in Files!Reply
<1>1. PICK w \in Files!AfterCheck : TakePrompt(w)
  BY DEF Process
<1>2. prompt \in Prompt
  BY DEF Process, IInv, OwnTypes
<1>3. Proved!IInv'
  <2>1. w \in Proved!AfterCheck
    BY SameInputs
  <2>2. CASE prompt.what = "init" /\ Files!TransferInit(prompt.body, w)
    <3>1. prompt.body \in Proved!InitRequest
      BY <1>2, <2>2, PromptFields, SameInputs
    <3>2. Proved!TransferInit(prompt.body, w)
      BY <2>2, SameTransferInit
    <3> QED
      BY <2>1, <3>1, <3>2, Proved!TransferInitIInv, ProvedConstants DEF IInv
  <2>3. CASE prompt.what = "data" /\ Files!TransferData(prompt.body, w)
    <3>1. prompt.body \in Proved!DataMessage
      BY <1>2, <2>3, PromptFields, SameInputs
    <3>2. Proved!TransferData(prompt.body, w)
      BY <2>3, SameTransferData
    <3> QED
      BY <2>1, <3>1, <3>2, Proved!TransferDataIInv, ProvedConstants DEF IInv
  <2> QED
    BY <1>1, <2>2, <2>3 DEF TakePrompt
<1>4. Proved!IInv' => Files!TypeOK'
  BY SameType, PTL
<1> QED
  BY <1>3, <1>4 DEF Files!TypeOK

\* What the service does with a prompt that opens a transfer.
LEMMA InitStep ==
  ASSUME IInv, Process, prompt.what = "init"
  PROVE  /\ xfer'.state = "INIT" /\ xfer'.file_id = 0
         /\ xfer'.read_write = prompt.body.read_write
         /\ xfer'.transfer_length = Length /\ xfer'.request_offset = From
         /\ xfer'.bytes_transfered = 0 /\ xfer'.message_number = 0
         /\ PreferredRate = 0 => xfer'.messages_per_ack = Rate /\ xfer'.messages_until_ack = Rate
         /\ reply'.kind = "init" /\ ~reply'.is_complete
         /\ file' = file /\ client' = client /\ prompt' = None
<1>1. PICK w \in Files!AfterCheck : Files!TransferInit(prompt.body, w) /\ file' = file
  BY DEF Process, TakePrompt
<1>2. prompt \in Prompt
  BY DEF Process, IInv, OwnTypes
<1>3. /\ prompt.body.file_id = 0 /\ prompt.body.request_offset = From
      /\ prompt.body.transfer_length = Length /\ prompt.body.messages_per_ack = Rate
  BY <1>2, PromptFields
<1>4. Files!Opened(prompt.body)
  BY <1>1, <1>3 DEF Files!TransferInit, Files!NoSuchFile, Files!Refused
<1>5. PreferredRate = 0 => Files!AckRate(prompt.body) = Rate
  BY <1>3, Constants DEF Files!AckRate
<1>6. reply'.kind = "init" /\ ~reply'.is_complete
  BY <1>4 DEF Files!Opened, Files!Silence
<1> QED
  BY <1>1, <1>3, <1>4, <1>5, <1>6 DEF Files!Opened, Process

\* The counters are words of the device.
LEMMA CounterTypes ==
  ASSUME IInv
  PROVE  /\ xfer.request_offset \in 0..(Word - 1) /\ xfer.bytes_transfered \in 0..(Word - 1)
         /\ xfer.message_number \in 0..(Word - 1)
         /\ xfer.messages_until_ack \in 0..(Word - 1)
         /\ xfer \in Files!Transfer
<1>1. xfer \in Files!Transfer
  BY SameType DEF IInv, Files!TypeOK
<1> QED
  BY <1>1, Constants DEF Files!Transfer, Files!Uint32

\* Below the width of a word addition is addition.
LEMMA PlusIsPlus ==
  ASSUME NEW a \in Nat, NEW b \in Nat, a + b < Word
  PROVE  Files!Plus(a, b) = a + b
  BY Constants DEF Files!Plus

LEMMA ReceivedFields ==
  ASSUME IInv, NEW m
  PROVE  LET r == Files!Received(m)
         IN  /\ r.state = xfer.state /\ r.file_id = xfer.file_id
             /\ r.read_write = xfer.read_write
             /\ r.transfer_length = xfer.transfer_length
             /\ r.messages_per_ack = xfer.messages_per_ack
             /\ r.request_offset = Files!Plus(xfer.request_offset, m.size)
             /\ r.bytes_transfered = Files!Plus(xfer.bytes_transfered, m.size)
             /\ r.message_number = Files!Expected
             /\ r.messages_until_ack = IF xfer.messages_until_ack = 0 THEN 0
                                       ELSE xfer.messages_until_ack - 1
<1>1. xfer \in Files!Transfer
  BY CounterTypes
<1>2. PICK r : r = Files!Received(m)
  OBVIOUS
<1>3. r = [xfer EXCEPT !.bytes_transfered = Files!Plus(@, m.size),
                       !.messages_until_ack = IF @ = 0 THEN 0 ELSE @ - 1,
                       !.message_number = Files!Plus(@, 1),
                       !.request_offset = Files!Plus(@, m.size)]
  BY <1>2 DEF Files!Received
<1> QED
  BY <1>1, <1>2, <1>3 DEF Files!Transfer, Files!Expected

\* What every data message does: its bytes are counted, and written at the
\* offset of the device if at all.
LEMMA DataStep ==
  ASSUME IInv, Process, prompt.what = "data", NEW m, m = prompt.body
  PROVE  /\ xfer.state = "INIT" /\ xfer'.state = "INIT"
         /\ xfer'.file_id = xfer.file_id /\ xfer'.read_write = xfer.read_write
         /\ xfer'.transfer_length = xfer.transfer_length
         /\ xfer'.messages_per_ack = xfer.messages_per_ack
         /\ \/ xfer'.request_offset = xfer.request_offset
            \/ xfer'.request_offset = Files!Plus(xfer.request_offset, m.size)
         /\ xfer'.bytes_transfered = Files!Plus(xfer.bytes_transfered, m.size)
         /\ reply'.is_complete => xfer'.bytes_transfered >= Length
         /\ file' = file \/ file' = Written(xfer.request_offset, m, prompt.at)
         /\ client' = client /\ prompt' = None
<1> DEFINE Moved ==
      /\ xfer'.state = xfer.state
      /\ xfer'.file_id = xfer.file_id /\ xfer'.read_write = xfer.read_write
      /\ xfer'.transfer_length = xfer.transfer_length
      /\ xfer'.messages_per_ack = xfer.messages_per_ack
      /\ \/ xfer'.request_offset = xfer.request_offset
         \/ xfer'.request_offset = Files!Plus(xfer.request_offset, m.size)
      /\ xfer'.bytes_transfered = Files!Plus(xfer.bytes_transfered, m.size)
      /\ reply'.is_complete => xfer'.bytes_transfered >= xfer.transfer_length
<1>1. Pending("data") /\ client' = client /\ prompt' = None
  BY DEF Process, Pending
<1>2. xfer.state = "INIT" /\ xfer.transfer_length = Length
  BY <1>1 DEF IInv, Sound, DeviceSound
<1>3. PICK w \in Files!AfterCheck : /\ Files!TransferData(m, w)
                                    /\ file' = IF reply'.kind = "error" THEN file
                                               ELSE Written(xfer.request_offset, m, prompt.at)
  BY DEF Process, TakePrompt
<1>4. xfer \in Files!Transfer
  BY CounterTypes
<1>5. PICK r : r = Files!Received(m)
  OBVIOUS
<1>6. /\ r.state = xfer.state /\ r.file_id = xfer.file_id
      /\ r.read_write = xfer.read_write
      /\ r.transfer_length = xfer.transfer_length
      /\ r.messages_per_ack = xfer.messages_per_ack
      /\ r.request_offset = Files!Plus(xfer.request_offset, m.size)
      /\ r.bytes_transfered = Files!Plus(xfer.bytes_transfered, m.size)
  BY <1>5, ReceivedFields
<1>7. DOMAIN r = DOMAIN xfer
  BY <1>5 DEF Files!Received
<1>8. ASSUME Files!WriteFails(m) PROVE Moved
  BY <1>4, <1>8 DEF Files!WriteFails, Files!Failure, Files!Silence, Files!Transfer
<1>9. ASSUME Files!OutOfSequence(m, w) PROVE Moved
  <2>1. xfer' = [r EXCEPT !.request_offset = xfer.request_offset, !.message_number = m.number]
    BY <1>5, <1>9 DEF Files!OutOfSequence
  <2>2. ~reply'.is_complete
    BY <1>9 DEF Files!OutOfSequence, Files!Silence
  <2> QED
    BY <1>4, <1>6, <1>7, <2>1, <2>2 DEF Files!Transfer
<1>10. ASSUME Files!WriteCompletes(m) PROVE Moved
  BY <1>5, <1>6, <1>10 DEF Files!WriteCompletes, Files!Whole
<1>11. ASSUME Files!Unacknowledged(m, w) PROVE Moved
  BY <1>5, <1>6, <1>11 DEF Files!Unacknowledged, Files!Silence
<1>12. ASSUME Files!Acknowledged(m, w) PROVE Moved
  <2>1. xfer' = [r EXCEPT !.messages_until_ack = xfer.messages_per_ack, !.message_number = 0]
    BY <1>5, <1>12 DEF Files!Acknowledged
  <2>2. ~reply'.is_complete
    BY <1>12 DEF Files!Acknowledged, Files!Silence
  <2> QED
    BY <1>4, <1>6, <1>7, <2>1, <2>2 DEF Files!Transfer
<1>13. ~Files!NotReceiving
  BY <1>2 DEF Files!NotReceiving, Files!Receiving
<1>14. Moved
  BY <1>3, <1>8, <1>9, <1>10, <1>11, <1>12, <1>13 DEF Files!TransferData
<1> QED
  BY <1>1, <1>2, <1>3, <1>14

\* A data message on its way lies within the piece, ahead of the device.
LEMMA DataPlace ==
  ASSUME IInv, Pending("data"), NEW m, m = prompt.body
  PROVE  /\ m.size \in Nat /\ m.size > 0 /\ prompt.at \in Nat
         /\ prompt.at >= From /\ prompt.at + m.size = From + client.sent
         /\ client.sent \in 0..Length
         /\ xfer.request_offset \in Nat
         /\ xfer.request_offset >= From /\ xfer.request_offset <= prompt.at
         /\ Files!Plus(xfer.request_offset, m.size) = xfer.request_offset + m.size
         /\ xfer.request_offset + m.size <= From + client.sent
         /\ client.phase # "opening"
<1>1. prompt \in Prompt /\ prompt.what = "data"
  BY DEF Pending, IInv, OwnTypes
<1>2. m.size \in Nat /\ prompt.at \in Nat
  BY <1>1, PromptFields, Constants
<1>3. m.size > 0 /\ prompt.at >= From /\ prompt.at + m.size = From + client.sent
      /\ client.phase # "opening"
  BY DEF IInv, Sound, DataSound
<1>4. client.sent \in 0..Length
  BY ClientFields DEF IInv
<1>5. xfer.request_offset \in Nat
  BY CounterTypes, Constants
<1>6. ~Pending("init")
  BY DEF Pending
<1>7. xfer.request_offset >= From /\ xfer.request_offset <= prompt.at
  BY <1>6 DEF IInv, Sound, Behind, DeviceSound
<1>8. xfer.request_offset + m.size <= From + client.sent
  BY <1>2, <1>3, <1>4, <1>5, <1>7, Constants
<1>9. xfer.request_offset + m.size < Word
  BY <1>2, <1>4, <1>5, <1>8, Constants
<1>10. Files!Plus(xfer.request_offset, m.size) = xfer.request_offset + m.size
  BY <1>2, <1>5, <1>9, PlusIsPlus
<1> QED
  BY <1>2, <1>3, <1>4, <1>5, <1>7, <1>8, <1>10

\* What is written stays within the piece.
LEMMA WrittenStaysInside ==
  ASSUME IInv, Pending("data"), NEW m, m = prompt.body,
         NEW f, f = Written(xfer.request_offset, m, prompt.at)
  PROVE  /\ f \in [Positions -> Positions \cup {None}]
         /\ \A p \in Positions \ Region : f[p] = None
<1>1. /\ m.size \in Nat /\ prompt.at \in Nat /\ prompt.at + m.size = From + client.sent
      /\ prompt.at >= From
      /\ client.sent \in 0..Length
      /\ xfer.request_offset \in Nat /\ xfer.request_offset >= From
      /\ xfer.request_offset + m.size <= From + client.sent
  BY DataPlace
<1>2. f = [p \in Positions |->
             IF p >= xfer.request_offset /\ p < xfer.request_offset + m.size
             THEN prompt.at + (p - xfer.request_offset) ELSE file[p]]
  BY DEF Written
<1>3. file \in [Positions -> Positions \cup {None}] /\ \A p \in Positions \ Region : file[p] = None
  BY DEF IInv, OwnTypes, OutsideUntouched
<1>4. ASSUME NEW p \in Positions,
             p >= xfer.request_offset, p < xfer.request_offset + m.size
      PROVE  p \in Region /\ prompt.at + (p - xfer.request_offset) \in Positions
  <2>1. p \in Nat
    BY Constants DEF Positions
  <2> QED
    BY <1>1, <1>4, <2>1, Constants DEF Positions, Region
<1>5. \A p \in Positions : f[p] \in Positions \cup {None}
  BY <1>2, <1>3, <1>4
<1>6. \A p \in Positions \ Region : f[p] = None
  BY <1>2, <1>3, <1>4
<1> QED
  BY <1>2, <1>5, <1>6

LEMMA ProcessIInv ==
  ASSUME IInv, Process
  PROVE  IInv'
<1>1. Proved!IInv' /\ reply' \in Files!Reply
  BY ServiceStep
<1>2. prompt \in Prompt /\ prompt # None /\ prompt' = None /\ client' = client
  BY DEF Process, IInv, OwnTypes
<1>3. prompt.what \in {"init", "data"}
  BY <1>2, PromptFields
<1>4. inbox' \in Seq(Files!Reply) /\ Len(inbox') <= MaxInbox /\ lost' \in BOOLEAN
  <2>1. Notify
    BY DEF Process, TakePrompt
  <2> QED
    BY <1>1, <2>1, NotifyFacts DEF IInv
<1>5. file' \in [Positions -> Positions \cup {None}] /\ OutsideUntouched'
  <2>1. CASE file' = file
    BY <2>1 DEF IInv, OwnTypes, OutsideUntouched
  <2>2. CASE prompt.what = "data" /\ file' # file
    <3>1. PICK m : m = prompt.body
      OBVIOUS
    <3>2. Pending("data")
      BY <1>2, <2>2 DEF Pending
    <3>3. file' = Written(xfer.request_offset, m, prompt.at)
      BY <2>2, <3>1, DataStep
    <3>4. PICK f : f = file'
      OBVIOUS
    <3>5. f \in [Positions -> Positions \cup {None}] /\ \A p \in Positions \ Region : f[p] = None
      BY <3>1, <3>2, <3>3, <3>4, WrittenStaysInside
    <3> QED
      BY <3>4, <3>5 DEF OutsideUntouched
  <2> QED
    BY <1>3, <2>1, <2>2, InitStep
<1>6. OwnTypes'
  BY <1>2, <1>4, <1>5 DEF IInv, OwnTypes
<1>7. ~Pending("init")' /\ ~Pending("data")'
  BY <1>2 DEF Pending
<1>8. ClientSound' /\ InitSound' /\ DataSound'
  BY <1>2, <1>7 DEF ClientSound, InitSound, DataSound, IInv, Sound
<1>9. CASE prompt.what = "init"
  <2>1. Pending("init")
    BY <1>2, <1>9 DEF Pending
  <2>2. prompt.body.read_write = 1 /\ client.sent = 0
    BY <2>1 DEF IInv, Sound, InitSound
  <2>3. /\ xfer'.state = "INIT" /\ xfer'.file_id = 0 /\ xfer'.read_write = 1
        /\ xfer'.transfer_length = Length /\ xfer'.request_offset = From
        /\ PreferredRate = 0 => xfer'.messages_per_ack = Rate
    BY <1>9, <2>2, InitStep
  <2>4. DeviceSound' /\ Behind'
    BY <1>2, <1>7, <2>2, <2>3, Constants DEF DeviceSound, Behind
  <2> QED
    BY <1>1, <1>5, <1>6, <1>8, <2>4 DEF IInv, Sound
<1>10. CASE prompt.what = "data"
  <2>1. Pending("data")
    BY <1>2, <1>10 DEF Pending
  <2>2. PICK m : m = prompt.body
    OBVIOUS
  <2>3. /\ xfer.state = "INIT" /\ xfer'.state = "INIT"
        /\ xfer'.file_id = xfer.file_id /\ xfer'.read_write = xfer.read_write
        /\ xfer'.transfer_length = xfer.transfer_length
        /\ xfer'.messages_per_ack = xfer.messages_per_ack
        /\ \/ xfer'.request_offset = xfer.request_offset
           \/ xfer'.request_offset = Files!Plus(xfer.request_offset, m.size)
    BY <1>10, <2>2, DataStep
  <2>4. /\ m.size \in Nat
        /\ xfer.request_offset \in Nat /\ xfer.request_offset >= From
        /\ Files!Plus(xfer.request_offset, m.size) = xfer.request_offset + m.size
        /\ xfer.request_offset + m.size <= From + client.sent
        /\ client.sent \in Nat
    BY <2>1, <2>2, DataPlace
  <2>5. DeviceSound'
    BY <1>7, <2>1, <2>3 DEF DeviceSound, IInv, Sound
  <2>6. xfer'.request_offset >= From /\ xfer'.request_offset <= From + client.sent
    BY <2>3, <2>4, Constants
  <2>7. Behind'
    BY <1>2, <1>7, <2>6 DEF Behind
  <2> QED
    BY <1>1, <1>5, <1>6, <1>8, <2>5, <2>7 DEF IInv, Sound
<1> QED
  BY <1>3, <1>9, <1>10

-------------------------------------------------------------------------------
(* The first theorems *)

LEMMA NextIInv ==
  ASSUME IInv, [Next]_vars
  PROVE  IInv'
<1>1. CASE UNCHANGED vars
  <2>1. Proved!IInv'
    BY <1>1, ServiceStays DEF IInv, vars
  <2> QED
    BY <1>1, <2>1
    DEF vars, service, IInv, OwnTypes, OutsideUntouched, Sound, ClientSound, InitSound,
        DataSound, DeviceSound, Behind, Pending
<1>2. CASE Next
  BY <1>2, StartIInv, SendIInv, ReceiveIInv, GiveUpIInv, ProcessIInv, IdleIInv DEF Next
<1> QED
  BY <1>1, <1>2

LEMMA Invariance == Spec => []IInv
  BY InitIInv, NextIInv, PTL DEF Spec

\* Type correctness: whatever is lost on the way, the client, the buffer, the
\* notifications and the file keep their shapes, and the counters of the file
\* service their widths.
THEOREM TypeCorrect == Spec => []TypeOK
<1>1. IInv => TypeOK
  BY SameType DEF IInv, OwnTypes, TypeOK
<1> QED
  BY <1>1, Invariance, PTL

\* The bounds of a transfer hold whatever is lost on the way, whatever write
\* fails and whichever rate the application prefers: nothing outside the piece of
\* the file that was opened is written, because the device is never ahead of the
\* client.
THEOREM NothingElseTouched == Spec => []OutsideUntouched
<1>1. IInv => OutsideUntouched
  BY DEF IInv
<1> QED
  BY <1>1, Invariance, PTL

-------------------------------------------------------------------------------
(* The transfer implements FileCopy                                            *)

\* No write fails, and the application does not override the client's rate.
Faultless == ~FaultyApp /\ PreferredRate = 0

\* The device is at work on the client's attempt, which may have ended.
Live == xfer.state = "INIT" /\ ~Pending("init")

UnderWay == IF Pending("data") THEN prompt.body.size ELSE 0

\* A data message of the attempt was overwritten.
Gap == xfer.bytes_transfered + UnderWay < client.sent

\* The message on its way is the one the device expects.
Expecting ==
  /\ prompt.body.number = client.number /\ client.number > 0
  /\ prompt.at = xfer.request_offset
  /\ xfer.message_number = client.number - 1
  /\ xfer.messages_until_ack = Rate - (client.number - 1)

\* The device waits for the next message of the window, has acknowledged the
\* window, or has got everything.
Idling ==
  \/ xfer.bytes_transfered = Length
  \/ /\ client.number < Rate
     /\ xfer.message_number = client.number
     /\ xfer.messages_until_ack = Rate - client.number
  \/ /\ client.phase \in {"waiting", "ended"} /\ client.number = Rate
     /\ xfer.message_number = 0
     /\ xfer.messages_until_ack = Rate

\* As long as nothing was overwritten the two sides agree.
InStep ==
  /\ xfer.bytes_transfered + UnderWay = client.sent
  /\ xfer.request_offset = From + xfer.bytes_transfered
  /\ \A p \in From..(xfer.request_offset - 1) : InPlace(p)
  /\ IF Pending("data") THEN Expecting ELSE Idling
  /\ \A i \in DOMAIN inbox : IsAck(i) =>
       /\ client.phase \in {"waiting", "ended"} /\ ~Pending("data")
       /\ \A j \in DOMAIN inbox : IsAck(j) => i = j
       /\ IF inbox[i].is_complete THEN xfer.bytes_transfered = Length
          ELSE /\ xfer.bytes_transfered < Length
               /\ client.number = Rate
               /\ xfer.message_number = 0
               /\ xfer.messages_until_ack = Rate

\* Once something was, the transfer does not come to its end.
LeftBehind ==
  /\ Gap
  /\ xfer.request_offset <= From + xfer.bytes_transfered
  /\ \A i \in DOMAIN inbox : IsAck(i) => ~inbox[i].is_complete

Agreed == Live => InStep \/ LeftBehind

\* Nothing from where the device is on is in place.
Pristine == Live => \A p \in Region : p >= xfer.request_offset => ~InPlace(p)

Finished ==
  client.phase = "done" => prompt = None /\ \A p \in Region : InPlace(p)

Inv == IInv /\ Agreed /\ Pristine /\ Finished

-------------------------------------------------------------------------------
(* The two sides agree, or the count stays behind *)

\* With writes that succeed, a message in sequence is written where the device
\* is, and is the last, one of a window, or the window's last.
LEMMA InSequenceStep ==
  ASSUME IInv, Faultless, Process, prompt.what = "data", NEW m, m = prompt.body,
         m.number = Files!Expected
  PROVE  /\ xfer'.request_offset = Files!Plus(xfer.request_offset, m.size)
         /\ file' = Written(xfer.request_offset, m, prompt.at)
         /\ LET left == IF xfer.messages_until_ack = 0 THEN 0
                        ELSE xfer.messages_until_ack - 1
            IN  \/ /\ xfer'.bytes_transfered >= Length
                   /\ reply'.is_complete
                \/ /\ ~(xfer'.bytes_transfered >= Length)
                   /\ left # 0 /\ xfer'.messages_until_ack = left
                   /\ xfer'.message_number = Files!Expected
                   /\ reply'.kind = "none"
                \/ /\ ~(xfer'.bytes_transfered >= Length)
                   /\ left = 0 /\ xfer'.messages_until_ack = xfer.messages_per_ack
                   /\ xfer'.message_number = 0
                   /\ ~reply'.is_complete
<1>1. Pending("data")
  BY DEF Process, Pending
<1>2. xfer.state = "INIT" /\ xfer.transfer_length = Length /\ xfer.file_id = 0
  BY <1>1 DEF IInv, Sound, DeviceSound
<1>3. PICK w \in Files!AfterCheck : /\ Files!TransferData(m, w)
                                    /\ file' = IF reply'.kind = "error" THEN file
                                               ELSE Written(xfer.request_offset, m, prompt.at)
  BY DEF Process, TakePrompt
<1>4. xfer \in Files!Transfer
  BY CounterTypes
<1>5. PICK r : r = Files!Received(m)
  OBVIOUS
<1>6. /\ r.transfer_length = xfer.transfer_length
      /\ r.request_offset = Files!Plus(xfer.request_offset, m.size)
      /\ r.bytes_transfered = Files!Plus(xfer.bytes_transfered, m.size)
      /\ r.message_number = Files!Expected
      /\ r.messages_until_ack = IF xfer.messages_until_ack = 0 THEN 0
                                ELSE xfer.messages_until_ack - 1
  BY <1>5, ReceivedFields
<1>7. DOMAIN r = DOMAIN xfer
  BY <1>5 DEF Files!Received
<1>8. ~Files!NotReceiving /\ ~Files!WriteFails(m) /\ ~Files!OutOfSequence(m, w)
  BY <1>2
  DEF Faultless, Files!NotReceiving, Files!Receiving, Files!WriteFails, Files!Writable,
      Files!OutOfSequence
<1>9. CASE Files!WriteCompletes(m)
  BY <1>2, <1>3, <1>5, <1>6, <1>9 DEF Files!WriteCompletes, Files!Whole, Files!Silence
<1>10. CASE Files!Unacknowledged(m, w)
  BY <1>2, <1>3, <1>5, <1>6, <1>10 DEF Files!Unacknowledged, Files!Whole, Files!Silence
<1>11. CASE Files!Acknowledged(m, w)
  <2>1. xfer' = [r EXCEPT !.messages_until_ack = xfer.messages_per_ack, !.message_number = 0]
    BY <1>5, <1>11 DEF Files!Acknowledged
  <2>2. /\ xfer'.request_offset = r.request_offset
        /\ xfer'.bytes_transfered = r.bytes_transfered
        /\ xfer'.messages_until_ack = xfer.messages_per_ack /\ xfer'.message_number = 0
    BY <1>4, <1>7, <2>1 DEF Files!Transfer
  <2>3. /\ ~reply'.is_complete /\ reply'.kind = "notification"
        /\ ~(r.bytes_transfered >= r.transfer_length) /\ r.messages_until_ack = 0
    BY <1>5, <1>11 DEF Files!Acknowledged, Files!Whole, Files!Silence
  <2> QED
    BY <1>2, <1>3, <1>6, <2>2, <2>3
<1> QED
  BY <1>3, <1>8, <1>9, <1>10, <1>11 DEF Files!TransferData

\* A message that is sent: into an empty buffer, or over the one before it.
LEMMA SendInv ==
  ASSUME Inv, Send
  PROVE  Agreed' /\ Pristine' /\ Finished'
<1>1. /\ client.phase = "sending" /\ client.sent < Length /\ client.number < Rate
      /\ ~Pending("init")
  BY DEF Inv, IInv, Sound, ClientSound, InitSound, Send
<1>2. PICK s \in Nat : s = Size /\ s > 0 /\ client.sent + s <= Length
  BY <1>1, SizeFacts, Constants DEF Inv, IInv
<1>3. /\ client.sent \in Nat /\ client.number \in Nat
      /\ xfer.bytes_transfered \in Nat /\ xfer.request_offset \in Nat
      /\ xfer.message_number \in Nat /\ xfer.messages_until_ack \in Nat
  BY ClientFields, CounterTypes, Constants DEF Inv, IInv
<1>4. PICK p : p = prompt'
  OBVIOUS
<1>5. p = [what |-> "data", at |-> From + client.sent,
           body |-> [transfer_id |-> client.attempt, number |-> client.number + 1, size |-> s]]
  BY <1>2, <1>4 DEF Send
<1>6. /\ prompt' # None /\ prompt'.what = "data" /\ prompt'.at = From + client.sent
      /\ prompt'.body.size = s /\ prompt'.body.number = client.number + 1
  <2>1. p \in Prompt \cup {None}
    BY <1>4, SendIInv DEF Inv, IInv, OwnTypes
  <2>2. p # None
    <3>1. p.body \in Files!DataMessage /\ p.at \in Positions
      <4>1. Size \in 1..Packet
        BY <1>1, SizeFacts DEF Inv, IInv
      <4>2. client.attempt \in Attempts
        BY ClientFields DEF Inv, IInv
      <4> QED
        BY <1>1, <1>2, <1>3, <1>5, <4>1, <4>2, Constants DEF Files!DataMessage, Positions
    <3> QED
      BY <1>5, <3>1, NoneAssumption DEF Prompt
  <2> QED
    BY <1>4, <1>5, <2>2
<1>7. Pending("data")' /\ UnderWay' = s
  BY <1>6 DEF Pending, UnderWay
<1>8. file' = file /\ inbox' = inbox /\ xfer' = xfer
  BY DEF Send, service
<1>9. /\ client'.sent = client.sent + s /\ client'.number = client.number + 1
      /\ client'.attempt = client.attempt /\ client'.phase \in {"waiting", "sending"}
  <2>1. PICK g : g = IF client.number + 1 = Rate \/ client.sent + s = Length
                     THEN "waiting" ELSE "sending"
    OBVIOUS
  <2>2. client' = [client EXCEPT !.sent = @ + s, !.number = @ + 1, !.phase = g]
    BY <1>2, <2>1 DEF Send
  <2> QED
    BY <2>1, <2>2 DEF Inv, IInv, OwnTypes, Client
<1>10. Live /\ Pristine'
  <2>1. xfer.state = "INIT"
    BY <1>1 DEF Inv, IInv, Sound, DeviceSound
  <2>2. Live
    BY <1>1, <2>1 DEF Live
  <2> QED
    BY <1>8, <2>2 DEF Inv, Pristine, InPlace
<1>11. CASE InStep
  <2>1. \A i \in DOMAIN inbox : ~IsAck(i)
    BY <1>1, <1>11 DEF InStep
  <2>2. \A i \in DOMAIN inbox' : ~IsAck(i)'
    BY <1>8, <1>9, <2>1 DEF IsAck
  <2>3. CASE Pending("data")
    <3>1. prompt.body.size \in Nat /\ prompt.body.size > 0
      <4>1. prompt \in Prompt /\ prompt.what = "data"
        BY <2>3 DEF Pending, Inv, IInv, OwnTypes
      <4> QED
        BY <2>3, <4>1, PromptFields, Constants DEF Inv, IInv, Sound, DataSound
    <3>2. xfer.bytes_transfered < client.sent
      BY <1>3, <1>11, <2>3, <3>1 DEF InStep, UnderWay
    <3>3. Gap'
      BY <1>2, <1>3, <1>7, <1>8, <1>9, <3>2 DEF Gap
    <3>4. xfer'.request_offset <= From + xfer'.bytes_transfered
      BY <1>3, <1>8, <1>11, Constants DEF InStep
    <3> QED
      BY <1>9, <1>10, <2>2, <3>3, <3>4 DEF LeftBehind, Agreed, Finished
  <2>4. CASE ~Pending("data")
    <3>1. xfer.bytes_transfered = client.sent /\ xfer.request_offset = From + client.sent
      BY <1>3, <1>11, <2>4 DEF InStep, UnderWay
    <3>2. Idling
      BY <1>11, <2>4 DEF InStep
    <3>3. xfer.message_number = client.number /\ xfer.messages_until_ack = Rate - client.number
      BY <1>1, <3>1, <3>2, <1>3 DEF Idling
    <3>4. Expecting'
      BY <1>3, <1>6, <1>8, <1>9, <3>1, <3>3 DEF Expecting
    <3>5. xfer'.bytes_transfered + UnderWay' = client'.sent
      BY <1>7, <1>8, <1>9, <3>1
    <3>6. /\ xfer'.request_offset = From + xfer'.bytes_transfered
          /\ \A q \in From..(xfer'.request_offset - 1) : InPlace(q)'
      BY <1>8, <1>11 DEF InStep, InPlace
    <3>7. InStep'
      BY <1>7, <2>2, <3>4, <3>5, <3>6 DEF InStep
    <3> QED
      BY <1>9, <1>10, <3>7 DEF Agreed, Finished
  <2> QED
    BY <2>3, <2>4
<1>12. CASE LeftBehind
  <2>1. UnderWay \in Nat
    <3>1. CASE Pending("data")
      <4>1. prompt \in Prompt /\ prompt.what = "data"
        BY <3>1 DEF Pending, Inv, IInv, OwnTypes
      <4> QED
        BY <3>1, <4>1, PromptFields, Constants DEF UnderWay
    <3> QED
      BY <3>1 DEF UnderWay
  <2>2. Gap'
    BY <1>2, <1>3, <1>7, <1>8, <1>9, <1>12, <2>1 DEF LeftBehind, Gap
  <2>3. \A i \in DOMAIN inbox' : IsAck(i)' => ~inbox'[i].is_complete
    BY <1>8, <1>9, <1>12 DEF LeftBehind, IsAck
  <2>4. xfer'.request_offset <= From + xfer'.bytes_transfered
    BY <1>8, <1>12 DEF LeftBehind
  <2> QED
    BY <1>9, <1>10, <2>2, <2>3, <2>4 DEF LeftBehind, Agreed, Finished
<1> QED
  BY <1>10, <1>11, <1>12 DEF Inv, Agreed

LEMMA ReceiveInv ==
  ASSUME Inv, Receive
  PROVE  Agreed' /\ Pristine' /\ Finished'
<1>1. file' = file /\ xfer' = xfer /\ prompt' = prompt /\ inbox' = Tail(inbox)
  BY DEF Receive, service
<1>2. /\ 1 \in DOMAIN inbox
      /\ \A i \in DOMAIN inbox' : i \in Nat /\ i + 1 \in DOMAIN inbox /\ inbox'[i] = inbox[i + 1]
  BY <1>1, TailFacts DEF Inv, IInv, Receive
<1>3. client'.sent = client.sent /\ client'.attempt = client.attempt
  BY ReceiveCases DEF Inv, IInv, OwnTypes, Client
<1>4. \A i \in DOMAIN inbox' : IsAck(i)' => IsAck(i + 1)
  BY <1>2, <1>3 DEF IsAck
<1>5. UnderWay' = UnderWay /\ (Gap' <=> Gap)
  BY <1>1, <1>3 DEF UnderWay, Gap, Pending
<1>6. \A what \in {"init", "data"} : Pending(what)' <=> Pending(what)
  BY <1>1 DEF Pending
<1>7. LeftBehind => LeftBehind'
  BY <1>1, <1>2, <1>4, <1>5 DEF LeftBehind
<1>8. /\ client.sent \in Nat /\ client.number \in Nat
      /\ xfer.bytes_transfered \in Nat /\ xfer.request_offset \in Nat
  BY ClientFields, CounterTypes, Constants DEF Inv, IInv
<1> DEFINE Steady == /\ xfer.bytes_transfered + UnderWay = client.sent
                     /\ xfer.request_offset = From + xfer.bytes_transfered
                     /\ \A p \in From..(xfer.request_offset - 1) : InPlace(p)
<1>9. Steady => /\ xfer'.bytes_transfered + UnderWay' = client'.sent
                /\ xfer'.request_offset = From + xfer'.bytes_transfered
                /\ \A p \in From..(xfer'.request_offset - 1) : InPlace(p)'
  BY <1>1, <1>3, <1>5 DEF InPlace
<1>10. InStep => Steady
  BY DEF InStep
<1>11. (Live' <=> Live) /\ Pristine'
  BY <1>1, <1>6 DEF Inv, Pristine, Live, InPlace
\* A client that goes on as it was, or that ends, leaves the device alone.
<1>12. ASSUME /\ client'.number = client.number
              /\ client'.phase = client.phase \/ client'.phase = "ended"
       PROVE  Agreed' /\ Pristine' /\ Finished'
  <2>1. ASSUME InStep PROVE InStep'
    <3>1. IF Pending("data")' THEN Expecting' ELSE Idling'
      BY <1>1, <1>3, <1>6, <1>12, <2>1 DEF InStep, Expecting, Idling
    <3>2. ASSUME NEW i \in DOMAIN inbox', IsAck(i)'
          PROVE  /\ client'.phase \in {"waiting", "ended"} /\ ~Pending("data")'
                 /\ \A j \in DOMAIN inbox' : IsAck(j)' => i = j
                 /\ IF inbox'[i].is_complete THEN xfer'.bytes_transfered = Length
                    ELSE /\ xfer'.bytes_transfered < Length
                         /\ client'.number = Rate
                         /\ xfer'.message_number = 0
                         /\ xfer'.messages_until_ack = Rate
      <4>1. i \in Nat /\ i + 1 \in DOMAIN inbox /\ IsAck(i + 1) /\ inbox'[i] = inbox[i + 1]
        BY <1>2, <1>4, <3>2
      <4>2. \A j \in DOMAIN inbox' : IsAck(j)' => i = j
        <5>1. ASSUME NEW j \in DOMAIN inbox', IsAck(j)' PROVE i = j
          <6>1. j \in Nat /\ j + 1 \in DOMAIN inbox /\ IsAck(j + 1)
            BY <1>2, <1>4, <5>1
          <6>2. i + 1 = j + 1
            BY <2>1, <4>1, <6>1 DEF InStep
          <6> QED
            BY <4>1, <6>1, <6>2
        <5> QED
          BY <5>1
      <4> QED
        BY <1>1, <1>6, <1>12, <2>1, <4>1, <4>2 DEF InStep
    <3> QED
      BY <1>9, <1>10, <2>1, <3>1, <3>2 DEF InStep
  <2>2. Finished'
    BY <1>1, <1>12 DEF Inv, Finished, InPlace
  <2> QED
    BY <1>7, <1>11, <2>1, <2>2 DEF Inv, Agreed
<1>13. CASE client' = client
  BY <1>12, <1>13
<1>14. CASE client' = [client EXCEPT !.phase = "ended"]
  BY <1>12, <1>14 DEF Inv, IInv, OwnTypes, Client
<1>15. CASE /\ client.phase = "opening" /\ ~Pending("init")
            /\ client' = [client EXCEPT !.phase = "sending"]
  <2>1. client'.phase = "sending" /\ client'.number = client.number /\ client.number = 0
    BY <1>15 DEF Inv, IInv, OwnTypes, Client, Sound, ClientSound
  <2>2. ~Pending("data") /\ Rate > 0
    BY <1>15, Constants DEF Inv, IInv, Sound, DataSound
  <2>3. ASSUME InStep PROVE InStep'
    <3>1. \A i \in DOMAIN inbox : ~IsAck(i)
      BY <1>15, <2>3 DEF InStep
    <3>2. \A i \in DOMAIN inbox' : ~IsAck(i)'
      BY <1>2, <1>4, <3>1
    <3>3. Idling'
      BY <1>1, <1>15, <2>1, <2>2, <2>3 DEF InStep, Idling
    <3> QED
      BY <1>6, <1>9, <1>10, <2>2, <2>3, <3>2, <3>3 DEF InStep
  <2> QED
    BY <1>7, <1>11, <2>1, <2>3 DEF Inv, Agreed, Finished
<1>16. CASE /\ client.phase = "waiting" /\ IsAck(1) /\ inbox[1].is_complete
            /\ client' = [client EXCEPT !.phase = "done"]
  <2>1. client'.phase = "done"
    BY <1>16 DEF Inv, IInv, OwnTypes, Client
  <2>2. Live /\ ~Pending("init")
    BY <1>16 DEF Live, Inv, IInv, Sound, InitSound, DeviceSound
  <2>3. InStep
    BY <1>2, <1>16, <2>2 DEF Inv, Agreed, LeftBehind
  <2>4. ~Pending("data") /\ xfer.bytes_transfered = Length
    BY <1>2, <1>16, <2>3 DEF InStep
  <2>5. prompt = None
    <3>1. prompt \in Prompt \cup {None}
      BY DEF Inv, IInv, OwnTypes
    <3> QED
      BY <2>2, <2>4, <3>1, PromptFields DEF Pending
  <2>6. \A p \in Region : InPlace(p)
    <3>1. \A p \in From..(xfer.request_offset - 1) : InPlace(p)
      BY <2>3 DEF InStep
    <3>2. xfer.request_offset - 1 = From + Length - 1
      BY <2>3, <2>4, <1>8, Constants DEF InStep
    <3> QED
      BY <3>1, <3>2 DEF Region
  <2>7. Finished'
    BY <1>1, <2>5, <2>6 DEF Finished, InPlace
  <2>8. InStep'
    <3>1. \A i \in DOMAIN inbox' : ~IsAck(i)'
      <4>1. ASSUME NEW i \in DOMAIN inbox', IsAck(i)' PROVE FALSE
        <5>1. i \in Nat /\ i + 1 \in DOMAIN inbox /\ IsAck(i + 1)
          BY <1>2, <1>4, <4>1
        <5>2. i = 0
          BY <1>2, <1>16, <2>3, <5>1 DEF InStep
        <5>3. inbox' \in Seq(Files!Reply)
          BY ReceiveIInv DEF Inv, IInv, OwnTypes
        <5> QED
          BY <4>1, <5>2, <5>3
      <4> QED
        BY <4>1
    <3>2. Idling'
      BY <1>1, <2>4 DEF Idling
    <3> QED
      BY <1>6, <1>9, <1>10, <2>3, <2>4, <3>1, <3>2 DEF InStep
  <2> QED
    BY <1>11, <2>7, <2>8 DEF Agreed
<1>17. CASE /\ client.phase = "waiting" /\ IsAck(1) /\ ~inbox[1].is_complete
            /\ client.sent # Length
            /\ client' = [client EXCEPT !.phase = "sending", !.number = 0]
  <2>1. client'.phase = "sending" /\ client'.number = 0
    BY <1>17 DEF Inv, IInv, OwnTypes, Client
  <2>2. Rate > 0
    BY Constants
  <2>3. ASSUME InStep PROVE InStep'
    <3>1. /\ ~Pending("data") /\ xfer.message_number = 0 /\ xfer.messages_until_ack = Rate
          /\ \A j \in DOMAIN inbox : IsAck(j) => 1 = j
      BY <1>2, <1>17, <2>3 DEF InStep
    <3>2. \A i \in DOMAIN inbox' : ~IsAck(i)'
      <4>1. ASSUME NEW i \in DOMAIN inbox', IsAck(i)' PROVE FALSE
        <5>1. i \in Nat /\ i + 1 \in DOMAIN inbox /\ IsAck(i + 1)
          BY <1>2, <1>4, <4>1
        <5>2. i = 0
          BY <3>1, <5>1
        <5>3. inbox' \in Seq(Files!Reply)
          BY ReceiveIInv DEF Inv, IInv, OwnTypes
        <5> QED
          BY <4>1, <5>2, <5>3
      <4> QED
        BY <4>1
    <3>3. Idling'
      BY <1>1, <2>1, <2>2, <3>1, Constants DEF Idling
    <3> QED
      BY <1>6, <1>9, <1>10, <2>3, <3>1, <3>2, <3>3 DEF InStep
  <2> QED
    BY <1>7, <1>11, <2>1, <2>3 DEF Inv, Agreed, Finished
<1> QED
  BY <1>13, <1>14, <1>15, <1>16, <1>17, ReceiveCases DEF Inv

LEMMA GiveUpInv ==
  ASSUME Inv, GiveUp
  PROVE  Agreed' /\ Pristine' /\ Finished'
<1>1. client'.phase = "ended" /\ client'.sent = client.sent
      /\ client'.number = client.number /\ client'.attempt = client.attempt
  BY DEF GiveUp, Inv, IInv, OwnTypes, Client
<1>2. UNCHANGED <<file, prompt, inbox, xfer>>
  BY DEF GiveUp, service
<1>3. (Live' <=> Live) /\ Pristine' /\ Finished'
  BY <1>1, <1>2 DEF Inv, Pristine, Finished, Live, Pending, InPlace
<1>4. InStep => InStep'
  BY <1>1, <1>2 DEF InStep, UnderWay, Pending, Expecting, Idling, IsAck, InPlace
<1>5. LeftBehind => LeftBehind'
  BY <1>1, <1>2 DEF LeftBehind, Gap, UnderWay, Pending, IsAck
<1> QED
  BY <1>3, <1>4, <1>5 DEF Inv, Agreed

\* The prompt that opens an attempt brings the two sides in step.
LEMMA InitInv ==
  ASSUME Inv, Faultless, Process, prompt.what = "init"
  PROVE  Agreed' /\ Pristine' /\ Finished'
<1>1. Pending("init")
  BY DEF Process, Pending
<1>2. /\ client.phase \in {"ended", "opening"} /\ client.sent = 0 /\ client.number = 0
      /\ \A p \in Positions : file[p] = None
      /\ \A i \in DOMAIN inbox : inbox[i].transfer_id # client.attempt
  BY <1>1 DEF Inv, IInv, Sound, InitSound
<1>3. /\ xfer'.request_offset = From /\ xfer'.bytes_transfered = 0
      /\ xfer'.message_number = 0 /\ xfer'.messages_until_ack = Rate
      /\ reply'.kind = "init"
      /\ file' = file /\ client' = client /\ prompt' = None
  BY InitStep DEF Faultless, Inv
<1>4. \A i \in DOMAIN inbox' : ~IsAck(i)'
  <2>1. \/ inbox' = inbox
        \/ \A i \in DOMAIN inbox' : \/ i \in DOMAIN inbox /\ inbox'[i] = inbox[i]
                                    \/ i = Len(inbox) + 1 /\ inbox'[i] = reply'
    BY ServiceStep, NotifyFacts DEF Inv, IInv, Process, TakePrompt
  <2> QED
    BY <1>2, <1>3, <2>1 DEF IsAck
<1>5. ~Pending("data")' /\ UnderWay' = 0
  BY <1>3 DEF Pending, UnderWay
<1>6. Finished'
  BY <1>2, <1>3 DEF Finished
<1>7. InStep'
  <2>1. Idling'
    BY <1>2, <1>3, Constants DEF Idling
  <2>2. \A p \in From..(xfer'.request_offset - 1) : FALSE
    BY <1>3, Constants
  <2> QED
    BY <1>2, <1>3, <1>4, <1>5, <2>1, <2>2, Constants DEF InStep
<1>8. Pristine'
  <2>1. ASSUME NEW p \in Region PROVE file[p] # p
    <3>1. p \in Positions
      BY Constants DEF Region, Positions
    <3> QED
      BY <1>2, <3>1, NoneAssumption
  <2> QED
    BY <1>3, <2>1 DEF Pristine, InPlace
<1> QED
  BY <1>6, <1>7, <1>8 DEF Agreed

\* In step, the message on its way bears the number the device expects.
LEMMA ExpectedNumber ==
  ASSUME IInv, InStep, Pending("data")
  PROVE  prompt.body.number = Files!Expected
<1>1. /\ prompt.body.number = client.number /\ client.number > 0
      /\ xfer.message_number = client.number - 1
  BY DEF InStep, Expecting
<1>2. xfer.message_number \in Nat /\ client.number \in 0..Rate
  BY ClientFields, CounterTypes, Constants DEF IInv
<1>3. xfer.message_number + 1 = client.number /\ client.number < Word
  BY <1>1, <1>2, Constants
<1> QED
  BY <1>1, <1>2, <1>3, PlusIsPlus DEF Files!Expected

\* A data message, expected or not, is written where nothing is in place.
LEMMA DataKeeps ==
  ASSUME Inv, Faultless, Process, prompt.what = "data"
  PROVE  /\ Live
         /\ \A p \in Region : InPlace(p) => InPlace(p)'
<1>1. Pending("data")
  BY DEF Process, Pending
<1>2. PICK m : m = prompt.body
  OBVIOUS
<1>3. Live /\ (file' = file \/ file' = Written(xfer.request_offset, m, prompt.at))
  <2>1. ~Pending("init")
    BY <1>1 DEF Pending
  <2> QED
    BY <1>2, <2>1, DataStep DEF Inv, Live
<1>4. ASSUME NEW p \in Region, InPlace(p) PROVE InPlace(p)'
  <2>1. ~(p >= xfer.request_offset)
    BY <1>3, <1>4 DEF Inv, Pristine
  <2>2. p \in Positions
    BY Constants DEF Region, Positions
  <2>3. file'[p] = file[p]
    BY <1>3, <2>1, <2>2 DEF Written
  <2> QED
    BY <1>4, <2>3 DEF InPlace
<1> QED
  BY <1>3, <1>4

LEMMA Shifted ==
  ASSUME NEW a \in Nat, NEW o \in Nat, NEW p \in Nat, a + (p - o) = p
  PROVE  a = o
  OBVIOUS

LEMMA DataInv ==
  ASSUME Inv, Faultless, Process, prompt.what = "data"
  PROVE  Agreed' /\ Pristine' /\ Finished'
<1>1. Pending("data") /\ ~Pending("init") /\ client' = client /\ prompt' = None
  BY DEF Process, Pending
<1>2. ~Pending("data")' /\ ~Pending("init")' /\ UnderWay' = 0
  BY <1>1 DEF Pending, UnderWay
<1>3. PICK m : m = prompt.body
  OBVIOUS
<1>4. /\ m.size \in Nat /\ m.size > 0 /\ prompt.at \in Nat
      /\ client.sent \in 0..Length /\ client.sent \in Nat
      /\ xfer.request_offset \in Nat
      /\ Files!Plus(xfer.request_offset, m.size) = xfer.request_offset + m.size
      /\ prompt.at + m.size = From + client.sent
      /\ client.phase # "opening"
  BY <1>1, <1>3, DataPlace, Constants DEF Inv
<1>5. /\ xfer.bytes_transfered \in Nat /\ xfer.message_number \in Nat
      /\ xfer.messages_until_ack \in Nat /\ client.number \in 0..Rate
  BY ClientFields, CounterTypes, Constants DEF Inv, IInv
<1>6. UnderWay = m.size
  BY <1>1, <1>3 DEF UnderWay
<1>7. /\ xfer'.bytes_transfered = Files!Plus(xfer.bytes_transfered, m.size)
      /\ reply'.is_complete => xfer'.bytes_transfered >= Length
      /\ \/ xfer'.request_offset = xfer.request_offset
         \/ xfer'.request_offset = Files!Plus(xfer.request_offset, m.size)
      /\ file' = file \/ file' = Written(xfer.request_offset, m, prompt.at)
      /\ xfer.state = "INIT" /\ xfer.messages_per_ack = Rate
  <2>1. xfer.state = "INIT"
    BY <1>3, DataStep DEF Inv
  <2> QED
    BY <1>3, <2>1, DataStep DEF Inv, IInv, Sound, DeviceSound, Faultless
<1>8. \/ inbox' = inbox
      \/ /\ reply'.kind # "none"
         /\ \A i \in DOMAIN inbox' : \/ i \in DOMAIN inbox /\ inbox'[i] = inbox[i]
                                     \/ i = Len(inbox) + 1 /\ inbox'[i] = reply'
  BY ServiceStep, NotifyFacts DEF Inv, IInv, Process, TakePrompt
<1>9. Finished'
  <2>1. prompt # None
    BY DEF Process
  <2> QED
    BY <1>1, <2>1 DEF Inv, Finished
<1>10. ASSUME LeftBehind PROVE LeftBehind'
  <2>1. xfer.bytes_transfered + m.size < client.sent
    BY <1>6, <1>10 DEF LeftBehind, Gap
  <2>2. xfer'.bytes_transfered = xfer.bytes_transfered + m.size
    <3>1. xfer.bytes_transfered + m.size < Word
      BY <1>4, <1>5, <2>1, Constants
    <3> QED
      BY <1>4, <1>5, <1>7, <3>1, PlusIsPlus
  <2>3. Gap'
    BY <1>1, <1>2, <1>4, <1>5, <2>1, <2>2 DEF Gap
  <2>4. ~reply'.is_complete
    BY <1>4, <1>5, <1>7, <2>1, <2>2, Constants
  <2>5. \A i \in DOMAIN inbox' : IsAck(i)' => ~inbox'[i].is_complete
    BY <1>1, <1>8, <1>10, <2>4 DEF LeftBehind, IsAck
  <2>6. xfer'.request_offset <= From + xfer'.bytes_transfered
    BY <1>4, <1>5, <1>7, <1>10, <2>2, Constants DEF LeftBehind
  <2> QED
    BY <2>3, <2>5, <2>6 DEF LeftBehind
<1>11. ASSUME InStep, Live PROVE InStep'
  <2>1. Expecting
    BY <1>1, <1>11 DEF InStep
  <2>2. /\ m.number = client.number /\ client.number > 0
        /\ prompt.at = xfer.request_offset
        /\ xfer.message_number = client.number - 1
        /\ xfer.messages_until_ack = Rate - (client.number - 1)
    BY <1>3, <2>1 DEF Expecting
  <2>3. Files!Expected = client.number
    BY <1>1, <1>3, <1>11, <2>2, ExpectedNumber DEF Inv
  <2>4. xfer.bytes_transfered + m.size = client.sent
    BY <1>6, <1>11 DEF InStep
  <2>5. xfer'.bytes_transfered = client.sent
    <3>1. xfer.bytes_transfered + m.size < Word
      BY <1>4, <2>4, Constants
    <3> QED
      BY <1>4, <1>5, <1>7, <2>4, <3>1, PlusIsPlus
  <2>6. xfer.messages_until_ack # 0 /\ xfer.messages_until_ack - 1 = Rate - client.number
    BY <1>5, <2>2, Constants
  <2>7. /\ xfer'.request_offset = xfer.request_offset + m.size
        /\ file' = Written(xfer.request_offset, m, prompt.at)
        /\ \/ xfer'.bytes_transfered >= Length /\ reply'.is_complete
           \/ /\ ~(xfer'.bytes_transfered >= Length)
              /\ Rate - client.number # 0 /\ xfer'.messages_until_ack = Rate - client.number
              /\ xfer'.message_number = client.number
              /\ reply'.kind = "none"
           \/ /\ ~(xfer'.bytes_transfered >= Length)
              /\ Rate - client.number = 0 /\ xfer'.messages_until_ack = Rate
              /\ xfer'.message_number = 0
              /\ ~reply'.is_complete
    <3>1. m.number = Files!Expected
      BY <2>2, <2>3
    <3> QED
      BY <1>3, <1>4, <1>7, <2>3, <2>6, <3>1, InSequenceStep DEF Inv
  <2>8. xfer'.request_offset = From + xfer'.bytes_transfered
    BY <1>4, <1>5, <1>11, <2>4, <2>5, <2>7, Constants DEF InStep
  <2>9. ASSUME NEW p \in From..(xfer'.request_offset - 1) PROVE InPlace(p)'
    <3>1. p \in Nat /\ p \in Positions /\ p < xfer.request_offset + m.size
      <4>1. xfer'.request_offset <= From + Length
        BY <1>4, <2>5, <2>8, Constants
      <4> QED
        BY <1>4, <2>7, <4>1, Constants DEF Positions
    <3>2. file'[p] = IF p >= xfer.request_offset /\ p < xfer.request_offset + m.size
                     THEN prompt.at + (p - xfer.request_offset) ELSE file[p]
      BY <2>7, <3>1 DEF Written
    <3>3. CASE p >= xfer.request_offset
      BY <1>4, <2>2, <3>1, <3>2, <3>3 DEF InPlace
    <3>4. CASE p < xfer.request_offset
      <4>1. p \in From..(xfer.request_offset - 1)
        BY <1>4, <3>1, <3>4, Constants
      <4>2. file[p] = p
        BY <1>11, <4>1 DEF InStep, InPlace
      <4> QED
        BY <1>4, <3>1, <3>2, <3>4, <4>2 DEF InPlace
    <3> QED
      BY <1>4, <3>1, <3>3, <3>4
  \* The device speaks only when the client waits for it.
  <2>10. xfer'.bytes_transfered >= Length \/ Rate - client.number = 0
           => client.phase \in {"waiting", "ended"}
    <3>1. client.phase = "sending" => client.sent < Length /\ client.number < Rate
      BY DEF Inv, IInv, Sound, ClientSound
    <3>2. client.phase # "done" /\ client.phase \in Phases
      BY ClientFields DEF Inv, IInv, Finished, Process
    <3> QED
      BY <1>4, <1>5, <2>5, <3>1, <3>2, Constants DEF Phases
  <2>11. Idling'
    BY <1>1, <1>4, <1>5, <2>5, <2>7, <2>10, Constants DEF Idling
  <2>12. \A i \in DOMAIN inbox : ~IsAck(i)
    BY <1>1, <1>11 DEF InStep
  <2>13. ASSUME NEW i \in DOMAIN inbox', IsAck(i)'
         PROVE  i = Len(inbox) + 1 /\ inbox'[i] = reply' /\ reply'.kind = "notification"
    BY <1>1, <1>8, <2>12, <2>13 DEF IsAck
  <2>14. ASSUME NEW i \in DOMAIN inbox', IsAck(i)'
         PROVE  /\ client'.phase \in {"waiting", "ended"} /\ ~Pending("data")'
                /\ \A j \in DOMAIN inbox' : IsAck(j)' => i = j
                /\ IF inbox'[i].is_complete THEN xfer'.bytes_transfered = Length
                   ELSE /\ xfer'.bytes_transfered < Length
                        /\ client'.number = Rate
                        /\ xfer'.message_number = 0
                        /\ xfer'.messages_until_ack = Rate
    <3>1. inbox'[i] = reply' /\ reply'.kind # "none"
      BY <2>13, <2>14
    <3>2. \A j \in DOMAIN inbox' : IsAck(j)' => i = j
      BY <2>13, <2>14
    <3>3. client.phase \in {"waiting", "ended"}
      BY <2>7, <2>10, <3>1
    <3>4. CASE reply'.is_complete
      BY <1>1, <1>2, <1>4, <1>7, <2>5, <3>1, <3>2, <3>3, <3>4, Constants
    <3>5. CASE ~reply'.is_complete
      BY <1>1, <1>2, <1>4, <1>5, <2>5, <2>7, <3>1, <3>2, <3>3, <3>5, Constants
    <3> QED
      BY <3>4, <3>5
  <2> QED
    BY <1>1, <1>2, <2>5, <2>8, <2>9, <2>11, <2>14, <1>4 DEF InStep
<1>12. Live
  BY DataKeeps
<1>13. ASSUME NEW p \in Region, p >= xfer'.request_offset PROVE ~InPlace(p)'
  <2>1. p \in Nat /\ p \in Positions
    BY Constants DEF Region, Positions
  <2>2. p >= xfer.request_offset
    BY <1>4, <1>7, <1>13, <2>1
  <2>3. file[p] # p
    BY <1>12, <2>2 DEF Inv, Pristine, InPlace
  <2>4. ASSUME p < xfer.request_offset + m.size,
               file' = Written(xfer.request_offset, m, prompt.at)
        PROVE  file'[p] # p
    <3>1. file'[p] = prompt.at + (p - xfer.request_offset)
      BY <2>1, <2>2, <2>4 DEF Written
    <3>2. prompt.at # xfer.request_offset
      <4>1. CASE InStep
        <5>1. prompt.body.number = Files!Expected
          BY <1>1, <4>1, ExpectedNumber DEF Inv
        <5>2. xfer'.request_offset = xfer.request_offset + m.size
          BY <1>3, <1>4, <5>1, InSequenceStep DEF Inv
        <5> QED
          BY <1>4, <1>13, <2>1, <2>4, <5>2
      <4>2. CASE LeftBehind
        <5>1. xfer.request_offset < prompt.at
          BY <1>3, <1>4, <1>5, <1>6, <4>2, Constants DEF LeftBehind, Gap
        <5> QED
          BY <1>4, <5>1
      <4> QED
        BY <1>12, <4>1, <4>2 DEF Inv, Agreed
    <3>3. prompt.at + (p - xfer.request_offset) # p
      BY <1>4, <2>1, <3>2, Shifted
    <3> QED
      BY <3>1, <3>3
  <2>5. file'[p] = file[p] \/ (p < xfer.request_offset + m.size
                              /\ file' = Written(xfer.request_offset, m, prompt.at))
    BY <1>4, <1>7, <2>1 DEF Written
  <2> QED
    BY <2>3, <2>4, <2>5 DEF InPlace
<1>14. Pristine'
  BY <1>13 DEF Pristine
<1> QED
  BY <1>9, <1>10, <1>11, <1>12, <1>14 DEF Inv, Agreed

LEMMA NextInv ==
  ASSUME Faultless, Inv, [Next]_vars
  PROVE  Inv'
<1>1. IInv'
  BY NextIInv DEF Inv
<1>2. CASE UNCHANGED <<xfer, file, prompt, inbox, client>>
  BY <1>1, <1>2
  DEF Inv, Agreed, Finished, Pristine, Live, InStep, LeftBehind, Gap, UnderWay, Pending, IsAck,
      Expecting, Idling, InPlace
<1>3. CASE Start
  <2>1. client'.phase = "opening" /\ prompt'.what = "init"
    BY <1>3 DEF Start
  <2>2. prompt' # None
    <3>1. prompt' \in Prompt \cup {None}
      BY <1>1 DEF IInv, OwnTypes
    <3>2. client'.attempt \in Attempts /\ client'.phase = "opening"
      BY <1>3 DEF Start
    <3>3. PICK p : p = [what |-> "init", at |-> None,
                        body |-> [file_id |-> 0, read_write |-> 1, request_offset |-> From,
                                  transfer_length |-> Length, transfer_id |-> client'.attempt,
                                  messages_per_ack |-> Rate, timed |-> TRUE]]
      OBVIOUS
    <3>4. p \in Prompt
      BY <3>2, <3>3 DEF Prompt, Files!InitRequest
    <3>5. prompt' = p
      BY <1>3, <3>3 DEF Start
    <3> QED
      BY <3>4, <3>5, NoneAssumption
  <2>3. Pending("init")'
    BY <2>1, <2>2 DEF Pending
  <2> QED
    BY <1>1, <2>1, <2>3 DEF Inv, Agreed, Pristine, Live, Finished
<1>4. CASE Send
  BY <1>1, <1>4, SendInv DEF Inv
<1>5. CASE Receive
  BY <1>1, <1>5, ReceiveInv DEF Inv
<1>6. CASE GiveUp
  BY <1>1, <1>6, GiveUpInv DEF Inv
<1>7. CASE Process
  <2>1. prompt.what \in {"init", "data"}
    BY <1>7, PromptFields DEF Process, Inv, IInv, OwnTypes
  <2> QED
    BY <1>1, <1>7, <2>1, InitInv, DataInv DEF Inv
<1>8. CASE Idle
  <2>1. UNCHANGED <<xfer, file, prompt, inbox, client>>
    BY <1>8 DEF Idle, Files!NothingForFiles
  <2> QED
    BY <1>2, <2>1
<1>9. UNCHANGED vars => UNCHANGED <<xfer, file, prompt, inbox, client>>
  BY DEF vars, service
<1> QED
  BY <1>2, <1>3, <1>4, <1>5, <1>6, <1>7, <1>8, <1>9 DEF Next

LEMMA InitAgrees == Init => Inv
<1>1. Init => client.phase = "ended" /\ xfer.state = "INVALID"
  BY DEF Init, Files!Init, Files!Cleared
<1> QED
  BY <1>1, InitIInv DEF Inv, Agreed, Pristine, Live, Finished

LEMMA AgreementHolds == Faultless => (Spec => []Inv)
<1> SUFFICES ASSUME Faultless PROVE Spec => []Inv
  OBVIOUS
<1> QED
  BY InitAgrees, NextInv, PTL DEF Spec

\* Whichever prompts were overwritten and whichever notifications were given up, a
\* client that is told its transfer is complete finds every byte of the piece
\* where it belongs, for pieces, packets and windows of any size: as long as no
\* write fails and the application leaves the rate to the client.
THEOREM CompleteMeansIntact == Faultless => (Spec => []DoneIsIntact)
<1> SUFFICES ASSUME Faultless PROVE Spec => []DoneIsIntact
  OBVIOUS
<1>1. Spec => []Inv
  BY AgreementHolds
<1>2. Inv => DoneIsIntact
  BY DEF Inv, Finished, DoneIsIntact
<1> QED
  BY <1>1, <1>2, PTL

-------------------------------------------------------------------------------
(* The refinement *)

LEMMA Least ==
  ASSUME NEW T \in SUBSET Nat, T # {}
  PROVE  \E x \in T : \A y \in T : x <= y
<1>1. PICK R : R = OpToRel(<, Nat)
  OBVIOUS
<1>2. IsWellFoundedOn(R, Nat)
  BY <1>1, NatLessThanWellFounded
<1>3. \A x, y \in Nat : y < x => <<y, x>> \in R
  BY <1>1 DEF OpToRel
<1>4. PICK x \in T : \A y \in T : ~ (<<y, x>> \in R)
  BY <1>2, WFMin
<1>5. ASSUME NEW y \in T PROVE x <= y
  <2>1. ~ (y < x)
    BY <1>3, <1>4
  <2> QED
    BY <2>1
<1> QED
  BY <1>5

\* Copied is what it is meant to be: there is a first byte that is not in place.
LEMMA CopiedFacts ==
  /\ Copied \in 0..Length
  /\ \A i \in 0..(Copied - 1) : InPlace(From + i)
  /\ Copied = Length \/ ~InPlace(From + Copied)
<1>1. PICK T : T = {n \in 0..Length : n = Length \/ ~InPlace(From + n)}
  OBVIOUS
<1>2. T \in SUBSET Nat /\ T # {}
  BY <1>1, Constants
<1>3. PICK n \in T : \A y \in T : n <= y
  BY <1>2, Least
<1>4. n \in 0..Length /\ (n = Length \/ ~InPlace(From + n))
  BY <1>1
<1>5. \A i \in 0..(n - 1) : InPlace(From + i)
  <2>1. ASSUME NEW i \in 0..(n - 1), ~InPlace(From + i) PROVE FALSE
    <3>1. i \in 0..Length /\ i < n
      BY <1>4, Constants
    <3>2. i \in T
      BY <1>1, <2>1, <3>1
    <3> QED
      BY <1>3, <1>4, <3>1, <3>2
  <2> QED
    BY <2>1
<1>6. \E k \in 0..Length : /\ \A i \in 0..(k - 1) : InPlace(From + i)
                           /\ k = Length \/ ~InPlace(From + k)
  BY <1>4, <1>5
<1> QED
  BY <1>6 DEF Copied

\* When what is in place stays there, no fewer bytes are.
LEMMA CopiedGrows ==
  ASSUME \A p \in Region : InPlace(p) => InPlace(p)'
  PROVE  Copied' = Copied \/ Copied' \in (Copied + 1)..Length
<1>1. /\ Copied \in 0..Length
      /\ \A i \in 0..(Copied - 1) : InPlace(From + i)
  BY CopiedFacts
<1>2. (/\ Copied \in 0..Length
       /\ Copied = Length \/ ~InPlace(From + Copied))'
  BY CopiedFacts, PTL
<1>3. PICK n : n = Copied'
  OBVIOUS
<1>4. n \in 0..Length /\ (n = Length \/ file'[From + n] # From + n)
  BY <1>2, <1>3 DEF InPlace
<1>5. ASSUME n < Copied PROVE FALSE
  <2>1. n \in 0..(Copied - 1) /\ From + n \in Region
    BY <1>1, <1>4, <1>5, Constants DEF Region
  <2>2. InPlace(From + n) /\ n # Length
    BY <1>1, <1>4, <1>5, <2>1, Constants
  <2>3. file'[From + n] = From + n
    BY <2>1, <2>2 DEF InPlace
  <2> QED
    BY <1>4, <2>2, <2>3
<1> QED
  BY <1>1, <1>3, <1>4, <1>5

\* An attempt begins with nothing in place.
LEMMA NothingCopied == (\A p \in Positions : file[p] = None) => Copied = 0
<1> SUFFICES ASSUME \A p \in Positions : file[p] = None PROVE Copied = 0
  OBVIOUS
<1>1. From \in Positions /\ From # None
  BY Constants, NoneAssumption DEF Positions
<1>2. ~InPlace(From + 0)
  BY <1>1, Constants DEF InPlace
<1>3. Copied > 0 => InPlace(From + 0)
  BY CopiedFacts, Constants
<1> QED
  BY <1>2, <1>3, CopiedFacts, Constants

\* A file that is as it was has as many bytes in place.
LEMMA CopiedStays == file' = file => Copied' = Copied
  BY DEF Copied, InPlace

LEMMA AllCopied ==
  ASSUME \A p \in Region : InPlace(p)
  PROVE  Copied = Length
<1>1. Copied # Length => From + Copied \in Region
  BY CopiedFacts, Constants DEF Region
<1> QED
  BY <1>1, CopiedFacts

LEMMA InitRefines == Init => Copy!Init
<1> SUFFICES ASSUME Init PROVE Copy!Init
  OBVIOUS
<1>1. \A p \in Positions : file[p] = None
  BY DEF Init
<1>2. Copied = 0
  BY <1>1, NothingCopied
<1>3. Status = "ended"
  BY DEF Init, Status
<1> QED
  BY <1>2, <1>3 DEF Copy!Init

LEMMA StartRefines ==
  ASSUME Inv, Start
  PROVE  Copy!Begin
<1>1. Status' = "open"
  BY DEF Start, Status
<1>2. (\A p \in Positions : file[p] = None)'
  BY DEF Start
<1>3. ((\A p \in Positions : file[p] = None) => Copied = 0)'
  BY NothingCopied, PTL
<1>4. Copied' = 0
  BY <1>2, <1>3
<1> QED
  BY <1>1, <1>4 DEF Copy!Begin

LEMMA ReceiveRefines ==
  ASSUME Inv, Receive
  PROVE  Copy!Succeed \/ Copy!Fail \/ UNCHANGED <<Copied, Status>>
<1>1. Copied' = Copied
  BY CopiedStays DEF Receive
<1>2. client \in Client /\ inbox # <<>>
  BY DEF Inv, IInv, OwnTypes, Receive
<1>3. CASE client' = client
  BY <1>1, <1>3 DEF Status
<1>4. CASE client.phase \notin {"ended", "done"} /\ client' = [client EXCEPT !.phase = "ended"]
  <2>1. client'.phase = "ended"
    BY <1>2, <1>4 DEF Client
  <2> QED
    BY <1>1, <1>4, <2>1 DEF Status, Copy!Fail
<1>5. CASE client.phase = "opening" /\ client' = [client EXCEPT !.phase = "sending"]
  <2>1. client'.phase = "sending"
    BY <1>2, <1>5 DEF Client
  <2> QED
    BY <1>1, <1>5, <2>1 DEF Status
<1>6. CASE client.phase = "waiting" /\ client' = [client EXCEPT !.phase = "done"]
  <2>1. client'.phase = "done"
    BY <1>2, <1>6 DEF Client
  <2>2. \A p \in Region : InPlace(p)
    <3>1. Finished' /\ file' = file
      BY ReceiveInv DEF Receive
    <3> QED
      BY <2>1, <3>1 DEF Finished, InPlace
  <2>3. Copied = Length
    BY <2>2, AllCopied
  <2> QED
    BY <1>1, <1>6, <2>1, <2>3 DEF Status, Copy!Succeed
<1>7. CASE /\ client.phase = "waiting"
           /\ client' = [client EXCEPT !.phase = "sending", !.number = 0]
  <2>1. client'.phase = "sending"
    BY <1>2, <1>7 DEF Client
  <2> QED
    BY <1>1, <1>7, <2>1 DEF Status
<1> QED
  BY <1>3, <1>4, <1>5, <1>6, <1>7, ReceiveCases DEF Inv

LEMMA GiveUpRefines ==
  ASSUME Inv, GiveUp
  PROVE  Copy!Fail
<1>1. client'.phase = "ended" /\ client.phase \in {"opening", "sending", "waiting"}
  BY DEF GiveUp, Inv, IInv, OwnTypes, Client
<1>2. Copied' = Copied
  BY CopiedStays DEF GiveUp
<1> QED
  BY <1>1, <1>2 DEF Status, Copy!Fail

LEMMA ProcessRefines ==
  ASSUME Inv, Faultless, Process
  PROVE  Copy!Extend \/ UNCHANGED <<Copied, Status>>
<1>1. Status' = Status
  BY DEF Process, Status
<1>2. prompt.what \in {"init", "data"}
  BY PromptFields DEF Process, Inv, IInv, OwnTypes
<1>3. CASE prompt.what = "init"
  <2>1. file' = file
    BY <1>3, InitStep DEF Inv
  <2> QED
    BY <1>1, <2>1, CopiedStays
<1>4. CASE prompt.what = "data"
  <2>1. \A p \in Region : InPlace(p) => InPlace(p)'
    BY <1>4, DataKeeps
  <2>2. Copied' = Copied \/ Copied' \in (Copied + 1)..Length
    BY <2>1, CopiedGrows
  <2> QED
    BY <1>1, <2>2 DEF Copy!Extend
<1> QED
  BY <1>2, <1>3, <1>4

LEMMA NextRefines ==
  ASSUME Inv, Faultless, [Next]_vars
  PROVE  [Copy!Next]_<<Copied, Status>>
<1>1. CASE UNCHANGED <<file, client>>
  <2>1. Copied' = Copied
    BY <1>1, CopiedStays
  <2>2. Status' = Status
    BY <1>1 DEF Status
  <2> QED
    BY <2>1, <2>2
<1>2. CASE Start
  BY <1>2, StartRefines DEF Copy!Next
<1>3. CASE Send
  <2>1. client.phase = "sending" /\ client'.phase \in {"waiting", "sending"}
    <3>1. PICK g : g = IF client.number + 1 = Rate \/ client.sent + Size = Length
                       THEN "waiting" ELSE "sending"
      OBVIOUS
    <3>2. client.phase = "sending"
          /\ client' = [client EXCEPT !.sent = @ + Size, !.number = @ + 1, !.phase = g]
      BY <1>3, <3>1 DEF Send
    <3> QED
      BY <3>1, <3>2 DEF Inv, IInv, OwnTypes, Client
  <2>2. Status' = Status
    BY <2>1 DEF Status
  <2>3. Copied' = Copied
    BY <1>3, CopiedStays DEF Send
  <2> QED
    BY <2>2, <2>3
<1>4. CASE Receive
  BY <1>4, ReceiveRefines DEF Copy!Next
<1>5. CASE GiveUp
  BY <1>5, GiveUpRefines DEF Copy!Next
<1>6. CASE Process
  BY <1>6, ProcessRefines DEF Copy!Next
<1>7. CASE Idle
  BY <1>1, <1>7 DEF Idle
<1>8. CASE UNCHANGED vars
  BY <1>1, <1>8 DEF vars
<1> QED
  BY <1>2, <1>3, <1>4, <1>5, <1>6, <1>7, <1>8 DEF Next

\* Whichever prompts were overwritten and whichever notifications were given up,
\* a file transfer copies the piece of the file from its beginning on, never
\* damages what is in place, and is reported complete only when all of it is.
THEOREM TransferCopies == Faultless => (Spec => ImplementsCopy)
<1> SUFFICES ASSUME Faultless PROVE Spec => ImplementsCopy
  OBVIOUS
<1>1. Spec => []Inv
  BY AgreementHolds
<1>2. Init => Copy!Init
  BY InitRefines
<1>3. Inv /\ [Next]_vars => [Copy!Next]_<<Copied, Status>>
  BY NextRefines
<1> QED
  BY <1>1, <1>2, <1>3, PTL DEF Spec, ImplementsCopy, Copy!Spec
===============================================================================
