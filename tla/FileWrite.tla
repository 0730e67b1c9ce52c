------------------------------- MODULE FileWrite --------------------------------
(***************************************************************************)
(* A file written from end to end: a client that sends a piece of a file   *)
(* in windows of Rate messages, the one-place prompt buffer of             *)
(* cr_stack.c, the file service, and the notifications back.               *)
(*                                                                         *)
(* A prompt that is stored before the last one was taken overwrites it     *)
(* (cr_store_coded_prompt()), and a notification is given up after 3000    *)
(* tries (rsl_notify_client()): messages get lost both ways, and only the  *)
(* message numbers and the byte count tell.                                *)
(*                                                                         *)
(* The client is not part of this repository: it does what the messages    *)
(* of reach.proto ask of it.                                               *)
(***************************************************************************)
EXTENDS Integers, FiniteSets, Sequences

CONSTANTS
  From, Length,     \* request_offset and transfer_length
  Rate,             \* messages_per_ack the client asks for
  PreferredRate,    \* ... and what the application overrides it with
  Packet, Word,     \* as in FileService
  MaxInbox,         \* bound on the notifications the client has not looked at
  FaultyApp,        \* may crcb_write_file() fail?
  NoId, Garbled, None

ASSUME RegionAssumption ==
  /\ From \in Nat /\ Length \in Nat \ {0} /\ Rate \in Nat \ {0}
  /\ From + Length < Word
  /\ MaxInbox \in Nat \ {0}

VARIABLES
  xfer, continued, watchdog, reply, history,   \* of the file service
  file,       \* where in the client's file each byte this attempt wrote is from
  prompt,     \* sCr_encoded_message_buffer
  inbox,      \* notifications on their way to the client
  client,
  lost        \* has a message of this attempt been lost? (no code reads it)

service == <<xfer, continued, watchdog, reply, history>>
vars == <<service, file, prompt, inbox, client, lost>>

\* transfer_ids: enough for an attempt to have one no notification names.
Attempts == 0..MaxInbox

Files == INSTANCE FileService WITH
  Access <- [f \in {0} |-> "READ_WRITE"], TransferIds <- Attempts,
  Offsets <- {From}, Lengths <- {Length}, AckRates <- {Rate}, Timed <- {TRUE},
  DefaultRate <- 10,
  Numbers <- 0..(Word - 1), FilesPerReply <- 4

\* What the file service assumes of its constants.
ASSUME ServiceAssumption ==
  Files!ConstantsAssumption /\ Files!AccessAssumption /\ Files!FilesAssumption

Positions == 0..(Word - 1)

Phases == {"ended", "opening", "sending", "waiting", "done"}

Client == [phase : Phases, attempt : Attempts,
           sent : 0..Length,      \* bytes of the piece sent so far
           number : 0..Rate]      \* data messages sent in this window

\* at: where in the client's file the bytes of a data message are from.
Prompt == [what : {"init"}, body : Files!InitRequest, at : {None}]
          \cup [what : {"data"}, body : Files!DataMessage, at : Positions]

\* An empty buffer is not a prompt, and no byte of the file.
ASSUME NoneAssumption == None \notin Prompt \cup Positions

Init ==
  /\ Files!Init
  /\ file = [p \in Positions |-> None]
  /\ prompt = None
  /\ inbox = <<>>
  /\ client = [phase |-> "ended", attempt |-> 0, sent |-> 0, number |-> 0]
  /\ lost = FALSE

-------------------------------------------------------------------------------
(* The client *)

\* An attempt takes a transfer_id that no notification on its way names: the
\* device itself never looks at the transfer_id of a data message.
Start ==
  /\ client.phase \in {"ended", "done"}
  /\ \E a \in Attempts \ {inbox[i].transfer_id : i \in DOMAIN inbox} :
       client' = [phase |-> "opening", attempt |-> a, sent |-> 0, number |-> 0]
  /\ prompt' = [what |-> "init", at |-> None,
                body |-> [file_id |-> 0, read_write |-> 1, request_offset |-> From,
                          transfer_length |-> Length,
                          transfer_id |-> client'.attempt,
                          messages_per_ack |-> Rate, timed |-> TRUE]]
  /\ file' = [p \in Positions |-> None]
  /\ lost' = FALSE
  /\ UNCHANGED <<service, inbox>>

\* Mutant: the last message is as long as the others.
Size_WholePacket == Packet

Size == IF Length - client.sent < Packet THEN Length - client.sent ELSE Packet

Send ==
  /\ client.phase = "sending"
  /\ prompt' = [what |-> "data", at |-> From + client.sent,
                body |-> [transfer_id |-> client.attempt,
                          number |-> client.number + 1, size |-> Size]]
  /\ client' = [client EXCEPT
                  !.sent = @ + Size, !.number = @ + 1,
                  !.phase = IF client.number + 1 = Rate \/ client.sent + Size = Length
                            THEN "waiting" ELSE "sending"]
  /\ lost' = (lost \/ prompt # None)
  /\ UNCHANGED <<service, file, inbox>>

\* What the client makes of a notification: an error report is about whatever it
\* is doing, anything else is about the transfer it names.
After(n) ==
  IF n.reports > 0 \/ (n.code # "NO_ERROR" /\ n.transfer_id = client.attempt)
  THEN [client EXCEPT !.phase = "ended"]
  ELSE IF n.transfer_id # client.attempt THEN client
  ELSE IF n.kind = "init" /\ client.phase = "opening"
  THEN [client EXCEPT !.phase = "sending"]
  ELSE IF n.kind = "notification" /\ client.phase = "waiting"
  THEN IF n.is_complete THEN [client EXCEPT !.phase = "done"]
       ELSE IF client.sent = Length THEN client
       ELSE [client EXCEPT !.phase = "sending", !.number = 0]
  ELSE client

Receive ==
  /\ inbox # <<>>
  /\ inbox' = Tail(inbox)
  /\ client' = IF client.phase \in {"ended", "done"} THEN client
               ELSE After(Head(inbox))
  /\ UNCHANGED <<service, file, prompt, lost>>

GiveUp ==
  /\ client.phase \in {"opening", "sending", "waiting"}
  /\ client' = [client EXCEPT !.phase = "ended"]
  /\ UNCHANGED <<service, file, prompt, inbox, lost>>

-------------------------------------------------------------------------------
(* The device *)

\* cr_process() sends what the handler has left, if anything.
Notify ==
  \/ reply'.kind = "none" /\ UNCHANGED <<inbox, lost>>
  \/ /\ reply'.kind # "none"
     /\ Len(inbox) < MaxInbox
     /\ inbox' = Append(inbox, reply')
     /\ lost' = lost
  \/ reply'.kind # "none" /\ inbox' = inbox /\ lost' = TRUE

\* Mutant: a whole packet is written, whatever the message's size.
Written_WholePacket(offset, m, at) ==
  [p \in Positions |->
     IF p >= offset /\ p < offset + Packet THEN at + (p - offset) ELSE file[p]]

\* crcb_write_file() at the offset the service names.
Written(offset, m, at) ==
  [p \in Positions |->
     IF p >= offset /\ p < offset + m.size THEN at + (p - offset) ELSE file[p]]

TakePrompt(w) ==
  /\ \/ /\ prompt.what = "init"
        /\ Files!TransferInit(prompt.body, w)
        /\ file' = file
     \/ /\ prompt.what = "data"
        /\ Files!TransferData(prompt.body, w)
        /\ file' = IF reply'.kind = "error" THEN file
                   ELSE Written(xfer.request_offset, prompt.body, prompt.at)
  /\ Notify

Process ==
  /\ prompt # None
  /\ \E w \in Files!AfterCheck : TakePrompt(w)
  /\ prompt' = None
  /\ UNCHANGED client

\* cr_process() with an empty buffer: only the watchdog may expire.
Idle ==
  /\ prompt = None
  /\ \E w \in Files!AfterCheck : Files!NothingForFiles(w)
  /\ UNCHANGED <<file, prompt, inbox, client, lost>>

Next == Start \/ Send \/ Receive \/ GiveUp \/ Process \/ Idle

Spec == Init /\ [][Next]_vars

\* The main loop keeps calling cr_process(); a client that has begun goes on.
FairSpec == Spec /\ WF_vars(Process) /\ WF_vars(Send) /\ WF_vars(Receive)

-------------------------------------------------------------------------------
(* Properties *)

\* The client, the messages under way and the file have the shapes that the handlers
\* and the calls between them can produce.
TypeOK ==
  /\ Files!TypeOK
  /\ file \in [Positions -> Positions \cup {None}]
  /\ prompt \in Prompt \cup {None}
  /\ inbox \in Seq(Files!Reply) /\ Len(inbox) <= MaxInbox
  /\ client \in Client
  /\ lost \in BOOLEAN

Region == From..(From + Length - 1)
InPlace(p) == file[p] = p

\* Whatever was lost on the way, a client that is told its transfer is complete
\* finds every byte of it where it belongs: as long as no write fails, and the
\* application does not override the client's rate (CompleteIsWritten).
DoneIsIntact == client.phase = "done" => \A p \in Region : InPlace(p)

\* Not even a transfer whose messages got lost writes outside the piece of the
\* file it was opened for.
OutsideUntouched == \A p \in Positions \ Region : file[p] = None

\* Bytes in place, from the first on.
Copied == CHOOSE n \in 0..Length :
            /\ \A i \in 0..(n - 1) : InPlace(From + i)
            /\ n = Length \/ ~InPlace(From + n)

Status == IF client.phase \in {"ended", "done"} THEN client.phase ELSE "open"

Copy == INSTANCE FileCopy WITH copied <- Copied, status <- Status

\* The transfer implements the copying of a piece of a file: in particular bytes
\* that are in place stay there when a later message is out of sequence.
ImplementsCopy == Copy!Spec

\* "Called when the last bytes have been received and a file write is complete"
\* (reach-c-stack/crcb_weak.h:461): crcb_file_transfer_complete() is called, and the
\* client told, when all of the piece is in place.
CompleteIsWritten ==
  [][Process /\ reply'.is_complete => \A p \in Region : InPlace(p)']_vars

\* As long as nothing is lost, client and device never wait for each other: a
\* client that starts is told, one way or the other, how its transfer ended.
TransferEnds ==
  client.phase = "opening" ~> client.phase \in {"done", "ended"} \/ lost

===============================================================================
