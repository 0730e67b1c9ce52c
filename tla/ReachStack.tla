------------------------------- MODULE ReachStack -------------------------------
(***************************************************************************)
(* The core of the Reach stack, reach-c-stack/cr_stack.c, on top of its    *)
(* file service and below the Bluetooth link of                            *)
(* Integrations/Silabs/reach_silabs.c.                                     *)
(*                                                                         *)
(* The main loop alternates between delivering the link's events (opened,  *)
(* closed, subscribed, a prompt written, the response read) and calling    *)
(* cr_process(), which runs to its end: checks the watchdog, then sends    *)
(* the next message of a continued transaction or takes the prompt out of  *)
(* its one-place buffer, handles it and sends the answer.  Any number of   *)
(* events may come between two calls of cr_process().                      *)
(*                                                                         *)
(* The services share the one continued transaction there is.  That of the *)
(* file service is modelled by FileService in full; of a listing of        *)
(* parameters, which ParamService models in full, the stack sees only that *)
(* messages are left, that one more call sends the next one, and that it   *)
(* may end with nothing more to send.                                      *)
(***************************************************************************)
EXTENDS Integers, FiniteSets

CONSTANTS
  Access, TransferIds, NoId, Garbled, Packet, Word, Offsets, Lengths, AckRates, Timed,
  PreferredRate, DefaultRate, Numbers, FilesPerReply, FaultyApp,
  TransactionIds,  \* transaction_id of a prompt's header
  Prompts,         \* what clients send: [what, tx, body]
  MaxMessages,     \* the most messages of a listing that follow its first one
  None             \* an empty buffer, no body

VARIABLES
  xfer, continued, watchdog, reply, history,   \* of the file service
  listing,      \* messages left of a listing, another continued transaction
  connected,    \* sCr_comm_link_is_connected
  subscribed,   \* sRsl_ble_subscribed
  prompt,       \* sCr_encoded_message_buffer, None when its size is 0
  transaction,  \* sCr_transaction_id
  response,     \* sCr_encoded_response_buffer, None when its size is 0
  sent,         \* what the last step gave to the link
  owner         \* the prompt that began the continued transaction (no code reads it)

files == <<xfer, continued, watchdog, reply, history>>
link == <<connected, subscribed>>
vars == <<files, listing, link, prompt, transaction, response, sent, owner>>

Files == INSTANCE FileService

-------------------------------------------------------------------------------
(* Prompts and responses.  "stale" marks what an earlier connection left;   *)
(* for an owner, that the connection it began its transaction on is closed. *)

\* "simple": the services that answer every prompt at once and keep no state
\* here (ping, device info, commands, time, parameter writes, notifications to
\* configure).  "list": a listing of parameters.  "unhandled": the payload does not
\* decode, or the message type has no case.  "malformed": not even the header
\* decodes.
OtherPrompts == {"simple", "list", "cli", "unhandled", "malformed", "files"}

Request ==
  [what : OtherPrompts, tx : TransactionIds, body : {None}]
  \cup [what : {"init"}, tx : TransactionIds, body : Files!InitRequest]
  \cup [what : {"data"}, tx : TransactionIds, body : Files!DataMessage]
  \cup [what : {"notification"}, tx : TransactionIds, body : Files!Notification]

ASSUME FilesConstants ==
  Files!ConstantsAssumption /\ Files!AccessAssumption /\ Files!FilesAssumption

ASSUME StackAssumption ==
  /\ 0 \in TransactionIds
  /\ Prompts \subseteq Request
  /\ MaxMessages \in Nat

Received(r, stale) == [what |-> r.what, tx |-> r.tx, body |-> r.body, stale |-> stale]
Prompt == {Received(r, stale) : r \in Request, stale \in BOOLEAN}

\* A response is told from another by the transaction_id in its header.
Response == [tx : TransactionIds, stale : BOOLEAN]

\* Error reports given to the link, parameter notifications if any, then at most
\* one response.
Sent == [reports : 0..2, notified : BOOLEAN, answer : Response \cup {None}]
Nothing == [reports |-> 0, notified |-> FALSE, answer |-> None]

Owner == [tx : TransactionIds, stale : BOOLEAN]
NoOwner == [tx |-> 0, stale |-> FALSE]

Init ==
  /\ Files!Init
  /\ listing = 0
  /\ connected = FALSE /\ subscribed = FALSE
  /\ prompt = None /\ response = None
  /\ transaction = 0
  /\ sent = Nothing
  /\ owner = NoOwner

-------------------------------------------------------------------------------
(* cr_process *)

\* crcb_send_coded_response(): only a subscribed client is notified, and when the
\* link has no room for the message in 3001 tries it is dropped.
Delivered(r) == IF subscribed THEN {r, None} ELSE {None}

Sends(reports, r) ==
  \E answer \in Delivered(r) :
    sent' = [reports |-> reports, notified |-> FALSE, answer |-> answer]

\* A message answering p was encoded over what the response buffer held, and is
\* sent.
Answer(tx, p, reports) ==
  /\ response' = [tx |-> tx, stale |-> p.stale]
  /\ Sends(reports, response')

\* Nothing was encoded, and still what the response buffer holds is sent.
Fail(reports) ==
  /\ response' = response
  /\ Sends(reports, response)

StaySilent ==
  /\ response' = response
  /\ sent' = Nothing

\* A continued transaction that is over has no owner.
Owned(by) ==
  owner' = IF continued'.type = "TRANSFER_DATA" \/ listing' > 0 THEN by ELSE NoOwner

\* cr_process() takes a prompt only when no transaction is being continued.
PromptsAreTaken == Files!PromptsAreTaken /\ listing = 0

\* The next message of a window of a file.
ContinueFile(w) ==
  /\ Files!ContinueTransfer(w)
  /\ \/ reply'.kind = "error" /\ Fail(reply'.reports)
     \/ reply'.kind # "error" /\ Answer(transaction, owner, reply'.reports)
  /\ UNCHANGED listing

\* Mutant: the header of a continued message is left zeroed.
ContinueListing_ZeroHeader(w) ==
  /\ listing > 0
  /\ Files!NothingForFiles(w)
  /\ \/ listing' = listing - 1 /\ Answer(0, owner, 0)
     \/ listing' = 0 /\ StaySilent

\* The next message of a listing, or none: then cr_process() goes on to the next
\* prompt in the same call, here in the next step.
ContinueListing(w) ==
  /\ listing > 0
  /\ Files!NothingForFiles(w)
  /\ \/ listing' = listing - 1 /\ Answer(transaction, owner, 0)
     \/ listing' = 0 /\ StaySilent

\* handle_continued_transactions()
Continue(w) ==
  /\ ContinueFile(w) \/ ContinueListing(w)
  /\ Owned(owner)
  /\ UNCHANGED <<prompt, transaction>>

\* A handler returned what reply' says.  cr_report_error() never sets
\* sCR_error_reported, so cr_process() reports every error once more.
Finish ==
  \/ reply'.kind = "none" /\ StaySilent
  \/ reply'.kind = "error" /\ Fail(reply'.reports + 1)
  \/ reply'.kind \notin {"none", "error"}
       /\ Answer(prompt.tx, prompt, reply'.reports)

HandleFilePrompt(w) ==
  /\ \/ prompt.what = "init" /\ Files!TransferInit(prompt.body, w)
     \/ prompt.what = "data" /\ Files!TransferData(prompt.body, w)
     \/ prompt.what = "notification" /\ Files!TransferDataNotification(prompt.body, w)
     \/ prompt.what = "files" /\ Files!DiscoverFiles(w)
  /\ transaction' = prompt.tx
  /\ Finish
  /\ UNCHANGED listing

\* The first message of a listing says how many follow; a list of nothing the
\* repository knows is not answered.
HandleListing ==
  /\ prompt.what = "list"
  /\ transaction' = prompt.tx
  /\ \/ listing' \in 0..MaxMessages /\ Answer(prompt.tx, prompt, 0)
     \/ listing' = 0 /\ StaySilent

HandleOtherPrompt(w) ==
  /\ Files!NothingForFiles(w)
  /\ \/ HandleListing
     \/ /\ listing' = 0
        /\ transaction' = IF prompt.what = "malformed" THEN transaction ELSE prompt.tx
        /\ \/ prompt.what = "simple" /\ Answer(prompt.tx, prompt, 0)
           \/ prompt.what = "cli" /\ StaySilent
           \/ prompt.what \in {"unhandled", "malformed"} /\ Fail(2)

\* Mutant: a handled prompt is left in its buffer.
TakePrompt_NotEmptied(w) ==
  /\ prompt # None
  /\ PromptsAreTaken
  /\ HandleFilePrompt(w) \/ HandleOtherPrompt(w)
  /\ Owned([tx |-> prompt.tx, stale |-> FALSE])
  /\ prompt' = prompt

TakePrompt(w) ==
  /\ prompt # None
  /\ PromptsAreTaken
  /\ HandleFilePrompt(w) \/ HandleOtherPrompt(w)
  /\ Owned([tx |-> prompt.tx, stale |-> FALSE])
  /\ prompt' = None

\* Nothing to do but to look for parameters to notify a client of.
Idle(w) ==
  /\ prompt = None
  /\ listing = 0
  /\ Files!NothingForFiles(w)
  /\ \E notified \in BOOLEAN : sent' = [Nothing EXCEPT !.notified = notified]
  /\ UNCHANGED <<listing, prompt, transaction, response, owner>>

Process ==
  /\ connected
  /\ \E w \in Files!AfterCheck : Continue(w) \/ TakePrompt(w) \/ Idle(w)
  /\ UNCHANGED link

-------------------------------------------------------------------------------
(* Events of the link *)

\* The file service does nothing, and nothing is given to the link.
Quiet ==
  /\ reply' = Files!Silence
  /\ sent' = Nothing
  /\ UNCHANGED <<xfer, continued, watchdog, history, listing>>

\* Mutant: a continued transaction is left to the next connection.
Open_KeepsContinuing ==
  /\ ~connected
  /\ connected' = TRUE
  /\ Quiet
  /\ UNCHANGED <<subscribed, prompt, transaction, response, owner>>

\* rsl_on_evt_connection_opened_id(), cr_set_comm_link_connected(TRUE)
Open ==
  /\ ~connected
  /\ connected' = TRUE
  /\ Files!Connect
  /\ listing' = 0
  /\ owner' = NoOwner
  /\ sent' = Nothing
  /\ UNCHANGED <<subscribed, prompt, transaction, response>>

Aged(r) == IF r = None THEN None ELSE [r EXCEPT !.stale = TRUE]

\* rsl_on_evt_connection_closed_id(): the stack's buffers are left alone; only
\* the marks, which are not in the code, change.
Close ==
  /\ connected
  /\ connected' = FALSE
  /\ subscribed' = FALSE
  /\ prompt' = Aged(prompt)
  /\ response' = Aged(response)
  /\ owner' = Aged(owner)
  /\ Quiet
  /\ UNCHANGED transaction

\* rsl_on_evt_gatt_server_characteristic_status_id()
Subscribe ==
  /\ connected
  /\ subscribed' \in BOOLEAN
  /\ Quiet
  /\ UNCHANGED <<connected, prompt, transaction, response, owner>>

\* cr_store_coded_prompt(): a prompt not taken yet is overwritten.
StorePrompt(r) ==
  /\ connected
  /\ prompt' = Received(r, FALSE)
  /\ Quiet
  /\ UNCHANGED <<link, transaction, response, owner>>

\* rsl_on_evt_gatt_server_user_read_request_id(), cr_get_coded_response_buffer()
ReadResponse ==
  /\ connected
  /\ sent' = [Nothing EXCEPT !.answer = response]
  /\ response' = None
  /\ reply' = Files!Silence
  /\ UNCHANGED <<xfer, continued, watchdog, history, listing, link, prompt,
                 transaction, owner>>

LinkEvent ==
  \/ Open
  \/ Close
  \/ Subscribe
  \/ \E r \in Prompts : StorePrompt(r)
  \/ ReadResponse

Next == Process \/ LinkEvent

Spec == Init /\ [][Next]_vars

\* The main loop calls cr_process() for as long as the device runs; nothing
\* makes a client do anything.
FairSpec == Spec /\ WF_vars(Process)

-------------------------------------------------------------------------------
(* Properties *)

\* The stack's buffers hold nothing but prompts, responses and reports.
TypeOK ==
  /\ Files!TypeOK
  /\ listing \in 0..MaxMessages
  /\ connected \in BOOLEAN /\ subscribed \in BOOLEAN
  /\ prompt \in Prompt \cup {None}
  /\ transaction \in TransactionIds
  /\ response \in Response \cup {None}
  /\ sent \in Sent
  /\ owner \in Owner

\* What the stack sends without being prompted continues what was asked for over
\* this very connection, and no prompt taken meanwhile has changed the
\* transaction_id it is sent under.
ContinuationBelongsToPrompt ==
  connected /\ ~PromptsAreTaken =>
    transaction = owner.tx /\ ~owner.stale

\* When nothing fails, a message sent carries the transaction_id of the prompt
\* that asked for it, be it the one just taken or, windows later, the one that
\* began the continued transaction.
AnswerNamesItsPrompt ==
  [][Process /\ sent'.answer # None /\ sent'.reports = 0 =>
       sent'.answer.tx = IF PromptsAreTaken THEN prompt.tx ELSE owner.tx]_vars

\* A window or a listing being streamed keeps a prompt waiting, but not for ever:
\* as long as the connection lasts, the prompt in the buffer is taken.
PromptIsTaken == prompt # None ~> prompt = None \/ ~connected

\* "in case of error the reply is the error report" (cr_stack.c:498): a prompt
\* that fails is not answered with something else.
RepliesToItsPrompt ==
  [][Process /\ sent'.answer # None => sent'.answer.tx = transaction']_vars

\* "we are newly connected, so clear any stale data" (cr_stack.c:546): a client
\* is not given what was asked for over an earlier connection.
StaleIsCleared == sent.answer # None => ~sent.answer.stale

===============================================================================
