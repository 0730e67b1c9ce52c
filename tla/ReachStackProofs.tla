---------------------------- MODULE ReachStackProofs ----------------------------
(***************************************************************************)
(* Whatever prompts come in whatever order, over any number of             *)
(* connections and with any constants: the stack's buffers keep their      *)
(* types, what it sends unprompted belongs to the prompt that asked for    *)
(* it, and a step without errors names its prompt.  That the file service  *)
(* keeps its invariant is taken from FileServiceProofs.                    *)
(***************************************************************************)
EXTENDS ReachStack, TLAPS

Proved == INSTANCE FileServiceProofs

-------------------------------------------------------------------------------
(* The two instances of the file service are one *)

LEMMA ProvedConstants ==
  Proved!ConstantsAssumption /\ Proved!AccessAssumption /\ Proved!FilesAssumption
<1>1. Proved!ConstantsAssumption
  BY FilesConstants
<1>2. Proved!AccessAssumption
  BY FilesConstants DEF Files!AccessLevels, Proved!AccessLevels
<1>3. Proved!FilesAssumption
  BY FilesConstants DEF Files!IsFiniteSet, Proved!IsFiniteSet
<1> QED
  BY <1>1, <1>2, <1>3

LEMMA SameInputs ==
  /\ Files!InitRequest = Proved!InitRequest
  /\ Files!DataMessage = Proved!DataMessage
  /\ Files!Notification = Proved!Notification
  /\ Files!AfterCheck = Proved!AfterCheck
  BY DEF Files!InitRequest, Proved!InitRequest, Files!DataMessage, Proved!DataMessage,
         Files!Notification, Proved!Notification, Files!AfterCheck, Proved!AfterCheck

LEMMA SameType == Proved!IInv => Files!TypeOK
  BY DEF Proved!IInv, Proved!TypeOK, Files!TypeOK, Files!Transfer, Proved!Transfer,
         Files!States, Proved!States, Files!Uint32, Proved!Uint32, Files!Continued,
         Proved!Continued, Files!ContinuedTypes, Proved!ContinuedTypes, Files!Reply,
         Proved!Reply, Files!Codes, Proved!Codes, Files!History, Proved!History

LEMMA SameInit == Files!Init => Proved!Init
  BY DEF Files!Init, Proved!Init, Files!Cleared, Proved!Cleared, Files!NotContinued,
         Proved!NotContinued, Files!Silence, Proved!Silence

LEMMA SameConnect == Files!Connect => Proved!Connect
  BY DEF Files!Connect, Proved!Connect, Files!NotContinued, Proved!NotContinued,
         Files!Silence, Proved!Silence

LEMMA SameNothing ==
  ASSUME NEW w, Files!NothingForFiles(w)
  PROVE  Proved!NothingForFiles(w)
  BY DEF Files!NothingForFiles, Proved!NothingForFiles, Files!NotContinued,
         Proved!NotContinued, Files!Silence, Proved!Silence, Files!PromptsAreTaken,
         Proved!PromptsAreTaken

LEMMA SameDiscover ==
  ASSUME NEW w, Files!DiscoverFiles(w)
  PROVE  Proved!DiscoverFiles(w)
<1>1. Files!FileCount = Proved!FileCount
  BY Zenon DEF Files!FileCount, Proved!FileCount, Files!Cardinality,
               Proved!Cardinality, Files!IsFiniteSet, Proved!IsFiniteSet
<1> QED
  BY <1>1 DEF Files!DiscoverFiles, Proved!DiscoverFiles, Files!Silence,
              Proved!Silence, Files!PromptsAreTaken, Proved!PromptsAreTaken

LEMMA SameTransferInit ==
  ASSUME NEW w, NEW req, Files!TransferInit(req, w)
  PROVE  Proved!TransferInit(req, w)
  BY DEF Files!TransferInit, Proved!TransferInit, Files!PromptsAreTaken,
         Proved!PromptsAreTaken, Files!NoSuchFile, Proved!NoSuchFile, Files!Refused,
         Proved!Refused, Files!Opened, Proved!Opened, Files!Cleared, Proved!Cleared,
         Files!Failure, Proved!Failure, Files!Silence, Proved!Silence, Files!AckRate,
         Proved!AckRate, Files!NotContinued, Proved!NotContinued

LEMMA SameTransferData ==
  ASSUME NEW w, NEW m, Files!TransferData(m, w)
  PROVE  Proved!TransferData(m, w)
  BY DEF Files!TransferData, Proved!TransferData, Files!PromptsAreTaken,
         Proved!PromptsAreTaken, Files!NotReceiving, Proved!NotReceiving,
         Files!Receiving, Proved!Receiving, Files!WriteFails, Proved!WriteFails,
         Files!Writable, Proved!Writable, Files!Plus, Proved!Plus, Files!Expected,
         Proved!Expected, Files!Received, Proved!Received, Files!Whole, Proved!Whole,
         Files!OutOfSequence, Proved!OutOfSequence, Files!InSequence,
         Proved!InSequence, Files!WriteCompletes, Proved!WriteCompletes,
         Files!Unacknowledged, Proved!Unacknowledged, Files!Acknowledged,
         Proved!Acknowledged, Files!Failure, Proved!Failure, Files!Silence,
         Proved!Silence, Files!NotContinued, Proved!NotContinued

LEMMA SameReading ==
  ASSUME NEW w, NEW x
  PROVE  /\ Files!ReadFails(x) => Proved!ReadFails(x)
         /\ Files!ReadSends(x, w) => Proved!ReadSends(x, w)
  BY DEF Files!ReadFails, Proved!ReadFails, Files!ReadSends, Proved!ReadSends,
         Files!BytesRead, Proved!BytesRead, Files!BytesRequested,
         Proved!BytesRequested, Files!Unread, Proved!Unread, Files!Sent, Proved!Sent,
         Files!DataSent, Proved!DataSent, Files!Continuing, Proved!Continuing,
         Files!Plus, Proved!Plus, Files!Minus, Proved!Minus, Files!Least,
         Proved!Least, Files!Failure, Proved!Failure, Files!Silence, Proved!Silence,
         Files!NotContinued, Proved!NotContinued

LEMMA SameContinue ==
  ASSUME NEW w, Files!ContinueTransfer(w)
  PROVE  Proved!ContinueTransfer(w)
  BY SameReading DEF Files!ContinueTransfer, Proved!ContinueTransfer

LEMMA SameNotification ==
  ASSUME NEW w, NEW m, Files!TransferDataNotification(m, w)
  PROVE  Proved!TransferDataNotification(m, w)
  BY SameReading
  DEF Files!TransferDataNotification, Proved!TransferDataNotification,
      Files!PromptsAreTaken, Proved!PromptsAreTaken, Files!NotSending,
      Proved!NotSending, Files!ReadConfirmed, Proved!ReadConfirmed,
      Files!AlreadyComplete, Proved!AlreadyComplete, Files!ExpectingRead,
      Proved!ExpectingRead, Files!ReadStopped, Proved!ReadStopped,
      Files!ReadPrompted, Proved!ReadPrompted, Files!NextWindow, Proved!NextWindow,
      Files!Failure, Proved!Failure, Files!Silence, Proved!Silence,
      Files!NotContinued, Proved!NotContinued

\* The file service's invariant survives a step in which it does nothing.
LEMMA SilenceKeepsFiles ==
  ASSUME Proved!IInv, reply' = Proved!Silence,
         UNCHANGED <<xfer, continued, watchdog, history>>
  PROVE  Proved!IInv'
<1>1. Proved!Silence \in Proved!Reply /\ Proved!Silence.kind # "data"
  BY Proved!SilenceType, ProvedConstants
<1> QED
  BY <1>1
  DEF Proved!IInv, Proved!TypeOK, Proved!OpenHasRate, Proved!WriteStaysInInit,
      Proved!ContinuationSound, Proved!CounterIsWindow, Proved!FlowControl,
      Proved!WindowNumbering, Proved!CompleteIsQuiet, Proved!StraightShape,
      Proved!Contiguous, Proved!CompleteIsWhole

LEMMA QuietKeepsFiles == Proved!IInv /\ Quiet => Proved!IInv'
  BY SilenceKeepsFiles DEF Quiet, Files!Silence, Proved!Silence

-------------------------------------------------------------------------------
(* The inductive invariant *)

\* The stack's own variables have their types.
StackTypes ==
  /\ listing \in 0..MaxMessages
  /\ connected \in BOOLEAN /\ subscribed \in BOOLEAN
  /\ prompt \in Prompt \cup {None}
  /\ transaction \in TransactionIds
  /\ response \in Response \cup {None}
  /\ sent \in Sent
  /\ owner \in Owner

IInv == Proved!IInv /\ StackTypes /\ ContinuationBelongsToPrompt

LEMMA InitIInv == Init => IInv
<1> SUFFICES ASSUME Init PROVE IInv
  OBVIOUS
<1>1. Proved!IInv
  <2>1. Proved!Init
    BY SameInit DEF Init
  <2> QED
    BY <2>1, Proved!InitIInv, ProvedConstants
<1>2. sent \in Sent
  BY DEF Init, Nothing, Sent
<1>3. owner \in Owner
  BY StackAssumption DEF Init, NoOwner, Owner
<1>4. listing \in 0..MaxMessages /\ transaction \in TransactionIds
  BY StackAssumption DEF Init
<1>5. connected \in BOOLEAN /\ subscribed \in BOOLEAN
  BY DEF Init
<1>6. prompt \in Prompt \cup {None} /\ response \in Response \cup {None}
  BY DEF Init
<1>7. StackTypes
  BY <1>2, <1>3, <1>4, <1>5, <1>6 DEF StackTypes
<1> QED
  BY <1>1, <1>7 DEF IInv, Init, ContinuationBelongsToPrompt

-------------------------------------------------------------------------------
(* What a step of cr_process() sends *)

LEMMA SendsType ==
  ASSUME NEW reports \in 0..2, NEW r, r \in Response \cup {None}, Sends(reports, r)
  PROVE  /\ sent' \in Sent
         /\ sent'.reports = reports
         /\ sent'.answer \in {r, None}
<1>1. PICK answer \in Delivered(r) :
        sent' = [reports |-> reports, notified |-> FALSE, answer |-> answer]
  BY DEF Sends
<1>2. answer \in {r, None}
  BY DEF Delivered
<1> QED
  BY <1>1, <1>2 DEF Sent

LEMMA AnswerType ==
  ASSUME NEW tx \in TransactionIds, NEW p, p.stale \in BOOLEAN, NEW reports \in 0..2,
         Answer(tx, p, reports)
  PROVE  /\ response' \in Response /\ sent' \in Sent
         /\ sent'.reports = reports
         /\ sent'.answer # None => sent'.answer.tx = tx
<1>1. response' = [tx |-> tx, stale |-> p.stale]
  BY DEF Answer
<1>2. response' \in Response
  BY <1>1 DEF Response
<1>3. PICK r \in Response : r = response'
  BY <1>2
<1>4. Sends(reports, r)
  BY <1>3 DEF Answer
<1>5. sent' \in Sent /\ sent'.reports = reports /\ sent'.answer \in {r, None}
  BY <1>4, SendsType
<1> QED
  BY <1>1, <1>3, <1>5

LEMMA FailType ==
  ASSUME StackTypes, NEW reports \in 0..2, Fail(reports)
  PROVE  response' \in Response \cup {None} /\ sent' \in Sent /\ sent'.reports = reports
<1>1. response' = response /\ response \in Response \cup {None}
  BY DEF Fail, StackTypes
<1>2. PICK r \in Response \cup {None} : r = response'
  BY <1>1
<1>3. Sends(reports, r)
  BY <1>2 DEF Fail
<1> QED
  BY <1>1, <1>3, SendsType

LEMMA SilentType ==
  ASSUME StackTypes, StaySilent
  PROVE  response' \in Response \cup {None} /\ sent' \in Sent /\ sent'.answer = None
  BY DEF StackTypes, StaySilent, Nothing, Sent

\* Whoever owns the continued transaction, if there is one, is an owner.
LEMMA OwnedType ==
  ASSUME NEW by \in Owner, Owned(by)
  PROVE  owner' \in Owner
  BY StackAssumption DEF Owned, NoOwner, Owner

LEMMA ReplyReports == Proved!IInv' => reply'.reports \in 0..1
  BY DEF Proved!IInv, Proved!TypeOK, Proved!Reply

-------------------------------------------------------------------------------
(* cr_process() keeps the invariant *)

\* A message of the continued transaction carries the transaction_id of its owner.
LEMMA ContinueIInv ==
  ASSUME IInv, connected, NEW w \in Files!AfterCheck, Continue(w), UNCHANGED link
  PROVE  /\ IInv'
         /\ ~PromptsAreTaken
         /\ sent'.answer # None /\ sent'.reports = 0 => sent'.answer.tx = owner.tx
<1>1. /\ StackTypes /\ Proved!IInv /\ w \in Proved!AfterCheck
      /\ UNCHANGED <<prompt, transaction, connected, subscribed>>
      /\ transaction \in TransactionIds /\ owner \in Owner /\ owner.stale \in BOOLEAN
  BY SameInputs DEF IInv, StackTypes, Continue, link, Owner
<1>2. ~PromptsAreTaken
  BY StackAssumption DEF Continue, ContinueFile, ContinueListing, Files!ContinueTransfer,
     PromptsAreTaken, Files!PromptsAreTaken, IInv, StackTypes
<1>3. transaction = owner.tx /\ ~owner.stale
  BY <1>2 DEF IInv, ContinuationBelongsToPrompt
<1> DEFINE Kept ==
      /\ Proved!IInv' /\ listing' \in 0..MaxMessages
      /\ response' \in Response \cup {None} /\ sent' \in Sent
      /\ sent'.answer # None /\ sent'.reports = 0 => sent'.answer.tx = owner.tx
<1>4. ASSUME ContinueFile(w) PROVE Kept
  <2>1. Proved!IInv'
    <3>1. Proved!ContinueTransfer(w)
      BY <1>4, SameContinue DEF ContinueFile
    <3> QED
      BY <1>1, <3>1, Proved!ContinueTransferIInv, ProvedConstants
  <2>2. /\ response' \in Response \cup {None} /\ sent' \in Sent
        /\ sent'.answer # None /\ sent'.reports = 0 => sent'.answer.tx = owner.tx
    <3>1. reply'.reports \in 0..2
      BY <2>1, ReplyReports
    <3>2. reply'.kind = "error" => reply'.reports = 1
      BY <1>4 DEF ContinueFile, Files!ContinueTransfer, Files!ReadFails, Files!Failure,
         Files!ReadSends, Files!DataSent, Files!Silence
    <3>3. CASE reply'.kind = "error" /\ Fail(reply'.reports)
      BY <1>1, <3>1, <3>2, <3>3, FailType
    <3>4. CASE reply'.kind # "error" /\ Answer(transaction, owner, reply'.reports)
      BY <1>1, <1>3, <3>1, <3>4, AnswerType
    <3> QED
      BY <1>4, <3>3, <3>4 DEF ContinueFile
  <2>3. listing' \in 0..MaxMessages
    BY <1>1, <1>4 DEF ContinueFile, StackTypes
  <2> QED
    BY <2>1, <2>2, <2>3
<1>5. ASSUME ContinueListing(w) PROVE Kept
  <2>1. Proved!IInv'
    <3>1. Proved!NothingForFiles(w)
      BY <1>5, SameNothing DEF ContinueListing
    <3> QED
      BY <1>1, <3>1, Proved!NothingForFilesIInv, ProvedConstants
  <2>2. CASE listing' = listing - 1 /\ Answer(transaction, owner, 0)
    <3>1. listing' \in 0..MaxMessages
      BY <1>1, <1>5, <2>2, StackAssumption DEF ContinueListing, StackTypes
    <3>2. /\ response' \in Response /\ sent' \in Sent
          /\ sent'.answer # None => sent'.answer.tx = transaction
      BY <1>1, <2>2, AnswerType
    <3> QED
      BY <1>3, <2>1, <3>1, <3>2
  <2>3. CASE listing' = 0 /\ StaySilent
    BY <1>1, <2>1, <2>3, SilentType, StackAssumption
  <2> QED
    BY <1>5, <2>2, <2>3 DEF ContinueListing
<1>6. Kept
  BY <1>4, <1>5 DEF Continue
<1>7. owner' \in Owner
  BY <1>1, OwnedType DEF Continue
<1>8. StackTypes'
  BY <1>1, <1>6, <1>7 DEF StackTypes, IInv
<1>9. ContinuationBelongsToPrompt'
  BY <1>1, <1>3, <1>6
  DEF Continue, Owned, ContinuationBelongsToPrompt, PromptsAreTaken, Files!PromptsAreTaken
<1> QED
  BY <1>2, <1>6, <1>8, <1>9 DEF IInv

LEMMA PromptFacts ==
  ASSUME NEW p \in Prompt
  PROVE  /\ p.tx \in TransactionIds /\ p.stale \in BOOLEAN
         /\ p.what = "init" => p.body \in Files!InitRequest
         /\ p.what = "data" => p.body \in Files!DataMessage
         /\ p.what = "notification" => p.body \in Files!Notification
<1>1. PICK r \in Request, stale \in BOOLEAN :
        p = [what |-> r.what, tx |-> r.tx, body |-> r.body, stale |-> stale]
  BY DEF Prompt, Received
<1>2. /\ r.tx \in TransactionIds
      /\ r.what = "init" => r.body \in Files!InitRequest
      /\ r.what = "data" => r.body \in Files!DataMessage
      /\ r.what = "notification" => r.body \in Files!Notification
  BY DEF Request, OtherPrompts
<1>3. p.what = r.what /\ p.tx = r.tx /\ p.body = r.body /\ p.stale = stale
  BY <1>1
<1> QED
  BY <1>2, <1>3

\* A file prompt is one step of the file service.
LEMMA FilePromptIInv ==
  ASSUME Proved!IInv, NEW p \in Prompt, prompt = p,
         NEW w \in Files!AfterCheck, HandleFilePrompt(w)
  PROVE  Proved!IInv'
<1> USE ProvedConstants
<1>1. w \in Proved!AfterCheck
  BY SameInputs
<1>2. CASE prompt.what = "init" /\ Files!TransferInit(prompt.body, w)
  <2>1. p.body \in Proved!InitRequest /\ Proved!TransferInit(p.body, w)
    BY <1>2, PromptFacts, SameInputs, SameTransferInit
  <2> QED
    BY <1>1, <2>1, Proved!TransferInitIInv
<1>3. CASE prompt.what = "data" /\ Files!TransferData(prompt.body, w)
  <2>1. p.body \in Proved!DataMessage /\ Proved!TransferData(p.body, w)
    BY <1>3, PromptFacts, SameInputs, SameTransferData
  <2> QED
    BY <1>1, <2>1, Proved!TransferDataIInv
<1>4. CASE prompt.what = "notification" /\ Files!TransferDataNotification(prompt.body, w)
  <2>1. p.body \in Proved!Notification /\ Proved!TransferDataNotification(p.body, w)
    BY <1>4, PromptFacts, SameInputs, SameNotification
  <2> QED
    BY <1>1, <2>1, Proved!TransferDataNotificationIInv
<1>5. CASE prompt.what = "files" /\ Files!DiscoverFiles(w)
  <2>1. Proved!DiscoverFiles(w)
    BY <1>5, SameDiscover
  <2> QED
    BY <1>1, <2>1, Proved!DiscoverFilesIInv
<1> QED
  BY <1>2, <1>3, <1>4, <1>5 DEF HandleFilePrompt

\* What a prompt is answered with, whoever handled it.
LEMMA TakePromptIInv ==
  ASSUME IInv, NEW w \in Files!AfterCheck, TakePrompt(w), UNCHANGED link
  PROVE  /\ IInv'
         /\ PromptsAreTaken
         /\ sent'.answer # None /\ sent'.reports = 0 => sent'.answer.tx = prompt.tx
<1>1. PICK p \in Prompt : p = prompt
  BY DEF IInv, StackTypes, TakePrompt
<1>2. /\ StackTypes /\ Proved!IInv /\ w \in Proved!AfterCheck
      /\ p.tx \in TransactionIds /\ p.stale \in BOOLEAN
      /\ PromptsAreTaken /\ listing = 0 /\ transaction \in TransactionIds
      /\ prompt' = None /\ connected' = connected /\ subscribed' = subscribed
  BY <1>1, PromptFacts, SameInputs
  DEF IInv, StackTypes, TakePrompt, PromptsAreTaken, link
<1> DEFINE Kept ==
      /\ Proved!IInv' /\ listing' \in 0..MaxMessages
      /\ response' \in Response \cup {None} /\ sent' \in Sent
      /\ sent'.answer # None /\ sent'.reports = 0 => sent'.answer.tx = prompt.tx
      /\ transaction' \in TransactionIds
      /\ ~PromptsAreTaken' => transaction' = prompt.tx
<1>3. ASSUME HandleFilePrompt(w) PROVE Kept
  <2>1. Proved!IInv'
    BY <1>1, <1>2, <1>3, FilePromptIInv
  <2>2. reply'.reports \in 0..1
    BY <2>1, ReplyReports
  <2>3. listing' = listing /\ transaction' = p.tx
    BY <1>1, <1>3 DEF HandleFilePrompt
  <2>4. CASE reply'.kind = "none" /\ StaySilent
    BY <1>1, <1>2, <2>1, <2>3, <2>4, SilentType, StackAssumption
  <2>5. CASE reply'.kind = "error" /\ Fail(reply'.reports + 1)
    <3>1. reply'.reports + 1 \in 1..2
      BY <2>2
    <3>2. PICK n \in 1..2 : n = reply'.reports + 1
      BY <3>1
    <3>3. response' \in Response \cup {None} /\ sent' \in Sent /\ sent'.reports = n
      BY <1>2, <2>5, <3>2, FailType
    <3> QED
      BY <1>1, <1>2, <2>1, <2>3, <3>3, StackAssumption
  <2>6. CASE Answer(prompt.tx, prompt, reply'.reports)
    <3>1. PICK n \in 0..2 : n = reply'.reports
      BY <2>2
    <3>2. /\ response' \in Response /\ sent' \in Sent
          /\ sent'.answer # None => sent'.answer.tx = p.tx
      BY <1>1, <1>2, <2>6, <3>1, AnswerType
    <3> QED
      BY <1>1, <1>2, <2>1, <2>3, <3>2, StackAssumption
  <2> QED
    BY <1>3, <2>4, <2>5, <2>6 DEF HandleFilePrompt, Finish
<1>4. ASSUME HandleOtherPrompt(w) PROVE Kept
  <2>1. Proved!IInv'
    <3>1. Proved!NothingForFiles(w)
      BY <1>4, SameNothing DEF HandleOtherPrompt
    <3> QED
      BY <1>2, <3>1, Proved!NothingForFilesIInv, ProvedConstants
  <2>2. CASE HandleListing
    <3>1. transaction' = p.tx /\ listing' \in 0..MaxMessages
      BY <1>1, <2>2, StackAssumption DEF HandleListing
    <3>2. CASE Answer(prompt.tx, prompt, 0)
      BY <1>1, <1>2, <2>1, <3>1, <3>2, AnswerType
    <3>3. CASE StaySilent
      BY <1>1, <1>2, <2>1, <3>1, <3>3, SilentType
    <3> QED
      BY <2>2, <3>2, <3>3 DEF HandleListing
  <2> DEFINE Numbered == /\ listing' = 0
                         /\ transaction' = IF prompt.what = "malformed" THEN transaction
                                           ELSE prompt.tx
  <2>3. ASSUME Numbered
        PROVE  /\ listing' \in 0..MaxMessages /\ transaction' \in TransactionIds
               /\ PromptsAreTaken'
    <3>1. Files!PromptsAreTaken'
      <4>1. continued \in Files!Continued
        BY <1>2, SameType DEF Files!TypeOK
      <4> QED
        BY <1>4, <4>1 DEF HandleOtherPrompt, Files!NothingForFiles, Files!NotContinued,
                          Files!PromptsAreTaken, Files!Continued
    <3> QED
      BY <1>1, <1>2, <2>3, <3>1, StackAssumption DEF PromptsAreTaken
  <2>4. CASE Numbered /\ prompt.what = "simple" /\ Answer(prompt.tx, prompt, 0)
    BY <1>1, <1>2, <2>1, <2>3, <2>4, AnswerType
  <2>5. CASE Numbered /\ StaySilent
    BY <1>1, <1>2, <2>1, <2>3, <2>5, SilentType
  <2>6. CASE Numbered /\ Fail(2)
    BY <1>1, <1>2, <2>1, <2>3, <2>6, FailType
  <2> QED
    BY <1>4, <2>2, <2>4, <2>5, <2>6 DEF HandleOtherPrompt
<1>5. Kept
  BY <1>3, <1>4 DEF TakePrompt
<1>6. PICK by \in Owner : by = [tx |-> prompt.tx, stale |-> FALSE]
  BY <1>1, <1>2 DEF Owner
<1>7. owner' \in Owner
  BY <1>6, OwnedType DEF TakePrompt
<1>8. StackTypes'
  BY <1>2, <1>5, <1>7 DEF StackTypes
<1>9. ContinuationBelongsToPrompt'
  <2>1. SUFFICES ASSUME ~PromptsAreTaken'
                 PROVE  transaction' = owner'.tx /\ ~owner'.stale
    BY DEF ContinuationBelongsToPrompt
  <2>2. owner' = by
    BY <1>2, <1>5, <1>6, <2>1, StackAssumption
    DEF TakePrompt, Owned, PromptsAreTaken, Files!PromptsAreTaken
  <2> QED
    BY <1>5, <1>6, <2>1, <2>2
<1> QED
  BY <1>2, <1>5, <1>8, <1>9 DEF IInv

LEMMA IdleIInv ==
  ASSUME IInv, NEW w \in Files!AfterCheck, Idle(w), UNCHANGED link
  PROVE  IInv' /\ sent'.answer = None
<1>1. Proved!IInv'
  <2>1. Proved!NothingForFiles(w)
    BY SameNothing DEF Idle
  <2> QED
    BY <2>1, SameInputs, Proved!NothingForFilesIInv, ProvedConstants DEF IInv
<1>2. PICK notified \in BOOLEAN : sent' = [Nothing EXCEPT !.notified = notified]
  BY DEF Idle
<1>3. sent' \in Sent /\ sent'.answer = None
  BY <1>2 DEF Nothing, Sent
<1>4. StackTypes'
  BY <1>3 DEF Idle, IInv, StackTypes, link
<1>5. PromptsAreTaken'
  <2>1. continued \in Files!Continued
    BY SameType DEF IInv, Files!TypeOK
  <2> QED
    BY <2>1 DEF Idle, Files!NothingForFiles, Files!NotContinued, PromptsAreTaken,
                Files!PromptsAreTaken, Files!Continued
<1> QED
  BY <1>1, <1>3, <1>4, <1>5 DEF IInv, ContinuationBelongsToPrompt

LEMMA ProcessIInv ==
  ASSUME IInv, Process
  PROVE  /\ IInv'
         /\ sent'.answer # None /\ sent'.reports = 0 =>
              sent'.answer.tx = IF PromptsAreTaken THEN prompt.tx ELSE owner.tx
<1>1. PICK w \in Files!AfterCheck : Continue(w) \/ TakePrompt(w) \/ Idle(w)
  BY DEF Process
<1>2. connected /\ UNCHANGED link
  BY DEF Process
<1>3. CASE Continue(w)
  BY <1>2, <1>3, ContinueIInv
<1>4. CASE TakePrompt(w)
  BY <1>2, <1>4, TakePromptIInv
<1>5. CASE Idle(w)
  BY <1>2, <1>5, IdleIInv
<1> QED
  BY <1>1, <1>3, <1>4, <1>5

-------------------------------------------------------------------------------
(* The link's events keep the invariant *)

LEMMA OpenIInv ==
  ASSUME IInv, Open
  PROVE  IInv'
<1>1. Proved!IInv'
  BY SameConnect, Proved!ConnectIInv, ProvedConstants DEF Open, IInv
<1>2. sent' \in Sent /\ owner' \in Owner /\ listing' \in 0..MaxMessages
  BY StackAssumption DEF Open, Nothing, Sent, NoOwner, Owner
<1>3. StackTypes'
  BY <1>2 DEF Open, IInv, StackTypes
<1>4. PromptsAreTaken'
  BY DEF Open, Files!Connect, Files!NotContinued, PromptsAreTaken, Files!PromptsAreTaken
<1> QED
  BY <1>1, <1>3, <1>4 DEF IInv, ContinuationBelongsToPrompt

LEMMA QuietTypes ==
  ASSUME Quiet
  PROVE  sent' \in Sent /\ listing' = listing /\ continued' = continued
  BY DEF Quiet, Nothing, Sent

LEMMA PromptMade ==
  ASSUME NEW r \in Request, NEW stale \in BOOLEAN
  PROVE  Received(r, stale) \in Prompt
<1> DEFINE p == [what |-> r.what, tx |-> r.tx, body |-> r.body, stale |-> stale]
<1>1. \E q \in Request, t \in BOOLEAN :
        p = [what |-> q.what, tx |-> q.tx, body |-> q.body, stale |-> t]
  OBVIOUS
<1> QED
  BY <1>1 DEF Prompt, Received

LEMMA ReceivedAges ==
  ASSUME NEW r, NEW stale
  PROVE  [Received(r, stale) EXCEPT !.stale = TRUE] = Received(r, TRUE)
<1>1. PICK g : g = [[what |-> r.what, tx |-> r.tx, body |-> r.body, stale |-> stale]
                      EXCEPT !.stale = TRUE]
  OBVIOUS
<1>2. g = [what |-> r.what, tx |-> r.tx, body |-> r.body, stale |-> TRUE]
  BY <1>1
<1> QED
  BY <1>1, <1>2 DEF Received

\* Ageing changes nothing but the mark.
LEMMA AgedTypes ==
  /\ \A r \in Prompt \cup {None} : Aged(r) \in Prompt \cup {None}
  /\ \A r \in Response \cup {None} : Aged(r) \in Response \cup {None}
  /\ \A r \in Owner : Aged(r) \in Owner
<1>1. ASSUME NEW r \in Prompt PROVE Aged(r) \in Prompt \cup {None}
  <2>1. PICK q \in Request, stale \in BOOLEAN : r = Received(q, stale)
    BY DEF Prompt
  <2>2. [r EXCEPT !.stale = TRUE] = Received(q, TRUE)
    <3>1. [Received(q, stale) EXCEPT !.stale = TRUE] = Received(q, TRUE)
      BY ReceivedAges
    <3> QED
      BY <2>1, <3>1
  <2> QED
    BY <2>2, PromptMade DEF Aged
<1>2. ASSUME NEW r \in Response PROVE Aged(r) \in Response \cup {None}
  BY DEF Aged, Response
<1>3. ASSUME NEW r \in Owner, r # None PROVE Aged(r) \in Owner
  BY <1>3 DEF Aged, Owner
<1>4. Aged(None) = None
  BY DEF Aged
<1> QED
  BY <1>1, <1>2, <1>3, <1>4

LEMMA CloseIInv ==
  ASSUME IInv, Close
  PROVE  IInv'
<1>1. Proved!IInv' /\ sent' \in Sent /\ listing' = listing
  BY QuietKeepsFiles, QuietTypes DEF Close, IInv
<1>2. /\ prompt' \in Prompt \cup {None} /\ response' \in Response \cup {None}
      /\ owner' \in Owner
  BY AgedTypes DEF Close, IInv, StackTypes
<1>3. StackTypes'
  BY <1>1, <1>2 DEF Close, IInv, StackTypes
<1> QED
  BY <1>1, <1>3 DEF Close, IInv, ContinuationBelongsToPrompt

\* An event in which the connection lasts, and that touches neither the
\* transaction nor who owns it.
LEMMA EventIInv ==
  ASSUME IInv, Proved!IInv', connected, connected' \in BOOLEAN,
         subscribed' \in BOOLEAN,
         prompt' \in Prompt \cup {None}, response' \in Response \cup {None},
         sent' \in Sent,
         UNCHANGED <<continued, listing, transaction, owner>>
  PROVE  IInv'
<1>1. StackTypes'
  BY DEF IInv, StackTypes
<1> QED
  BY <1>1
  DEF IInv, ContinuationBelongsToPrompt, PromptsAreTaken, Files!PromptsAreTaken

LEMMA SubscribeIInv ==
  ASSUME IInv, Subscribe
  PROVE  IInv'
<1>1. Proved!IInv' /\ sent' \in Sent /\ UNCHANGED <<listing, continued>>
  BY QuietKeepsFiles, QuietTypes DEF Subscribe, IInv
<1> QED
  BY <1>1, EventIInv DEF Subscribe, IInv, StackTypes

LEMMA StorePromptIInv ==
  ASSUME IInv, NEW r \in Prompts, StorePrompt(r)
  PROVE  IInv'
<1>1. Proved!IInv' /\ sent' \in Sent /\ UNCHANGED <<listing, continued>>
  BY QuietKeepsFiles, QuietTypes DEF StorePrompt, IInv
<1>2. prompt' \in Prompt
  <2>1. r \in Request
    BY StackAssumption
  <2> QED
    BY <2>1, PromptMade DEF StorePrompt
<1> QED
  BY <1>1, <1>2, EventIInv DEF StorePrompt, IInv, StackTypes, link

LEMMA ReadResponseIInv ==
  ASSUME IInv, ReadResponse
  PROVE  IInv'
<1>1. Proved!IInv'
  <2>1. reply' = Proved!Silence /\ UNCHANGED <<xfer, continued, watchdog, history>>
    BY DEF ReadResponse, Files!Silence, Proved!Silence
  <2> QED
    BY <2>1, SilenceKeepsFiles DEF IInv
<1>2. sent' \in Sent
  <2>1. PICK r \in Response \cup {None} : r = response
    BY DEF IInv, StackTypes
  <2>2. sent' = [reports |-> 0, notified |-> FALSE, answer |-> r]
    BY <2>1 DEF ReadResponse, Nothing
  <2> QED
    BY <2>2 DEF Sent
<1>3. UNCHANGED <<continued, listing, transaction, owner, prompt, connected, subscribed>>
      /\ connected
  BY DEF ReadResponse, link
<1>4. response' \in Response \cup {None}
  BY DEF ReadResponse
<1> QED
  BY <1>1, <1>2, <1>3, <1>4, EventIInv DEF IInv, StackTypes

LEMMA LinkEventIInv ==
  ASSUME IInv, LinkEvent
  PROVE  IInv'
  BY OpenIInv, CloseIInv, SubscribeIInv, StorePromptIInv, ReadResponseIInv DEF LinkEvent

LEMMA StutterIInv ==
  ASSUME IInv, UNCHANGED vars
  PROVE  IInv'
<1>1. UNCHANGED <<xfer, continued, watchdog, reply, history>>
  BY DEF vars, files
<1>2. Proved!IInv'
  BY <1>1
  DEF IInv, Proved!IInv, Proved!TypeOK, Proved!OpenHasRate, Proved!WriteStaysInInit,
      Proved!ContinuationSound, Proved!CounterIsWindow, Proved!FlowControl,
      Proved!WindowNumbering, Proved!CompleteIsQuiet, Proved!StraightShape,
      Proved!Contiguous, Proved!CompleteIsWhole
<1>3. UNCHANGED <<listing, connected, subscribed, prompt, transaction, response, sent,
                  owner>>
  BY DEF vars, link
<1> QED
  BY <1>1, <1>2, <1>3
  DEF IInv, StackTypes, ContinuationBelongsToPrompt, PromptsAreTaken,
      Files!PromptsAreTaken

-------------------------------------------------------------------------------
(* Theorems *)

\* The invariant is inductive: every reachable state satisfies it.
THEOREM Invariance == Spec => []IInv
<1>1. IInv /\ [Next]_vars => IInv'
  BY ProcessIInv, LinkEventIInv, StutterIInv DEF Next
<1> QED BY <1>1, InitIInv, PTL DEF Spec

\* Whatever prompts come over whatever connections, the buffers of the stack hold
\* prompts, responses and reports, and the file service below keeps its types.
THEOREM TypeCorrect == Spec => []TypeOK
<1>1. IInv => TypeOK
  BY SameType DEF IInv, StackTypes, TypeOK
<1> QED BY <1>1, Invariance, PTL

\* Whatever comes while a transaction is being continued, what is sent of it was
\* asked for over this connection and goes out under the prompt's transaction_id.
THEOREM ContinuationIsOwned == Spec => []ContinuationBelongsToPrompt
<1>1. IInv => ContinuationBelongsToPrompt
  BY DEF IInv
<1> QED BY <1>1, Invariance, PTL

\* A step of cr_process() that reports no error never answers under the
\* transaction_id of another prompt than the one it is working for.
THEOREM AnswersAreNamed == Spec => AnswerNamesItsPrompt
<1>1. IInv /\ [Next]_vars =>
        [Process /\ sent'.answer # None /\ sent'.reports = 0 =>
           sent'.answer.tx = IF PromptsAreTaken THEN prompt.tx ELSE owner.tx]_vars
  BY ProcessIInv
<1> QED BY <1>1, Invariance, PTL DEF Spec, AnswerNamesItsPrompt

================================================================================
