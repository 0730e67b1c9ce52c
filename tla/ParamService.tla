------------------------------ MODULE ParamService -----------------------------
(***************************************************************************)
(* The listings of the parameter service, reach-c-stack/cr_params.c: the   *)
(* descriptions of parameters, the names of their enumerations and bits,   *)
(* and their values, each asked for by a list of ids or, by an empty list, *)
(* for all parameters there are.                                           *)
(*                                                                         *)
(* A reply has room for a few objects.  What is left is sent, one message  *)
(* per call of cr_process(), before the next prompt is taken (a continued  *)
(* transaction).  Between the calls the position is kept partly in the     *)
(* stack (the list, an index into it, the objects left) and partly in the  *)
(* application's repository, App/params.c (a cursor into its table of      *)
(* parameters, another one into its table of extensions).                  *)
(*                                                                         *)
(* A parameter is its id: descriptions and values are abstracted.  A       *)
(* continued transaction that has nothing more to send falls through to    *)
(* the next prompt in the same call of cr_process(); here it is a step of  *)
(* its own, as if the prompt came a call later.                            *)
(*                                                                         *)
(* The requests named are copied id by id past an affirm(): an id that is  *)
(* too great for the stack stops the firmware until it is reset.           *)
(***************************************************************************)
EXTENDS Integers, Sequences, FiniteSets

CONSTANTS
  Params,          \* ids of the parameters, in the order of the table: param_desc
  Extended,        \* the id each entry of param_ex_desc belongs to
  Requests,        \* the lists of ids clients send
  TooGreat,        \* the ids among them that are MAX_NUM_PARAM_ID or more
  All,             \* no id: -1
  DescPerReply,    \* REACH_COUNT_PARAM_DESC_IN_RESPONSE
  ValuesPerReply,  \* REACH_COUNT_PARAM_READ_VALUES
  BufferCount      \* REACH_PARAM_BUFFER_COUNT: length of the array of requested ids

Known == {Params[i] : i \in DOMAIN Params}

Ids == Known \cup UNION {{r[i] : i \in DOMAIN r} : r \in Requests}

\* The sizes of reach_ble_proto_sizes.h: whole replies fill the array of ids
\* exactly.  The table is longer than one reply of descriptions.
ASSUME SizesAssumption ==
  /\ DescPerReply \in Nat \ {0} /\ ValuesPerReply \in Nat \ {0}
  /\ BufferCount \in Nat
  /\ DescPerReply < BufferCount /\ BufferCount % DescPerReply = 0
  /\ ValuesPerReply < BufferCount /\ BufferCount % ValuesPerReply = 0
  /\ Len(Params) > DescPerReply

\* nanopb decodes no longer list than the array has room for.
ASSUME RequestsAssumption ==
  \A r \in Requests : /\ r \in Seq(Ids) /\ Len(r) <= BufferCount
                      /\ \A i \in DOMAIN r : r[i] # All

ASSUME TableAssumption ==
  /\ Params \in Seq(Known) /\ Extended \in Seq(Known)
  /\ \A i, j \in DOMAIN Params : Params[i] = Params[j] => i = j
  /\ All \notin Known /\ Known \cap TooGreat = {}

VARIABLES
  running,     \* FALSE once an affirm() has failed
  continued,   \* pvtCr_continued_message_type and its two object counts
  asked,       \* sCr_requested_param_array, as long as it is filled
  index,       \* sCr_requested_param_index
  info_count,  \* sCr_requested_param_info_count
  read_count,  \* sCr_requested_param_read_count
  cursor,      \* sCurrentParameter
  ex,          \* sCurrentExParam, sRequestedParamPid, sCr_num_ex_this_pid
  reply,       \* the message the last step left to be encoded
  history      \* what a client asked for and was given (no code reads it)

request == <<asked, index, info_count, read_count>>
vars == <<running, continued, request, cursor, ex, reply, history>>

Types == {"INVALID", "DISCOVER_PARAMETERS", "DISCOVER_PARAM_EX", "READ_PARAMETERS"}
NotContinued == [type |-> "INVALID", count |-> 0, remaining |-> 0]

\* NO_DATA: nothing is encoded, nothing is sent.
Silence == [kind |-> "none", objects |-> <<>>, count |-> 0, remaining |-> 0]

Nobody == [want |-> <<>>, got |-> <<>>]

Init ==
  /\ running = TRUE
  /\ continued = NotContinued
  /\ asked = <<>> /\ index = 0 /\ info_count = 0 /\ read_count = 0
  /\ cursor = 0
  /\ ex = [cursor |-> 0, pid |-> All, num |-> 0]
  /\ reply = Silence
  /\ history = Nobody

-------------------------------------------------------------------------------
(* The repository: App/params.c *)

\* Where crcb_parameter_discover_reset() puts the cursor: on the first entry, when
\* no entry has the id.
Entry(id) == IF id \in Known THEN CHOOSE i \in DOMAIN Params : Params[i] = id ELSE 1

\* At most n entries of s after the first from ones.
Chunk(s, from, n) == SubSeq(s, from + 1, IF from + n < Len(s) THEN from + n ELSE Len(s))

\* crcb_parameter_ex_get_count()
ExCount(id) == Cardinality({i \in DOMAIN Extended : Extended[i] = id})

\* The entry crcb_parameter_ex_discover_next() finds, 0 for none.
ExNext(e) ==
  LET hits == {i \in DOMAIN Extended : i > e.cursor /\ e.pid \in {All, Extended[i]}}
  IN  IF hits = {} THEN 0 ELSE CHOOSE i \in hits : \A j \in hits : i <= j

ExAfter(e) == [e EXCEPT !.cursor = IF ExNext(e) = 0 THEN @ ELSE ExNext(e)]

-------------------------------------------------------------------------------
(* Replies *)

\* cr_process() takes a prompt only when no transaction is being continued.
PromptsAreTaken == running /\ continued.type = "INVALID"

\* Mutant: a transaction with nothing left goes on.
Over_GoesOn(type, left, first) == type

\* handle_continued_transactions() ends the transaction when nothing is left;
\* handle_message(), which sends the first reply, does not.
Over(type, left, first) == IF left = 0 /\ ~first THEN "INVALID" ELSE type

Send(kind, objects) ==
  reply' = [kind |-> kind, objects |-> objects, count |-> continued'.count,
            remaining |-> continued'.remaining]

\* Mutant: the first object is not counted.
Fresh_OneShort(type, count) == [type |-> type, count |-> count, remaining |-> count - 1]

Fresh(type, count) == [type |-> type, count |-> count, remaining |-> count]

\* The objects of one listing, in the order they are given.
Recorded(ids, objects, first) ==
  history' = IF first THEN [want |-> IF ids = <<>> THEN Params ELSE ids, got |-> objects]
             ELSE [history EXCEPT !.got = @ \o objects]

-------------------------------------------------------------------------------
(* Listings of all parameters.  The cursor is the application's; the stack      *)
(* counts down the objects left, and forgets them when the table runs out.      *)

\* Mutant: the count of objects left is not cleared at the end of the table.
LeftOfTable_NotCleared(c, objects, n) == c.remaining - Len(objects) + 1

LeftOfTable(c, objects, n) ==
  IF Len(objects) < n THEN 0 ELSE c.remaining - Len(objects)

\* A continued transaction whose table has run out ends only when it reads.  The
\* index counts along, but nothing looks at it before it is set again: it is kept 0.
ListAll(kind, c, from, n, first) ==
  LET objects == Chunk(Params, from, n)
      left == LeftOfTable(c, objects, n)
  IN  /\ cursor' = from + Len(objects)
      /\ IF objects = <<>>
         THEN /\ continued' = [c EXCEPT !.remaining = 0,
                                        !.type = IF kind = "values" THEN "INVALID" ELSE @]
              /\ reply' = Silence
         ELSE /\ continued' = [c EXCEPT !.remaining = left,
                                        !.type = Over(@, left, first)]
              /\ Send(kind, objects)
      /\ Recorded(<<>>, objects, first)

-------------------------------------------------------------------------------
(* Listings of the parameters named.  The list and the index into it are the    *)
(* stack's: an id that was used is overwritten, and never looked at again.  A    *)
(* reply that is not filled up ends the transaction.                            *)

\* Mutant: the index is not advanced.
Advanced_Stays(from, objects) == from

Advanced(from, objects) == from + Len(objects)

ListNamed(kind, c, ids, from, n, objects, first) ==
  LET left == c.remaining - Len(objects)
      type == IF Len(objects) < n THEN "INVALID" ELSE c.type
  IN  /\ index' = Advanced(from, objects)
      /\ IF objects = <<>>
         THEN continued' = [c EXCEPT !.type = "INVALID"] /\ reply' = Silence
         ELSE /\ continued' = [c EXCEPT !.remaining = left,
                                        !.type = Over(type, left, first)]
              /\ Send(kind, objects)
      /\ Recorded(ids, objects, first)

\* An id the repository does not know is answered with its first entry.
DescribeNamed(c, ids, from, first) ==
  LET listed == Chunk(ids, from, DescPerReply)
      objects == [i \in DOMAIN listed |-> Params[Entry(listed[i])]]
  IN  /\ ListNamed("infos", c, ids, from, DescPerReply, objects, first)
      /\ cursor' = IF listed = <<>> THEN cursor ELSE Entry(listed[Len(listed)])

\* An id the repository does not know ends the listing.
ReadNamed(c, ids, from, first) ==
  LET listed == Chunk(ids, from, ValuesPerReply)
      unknown == {i \in DOMAIN listed : listed[i] \notin Known}
      objects == IF unknown = {} THEN listed
                 ELSE SubSeq(listed, 1, (CHOOSE i \in unknown : \A j \in unknown : i <= j) - 1)
  IN  /\ ListNamed("values", c, ids, from, ValuesPerReply, objects, first)
      /\ read_count' = IF unknown = {} THEN Len(ids) ELSE 0
      /\ cursor' = cursor

-------------------------------------------------------------------------------
(* pvtCrParam_discover_parameters, pvtCrParam_read_param *)

\* affirm(request->parameter_ids[i] < MAX_NUM_PARAM_ID), in each of the three
\* handlers that take a list.
Affirmed(ids) == \A i \in DOMAIN ids : ids[i] \notin TooGreat

\* The breakpoint in affirm() is not returned from.  What the handler has assigned
\* before it is lost at the reset.
Halt(ids) ==
  /\ PromptsAreTaken
  /\ ~Affirmed(ids)
  /\ running' = FALSE
  /\ UNCHANGED <<continued, request, cursor, ex, reply, history>>

\* Any prompt's list is kept in the one array there is.
Asked(ids) == asked' = IF ids = <<>> THEN asked ELSE ids

DiscoverParameters(ids) ==
  /\ PromptsAreTaken /\ Affirmed(ids)
  /\ Asked(ids)
  /\ info_count' = Len(ids)
  /\ IF ids = <<>>
     THEN /\ ListAll("infos", Fresh("DISCOVER_PARAMETERS", Len(Params)), 0,
                     DescPerReply, TRUE)
          /\ index' = 0
     ELSE DescribeNamed(Fresh("DISCOVER_PARAMETERS", Len(ids)), ids, 0, TRUE)
  /\ UNCHANGED <<read_count, ex>>

ContinueDiscover ==
  /\ continued.type = "DISCOVER_PARAMETERS"
  /\ IF info_count = 0
     THEN ListAll("infos", continued, cursor, DescPerReply, FALSE) /\ index' = index
     ELSE DescribeNamed(continued, asked, index, FALSE)
  /\ UNCHANGED <<asked, info_count, read_count, ex>>

ReadParameters(ids) ==
  /\ PromptsAreTaken /\ Affirmed(ids)
  /\ Asked(ids)
  /\ IF ids = <<>>
     THEN /\ ListAll("values", Fresh("READ_PARAMETERS", Len(Params)), 0,
                     ValuesPerReply, TRUE)
          /\ index' = 0 /\ read_count' = 0
     ELSE ReadNamed(Fresh("READ_PARAMETERS", Len(ids)), ids, 0, TRUE)
  /\ UNCHANGED <<info_count, ex>>

ContinueRead ==
  /\ continued.type = "READ_PARAMETERS"
  /\ IF read_count = 0
     THEN /\ ListAll("values", continued, cursor, ValuesPerReply, FALSE)
          /\ UNCHANGED <<index, read_count>>
     ELSE ReadNamed(continued, asked, index, FALSE)
  /\ UNCHANGED <<asked, info_count, ex>>

-------------------------------------------------------------------------------
(* pvtCrParam_discover_parameters_ex: one entry in each message *)

SendEx(e) ==
  /\ ex' = ExAfter(e)
  /\ Send("ex", IF ExNext(e) = 0 THEN <<>> ELSE <<Extended[ExNext(e)]>>)

\* Only a request for all entries resets the application's cursor.  What the
\* first search finds is not checked.
DiscoverParamEx(ids) ==
  LET total == IF ids = <<>> THEN Len(Extended)
               ELSE Cardinality({h \in (DOMAIN ids) \X (DOMAIN Extended) :
                                   ids[h[1]] = Extended[h[2]]})
      num == IF ids = <<>> THEN 0 ELSE ExCount(ids[1])
  IN  /\ PromptsAreTaken /\ Affirmed(ids)
      /\ Asked(ids)
      /\ info_count' = Len(ids)
      /\ index' = 0
      /\ IF total = 0
         THEN /\ continued' = NotContinued
              /\ Send("ex", <<>>)
              /\ ex' = IF ids = <<>> THEN [cursor |-> 0, pid |-> All, num |-> num]
                       ELSE [ex EXCEPT !.num = num]
         ELSE /\ continued' = [type |-> IF total = 1 THEN "INVALID" ELSE "DISCOVER_PARAM_EX",
                               count |-> total, remaining |-> total - 1]
              /\ SendEx(IF ids = <<>> THEN [cursor |-> 0, pid |-> All, num |-> num]
                        ELSE [ex EXCEPT !.num = num])
      /\ UNCHANGED <<read_count, cursor, history>>

MoreEx(e) ==
  /\ ExNext(e) # 0
  /\ continued' = [continued EXCEPT !.remaining = @ - 1,
                                    !.type = Over(@, continued.remaining - 1, FALSE)]
  /\ SendEx([e EXCEPT !.num = 0])

NoMoreEx(e) ==
  /\ ExNext(e) = 0
  /\ continued' = [continued EXCEPT !.type = "INVALID"]
  /\ ex' = e
  /\ reply' = Silence

\* The cursor is put before the entries of the next parameter, unless the search
\* for those of the first one has never succeeded.
ContinueNextEx ==
  LET id == asked[index + 2]
      e == IF ex.num = 0 THEN [cursor |-> 0, pid |-> id, num |-> ExCount(id)] ELSE ex
  IN  /\ ExNext(ex) = 0 /\ info_count # 0 /\ index + 1 < info_count
      /\ index' = index + 1
      /\ MoreEx(e) \/ NoMoreEx(e)

ContinueLastEx ==
  /\ ExNext(ex) = 0
  /\ info_count = 0 \/ index + 1 >= info_count
  /\ index' = IF info_count = 0 THEN index ELSE index + 1
  /\ continued' = [continued EXCEPT !.type = "INVALID",
                                    !.count = IF info_count = 0 THEN @ ELSE 0]
  /\ reply' = Silence
  /\ ex' = ex

\* A transaction with nothing left to send has ended before (Over), so the check
\* for it at the start of the handler never fires.
ContinueEx ==
  /\ continued.type = "DISCOVER_PARAM_EX"
  /\ \/ MoreEx(ex) /\ index' = index
     \/ ContinueNextEx
     \/ ContinueLastEx
  /\ UNCHANGED <<asked, info_count, read_count, cursor, history>>

-------------------------------------------------------------------------------
(* What else moves this state *)

\* pvtCrParam_config_param_notify() asks the repository whether it knows the id,
\* and so moves the cursor.
EnableNotification(id) ==
  /\ PromptsAreTaken
  /\ continued' = NotContinued
  /\ cursor' = Entry(id) - 1
  /\ reply' = [Silence EXCEPT !.kind = "other"]
  /\ UNCHANGED <<request, ex, history>>

\* cr_set_comm_link_connected(), on a new connection.
Connect ==
  /\ continued' = NotContinued
  /\ reply' = Silence
  /\ history' = Nobody
  /\ UNCHANGED <<request, cursor, ex>>

\* A device that has stopped comes back only by a reset, as it was at first.
Reset ==
  /\ ~running
  /\ running' = TRUE
  /\ continued' = NotContinued
  /\ asked' = <<>> /\ index' = 0 /\ info_count' = 0 /\ read_count' = 0
  /\ cursor' = 0
  /\ ex' = [cursor |-> 0, pid |-> All, num |-> 0]
  /\ reply' = Silence
  /\ history' = Nobody

Runs == running /\ running' = running

Continue == Runs /\ (ContinueDiscover \/ ContinueRead \/ ContinueEx)

Prompt ==
  /\ Runs
  /\ \/ \E ids \in Requests : DiscoverParameters(ids)
     \/ \E ids \in Requests : ReadParameters(ids)
     \/ \E ids \in Requests : DiscoverParamEx(ids)
     \/ \E ids \in Requests : ids # <<>> /\ EnableNotification(ids[1])

Next ==
  \/ Prompt
  \/ Continue
  \/ Runs /\ Connect
  \/ \E ids \in Requests : Halt(ids)
  \/ Reset

Spec == Init /\ [][Next]_vars

\* cr_process() is called from the main loop for as long as the device runs.
FairSpec == Spec /\ WF_vars(Continue)

-------------------------------------------------------------------------------
(* Properties *)

ListingTypeOK ==
  /\ continued \in [type : Types, count : Nat, remaining : Nat]
  /\ asked \in Seq(Ids)
  /\ index \in Nat /\ info_count \in Nat /\ read_count \in Nat
  /\ cursor \in 0..Len(Params)
  /\ ex \in [cursor : 0..Len(Extended), pid : Ids \cup {All}, num : Nat]
  /\ reply \in [kind : {"none", "infos", "values", "ex", "other"},
                objects : Seq(Ids), count : Nat, remaining : Nat]
  /\ history \in [want : Seq(Ids), got : Seq(Ids)]

\* The counters are what the C types allow; pvtCr_num_remaining_objects, which is
\* unsigned, is never counted down below zero.
TypeOK == running \in BOOLEAN /\ ListingTypeOK

\* Requests that name only parameters there are.
AllKnown == \A i \in DOMAIN history.want : history.want[i] \in Known

Asking == INSTANCE Listing WITH
  Objects <- Known,
  want <- IF AllKnown THEN history.want ELSE <<>>,
  got  <- IF AllKnown THEN history.got ELSE <<>>

\* Descriptions and values: over however many messages, and whatever the cursors
\* were moved to before, the client gets what it asked for, in order and all of
\* it, before the next request is taken.
ImplementsListing == Asking!Spec

\* Every message says exactly how much of the listing is still to come, so that
\* remaining_objects is zero in the last one and only there.
RemainingIsExact ==
  reply.kind \in {"infos", "values"} /\ AllKnown =>
    /\ reply.count = Len(history.want)
    /\ reply.remaining = Len(history.want) - Len(history.got)

\* The loop over the requested ids never meets its affirm(): the index it looks
\* at is inside the array, whatever is left of the list.
IndexInArray ==
  /\ continued.type = "DISCOVER_PARAMETERS" /\ info_count # 0 =>
       \/ index + DescPerReply <= BufferCount
       \/ info_count < BufferCount
  /\ continued.type = "READ_PARAMETERS" /\ read_count # 0 =>
       \/ index + ValuesPerReply <= BufferCount
       \/ read_count < BufferCount

\* A listing that has begun ends, whatever list it was asked for by, and prompts are
\* taken again.  A list with an id of MAX_NUM_PARAM_ID or more begins none: it stops
\* the firmware.
ListingEnds == running /\ ~PromptsAreTaken ~> PromptsAreTaken

===============================================================================
