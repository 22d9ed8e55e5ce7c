------------------------------ MODULE Channels ------------------------------
(***************************************************************************)
(* src/src/platform/channels.js over the tables channel_messages and       *)
(* outbox: messages from outside become events, and deliveries that were   *)
(* recorded with an answer are sent until they succeed or are given up.    *)
(***************************************************************************)
EXTENDS Naturals

CONSTANTS
  Messages,
  TooLong,      \* those whose account and thread make a key publishEvent refuses
  Deliveries,   \* rows the outbox may come to hold
  Attempts      \* a delivery that failed so often is given up (5)

ASSUME ChannelsAssumption ==
  TooLong \subseteq Messages /\ Attempts \in Nat \ {0}

VARIABLES
  inbound,      \* status of each row of channel_messages
  announced,    \* how many events channel.message each message has become
  outbox,       \* [status, attempt, due] of each row of outbox
  batch,        \* the rows a drain has read and not come to yet
  sending,      \* the row it awaits, if any
  landed,       \* whether that one was handed over
  sends         \* how often each delivery has reached the outside

channelsVars == <<inbound, announced, outbox, batch, sending, landed, sends>>
inboundVars == <<inbound, announced>>
outboxVars == <<outbox, batch, sending, landed, sends>>

OutboxRow == [status : {"none", "PENDING", "RETRY", "DELIVERED", "FAILED", "purged"},
              attempt : Nat, due : BOOLEAN]

ChannelsTypeOK ==
  /\ inbound \in [Messages -> {"none", "PENDING", "DELIVERED"}]
  /\ announced \in [Messages -> Nat]
  /\ outbox \in [Deliveries -> OutboxRow]
  /\ batch \subseteq Deliveries /\ sending \subseteq Deliveries /\ landed \in BOOLEAN
  /\ sends \in [Deliveries -> Nat]

ChannelsInit ==
  /\ inbound = [x \in Messages |-> "none"]
  /\ announced = [x \in Messages |-> 0]
  /\ outbox = [r \in Deliveries |-> [status |-> "none", attempt |-> 0, due |-> FALSE]]
  /\ batch = {} /\ sending = {} /\ landed = FALSE
  /\ sends = [r \in Deliveries |-> 0]

-----------------------------------------------------------------------------
(* Inbound.                                                                *)

\* Faulty: the key of the event is not that of the message.
BadReplayed(x) == FALSE
\* publishEvent finds the event of this message under its idempotency key.
Replayed(x) == announced[x] > 0

Published(xs) == [x \in Messages |-> IF x \in xs /\ ~Replayed(x) THEN announced[x] + 1 ELSE announced[x]]
Marked(xs) == [x \in Messages |-> IF x \in xs THEN "DELIVERED" ELSE inbound[x]]

\* A message that is repeated by its source finds its row.  One whose key is
\* refused stays PENDING, and ingest throws.
Ingest(x) ==
  /\ IF inbound[x] = "DELIVERED" THEN UNCHANGED inboundVars
     ELSE IF x \in TooLong
     THEN inbound' = [inbound EXCEPT ![x] = "PENDING"] /\ UNCHANGED announced
     ELSE inbound' = Marked({x}) /\ announced' = Published({x})
  /\ UNCHANGED outboxVars

Pending == {x \in Messages : inbound[x] = "PENDING"}

\* The rows are delivered one after the other, those received last first.  The
\* first whose key is refused ends the pass, and the housekeeping round with it.
ReconcileInbound ==
  \E xs \in SUBSET (Pending \ TooLong) :
    /\ Pending \cap TooLong = {} => xs = Pending
    /\ inbound' = Marked(xs) /\ announced' = Published(xs)

Refused == Pending \cap TooLong # {}

-----------------------------------------------------------------------------
(* Outbound.                                                               *)

\* appendMessageAndEnqueueOutbox: a repeated call finds its row.
Enqueue(r) ==
  /\ outbox[r].status = "none"
  /\ outbox' = [outbox EXCEPT ![r] = [status |-> "PENDING", attempt |-> 0, due |-> TRUE]]
  /\ UNCHANGED <<inboundVars, batch, sending, landed, sends>>

\* The session of the delivery is purged: its goals have come to their end.
Purge(r) ==
  /\ outbox[r].status \notin {"none", "purged"}
  /\ outbox' = [outbox EXCEPT ![r].status = "purged"]
  /\ UNCHANGED <<inboundVars, batch, sending, landed, sends>>

RetryComesDue(r) ==
  /\ outbox[r].status = "RETRY" /\ ~outbox[r].due
  /\ outbox' = [outbox EXCEPT ![r].due = TRUE]
  /\ UNCHANGED <<inboundVars, batch, sending, landed, sends>>

Open(r) == outbox[r].status \in {"PENDING", "RETRY"}

\* Faulty: a delivery that failed is not looked at again.
BadRetried(r) == outbox[r].status = "PENDING"
Due(r) == Open(r) /\ outbox[r].due

EndsSending == sending' = {} /\ landed' = FALSE

DrainBegins == batch' = {r \in Deliveries : Due(r)}

SendBegins(r) ==
  /\ sending = {} /\ r \in batch
  /\ batch' = batch \ {r}
  /\ sending' = {r} /\ landed' = FALSE
  /\ UNCHANGED <<inboundVars, outbox, sends>>

\* The adapter has handed it over; the call has not returned yet.
SendLands(r) ==
  /\ sending = {r} /\ ~landed
  /\ landed' = TRUE
  /\ sends' = [sends EXCEPT ![r] = @ + 1]
  /\ UNCHANGED <<inboundVars, outbox, batch, sending>>

\* Faulty: the row is marked when the message is on its way.
BadHandedOver == TRUE
HandedOver == landed

\* markOutboxDelivered leaves a row alone that is gone.
SendReturns(r) ==
  /\ sending = {r} /\ HandedOver
  /\ outbox' = IF Open(r) THEN [outbox EXCEPT ![r].status = "DELIVERED", ![r].attempt = @ + 1] ELSE outbox
  /\ EndsSending
  /\ UNCHANGED <<inboundVars, batch, sends>>

GivesUp(r) == outbox[r].attempt + 1 >= Attempts

\* A hook or the adapter throws, before or after the message was handed over.
SendFails(r) ==
  /\ sending = {r} /\ outbox[r].status # "purged"
  /\ outbox' = [outbox EXCEPT ![r] = [status |-> IF GivesUp(r) THEN "FAILED" ELSE "RETRY",
                                      attempt |-> @.attempt + 1, due |-> FALSE]]
  /\ EndsSending
  /\ UNCHANGED <<inboundVars, batch, sends>>

\* markOutboxFailed does not find the row, and the drain ends with its error.
SendFailsUnknown(r) ==
  /\ sending = {r} /\ outbox[r].status = "purged"
  /\ batch' = {} /\ EndsSending
  /\ UNCHANGED <<inboundVars, outbox, sends>>

ChannelsCrash ==
  /\ batch' = {} /\ EndsSending
  /\ UNCHANGED <<inboundVars, outbox, sends>>

\* The process dies after the first or the second of the three commits of a
\* delivery of x: recorded, published, marked.
IngestIsCut(x) ==
  /\ inbound[x] # "DELIVERED"
  /\ inbound' = [inbound EXCEPT ![x] = "PENDING"]
  /\ \/ UNCHANGED announced
     \/ x \notin TooLong /\ announced' = Published({x})
  /\ batch' = {} /\ EndsSending
  /\ UNCHANGED <<outbox, sends>>

-----------------------------------------------------------------------------

DrainIdle == sending = {} /\ batch = {}

ChannelsNext ==
  \/ \E x \in Messages : Ingest(x) \/ IngestIsCut(x)
  \/ ReconcileInbound /\ UNCHANGED outboxVars
  \/ DrainIdle /\ DrainBegins /\ UNCHANGED <<inboundVars, outbox, sending, landed, sends>>
  \/ \E r \in Deliveries :
       \/ Enqueue(r) \/ Purge(r) \/ RetryComesDue(r)
       \/ SendBegins(r) \/ SendLands(r) \/ SendReturns(r) \/ SendFails(r) \/ SendFailsUnknown(r)
  \/ ChannelsCrash

ChannelsSpec == ChannelsInit /\ [][ChannelsNext]_channelsVars

-----------------------------------------------------------------------------
(* Properties.                                                             *)

\* A message becomes one event, however often its source repeats it and
\* wherever the process dies, and its row says so only when it has.
OneEventPerMessage ==
  \A x \in Messages : announced[x] <= 1 /\ (inbound[x] = "DELIVERED" => announced[x] = 1)

\* A row that says DELIVERED has reached the outside, and one that says FAILED
\* has been tried as often as it may be.
OutboxTellsTruth ==
  \A r \in Deliveries :
    /\ outbox[r].status = "DELIVERED" => sends[r] > 0
    /\ outbox[r].status = "FAILED" => outbox[r].attempt = Attempts

\* What was delivered or given up stays so, and is not sent again.
SettledStaysSettled ==
  [][\A r \in Deliveries : outbox[r].status \in {"DELIVERED", "FAILED"} =>
       /\ outbox'[r].status \in {outbox[r].status, "purged"}
       /\ sends'[r] = sends[r]]_channelsVars
=============================================================================
