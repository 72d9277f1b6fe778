---------------------------- MODULE RabbitQueue -----------------------------
(***************************************************************************)
(* dao/rabbitMQ/queue.go: a producer in SendMessagesEvery, with publisher  *)
(* confirms or a transaction, and consumers in ConsumeMessagesEvery, which *)
(* retry a failed message through a new copy.                              *)
(*                                                                         *)
(* The broker is external: it takes the publishings of a channel in order, *)
(* stores or refuses each, and confirms in order; when a channel goes down *)
(* it puts the unacknowledged deliveries back, and what was still on the   *)
(* wire is stored or lost.  Delays pass at once.  Faults are drops of a    *)
(* channel, refusals and confirms that come too late; there are at most    *)
(* MaxFaults of them.                                                      *)
(***************************************************************************)
EXTENDS Integers, Sequences, FiniteSets, TLC

CONSTANTS
  Batch,             \* the messages the producer sends, a sequence
  Consumers,
  UseTransaction,    \* whether the producer uses transactions: a set of Booleans
  DelayEnabled,      \* whether the queue has MaxDelay > 0: a set of Booleans
  Prefetch,
  HandlerCalls,      \* what a handler calls itself: "none", "Ack", "Nack", "RetryLater"
  MaxRetry,          \* bound: a handler fails only for copies retried less often
  MaxFaults          \* bound on the faults

VARIABLES
  mode,              \* [tx, delay]: the options of this behaviour
  ready,             \* ready[c]: copies c = <<message, retry count>> in the queue
  call,              \* call[a]: the SendMessages under way for a, producer or consumer
  pc,                \* pc[a]: where the producer and the consumers are
  inbox,             \* inbox[k]: the deliveries consumer k has not acknowledged
  cur,               \* cur[k]: the Delivery in its handler
  up,                \* the consumers whose channel is up
  faults,
  sent,              \* messages of a SendMessagesEvery that returned nil
  finished           \* messages whose handler wants no more of them

vars == <<mode, ready, call, pc, inbox, cur, up, faults, sent, finished>>

Msgs == {Batch[i] : i \in DOMAIN Batch}
Actors == Consumers \cup {"producer"}
Copies == Msgs \X (0 .. MaxRetry)
NoCall == [at |-> "none", msgs |-> <<>>, wire |-> <<>>, confirms |-> <<>>, done |-> 0,
           failed |-> <<>>, err |-> FALSE, acked |-> {}]
NoDelivery == [copy |-> <<Batch[1], 0>>, settled |-> TRUE, err |-> FALSE, ret |-> "nil"]

Add(bag, copies) == [c \in Copies |-> bag[c] + Cardinality({i \in DOMAIN copies : copies[i] = c})]

Init ==
  /\ mode \in [tx : UseTransaction, delay : DelayEnabled]
  /\ ready = [c \in Copies |-> 0]
  /\ call = [a \in Actors |-> NoCall]
  /\ pc = [a \in Actors |-> IF a = "producer" THEN "loop" ELSE "off"]
  /\ inbox = [k \in Consumers |-> <<>>]
  /\ cur = [k \in Consumers |-> NoDelivery]
  /\ up = {} /\ faults = 0 /\ sent = {} /\ finished = {}

Goto(a, l) == pc' = [pc EXCEPT ![a] = l]
Fault == faults < MaxFaults /\ faults' = faults + 1

-----------------------------------------------------------------------------
(* SendMessages *)

Start(a, msgs) == call' = [call EXCEPT ![a] = [NoCall EXCEPT !.at = "open", !.msgs = msgs]]

\* What is on the wire of a channel that closes is stored or lost.
Leftover(wire) ==
  \E stored \in SUBSET DOMAIN wire :
    ready' = [c \in Copies |-> ready[c] + Cardinality({i \in stored : wire[i] = c})]

\* A return, with the messages that did not succeed.
Return(a, failed, err) ==
  call' = [call EXCEPT ![a] = [@ EXCEPT !.at = "returned", !.failed = failed, !.err = err,
                                        !.wire = <<>>, !.confirms = <<>>]]

\* GetCh or Confirm fails, or one of the publishings does.
PublishError(a) ==
  /\ call[a].at = "open" /\ Fault
  /\ \E n \in 0 .. Len(call[a].msgs) - 1 : Leftover(SubSeq(call[a].msgs, 1, n))
  /\ Return(a, call[a].msgs, TRUE)
  /\ UNCHANGED <<mode, pc, inbox, cur, up, sent, finished>>

\* The loop that publishes all messages.
Publish(a) ==
  /\ call[a].at = "open"
  /\ call' = [call EXCEPT ![a].wire = call[a].msgs, ![a].at = "confirm"]
  /\ UNCHANGED <<mode, ready, pc, inbox, cur, up, faults, sent, finished>>

\* The broker stores the next publishing and confirms it,
Accept(a) ==
  /\ call[a].wire # <<>>
  /\ ready' = Add(ready, <<Head(call[a].wire)>>)
  /\ call' = [call EXCEPT ![a].wire = Tail(@), ![a].confirms = Append(@, TRUE)]
  /\ UNCHANGED <<mode, pc, inbox, cur, up, faults, sent, finished>>

\* or refuses it.
Refuse(a) ==
  /\ call[a].wire # <<>> /\ Fault
  /\ call' = [call EXCEPT ![a].wire = Tail(@), ![a].confirms = Append(@, FALSE)]
  /\ UNCHANGED <<mode, ready, pc, inbox, cur, up, sent, finished>>

\* Mutant: the delivery tag is taken for the index.
TagIndexOff(done) == done + 2

\* The index of the message with the next delivery tag.
TagIndex(done) == done + 1

\* One turn of the confirm loop.
Confirmed(a) ==
  LET c == call[a]
      i == TagIndex(c.done)
  IN
  /\ c.at = "confirm" /\ c.confirms # <<>>
  /\ call' = [call EXCEPT ![a] =
       [@ EXCEPT !.confirms = Tail(@), !.done = @ + 1,
                 !.acked = IF Head(c.confirms) THEN @ \cup {c.done + 1} ELSE @,
                 !.failed = IF Head(c.confirms) \/ i \notin DOMAIN c.msgs THEN @
                            ELSE Append(@, c.msgs[i])]]
  /\ UNCHANGED <<mode, ready, pc, inbox, cur, up, faults, sent, finished>>

\* The confirms are closed, or the timer goes off: the rest has failed.
ConfirmsEnd(a) ==
  LET c == call[a] IN
  /\ c.at = "confirm" /\ c.done < Len(c.msgs) /\ c.confirms = <<>> /\ Fault
  /\ Leftover(c.wire)
  /\ Return(a, c.failed \o SubSeq(c.msgs, c.done + 1, Len(c.msgs)), TRUE)
  /\ UNCHANGED <<mode, pc, inbox, cur, up, sent, finished>>

\* The loop is over: a refused message makes an error too.
AllConfirmed(a) ==
  LET c == call[a] IN
  /\ c.at = "confirm" /\ c.done = Len(c.msgs)
  /\ Return(a, c.failed, c.failed # <<>>)
  /\ UNCHANGED <<mode, ready, pc, inbox, cur, up, faults, sent, finished>>

SendStep(a) == Publish(a) \/ Accept(a) \/ Confirmed(a) \/ AllConfirmed(a)
SendFault(a) == PublishError(a) \/ Refuse(a) \/ ConfirmsEnd(a)

-----------------------------------------------------------------------------
(* The producer: SendMessagesEvery *)

Fresh == [i \in DOMAIN Batch |-> <<Batch[i], 0>>]

\* The next attempt with confirms.  Only after a call without an error would
\* the failed messages alone be sent again.
Attempt ==
  LET last == call["producer"] IN
  /\ pc["producer"] = "loop" /\ ~ mode.tx
  /\ Start("producer", IF last.at = "returned" /\ ~ last.err THEN last.failed ELSE Fresh)
  /\ Goto("producer", "sending")
  /\ UNCHANGED <<mode, ready, inbox, cur, up, faults, sent, finished>>

\* It returns nil when nothing failed, and waits for the next attempt otherwise.
Attempted ==
  LET last == call["producer"] IN
  /\ pc["producer"] = "sending" /\ last.at = "returned"
  /\ IF ~ last.err /\ last.failed = <<>>
     THEN Goto("producer", "sent") /\ sent' = Msgs
     ELSE Goto("producer", "loop") /\ UNCHANGED sent
  /\ UNCHANGED <<mode, ready, call, inbox, cur, up, faults, finished>>

\* SendMessagesTx: the commit succeeds, or fails before or after it took effect.
SendMessagesTx ==
  /\ pc["producer"] = "loop" /\ mode.tx
  /\ \/ ready' = Add(ready, Fresh) /\ Goto("producer", "sent") /\ sent' = Msgs /\ UNCHANGED faults
     \/ Fault /\ ready' \in {ready, Add(ready, Fresh)} /\ UNCHANGED <<pc, sent>>
  /\ UNCHANGED <<mode, call, inbox, cur, up, finished>>

\* The context ends, in the wait between attempts or in the confirm loop.
Cancelled ==
  /\ pc["producer"] \in {"loop", "sending"} /\ Goto("producer", "cancelled")
  /\ Leftover(call["producer"].wire)
  /\ call' = [call EXCEPT !["producer"] = NoCall]
  /\ UNCHANGED <<mode, inbox, cur, up, faults, sent, finished>>

-----------------------------------------------------------------------------
(* A consumer: ConsumeMessages in ConsumeMessagesEvery *)

Consume(k) ==
  /\ pc[k] = "off" /\ Goto(k, "wait") /\ up' = up \cup {k}
  /\ UNCHANGED <<mode, ready, call, inbox, cur, faults, sent, finished>>

\* The broker sends a copy, up to Prefetch of them.
Deliver(k) ==
  /\ k \in up /\ Len(inbox[k]) < Prefetch
  /\ \E c \in Copies : /\ ready[c] > 0
                       /\ ready' = [ready EXCEPT ![c] = @ - 1]
                       /\ inbox' = [inbox EXCEPT ![k] = Append(@, c)]
  /\ UNCHANGED <<mode, call, pc, cur, up, faults, sent, finished>>

\* The channel goes down, and what it had not acknowledged goes back.
Drop(k) ==
  /\ k \in up /\ Fault
  /\ up' = up \ {k} /\ inbox' = [inbox EXCEPT ![k] = <<>>] /\ ready' = Add(ready, inbox[k])
  /\ UNCHANGED <<mode, call, pc, cur, sent, finished>>

\* Ack and Nack of a Delivery: once only, with an error if the channel is down.
Settle(k, d) ==
  /\ cur' = [cur EXCEPT ![k] = [d EXCEPT !.settled = TRUE, !.err = @ \/ (~ d.settled /\ k \notin up)]]
  /\ inbox' = IF d.settled \/ k \notin up THEN inbox ELSE [inbox EXCEPT ![k] = Tail(@)]
Ack(k, d) == Settle(k, d) /\ UNCHANGED ready
Nack(k, d) ==
  Settle(k, d) /\ ready' = IF d.settled \/ k \notin up THEN ready ELSE Add(ready, <<d.copy>>)

\* RetryLater: Nack in a queue without delay, nothing for a settled Delivery,
\* else publish a copy with the next retry count; next is where it goes on.
RetryLater(k, d, next) ==
  \/ (d.settled \/ ~ mode.delay) /\ Nack(k, d) /\ Goto(k, next) /\ UNCHANGED call
  \/ /\ ~ d.settled /\ mode.delay
     /\ Start(k, <<<<d.copy[1], d.copy[2] + 1>>>>) /\ Goto(k, "retry-" \o next)
     /\ cur' = [cur EXCEPT ![k] = d] /\ UNCHANGED <<ready, inbox>>

\* The handler: what it calls on the Delivery, and what it returns (an error or
\* a panic are the same).
Handle(k) ==
  /\ pc[k] = "wait" /\ inbox[k] # <<>>
  /\ \E h \in HandlerCalls, ret \in {"nil", "error"} :
       LET d == [copy |-> Head(inbox[k]), settled |-> FALSE, err |-> FALSE, ret |-> ret] IN
       /\ (ret = "error" \/ h \in {"Nack", "RetryLater"}) => d.copy[2] < MaxRetry
       /\ finished' = IF h = "Ack" \/ (h = "none" /\ ret = "nil") THEN finished \cup {d.copy[1]} ELSE finished
       /\ CASE h = "none" -> cur' = [cur EXCEPT ![k] = d] /\ Goto(k, "after") /\ UNCHANGED <<ready, inbox, call>>
            [] h = "Ack" -> Ack(k, d) /\ Goto(k, "after") /\ UNCHANGED call
            [] h = "Nack" -> Nack(k, d) /\ Goto(k, "after") /\ UNCHANGED call
            [] h = "RetryLater" -> RetryLater(k, d, "after")
  /\ UNCHANGED <<mode, up, faults, sent>>


\* The copy of a retried message is not known to be stored.
MustKeep(c) == c.err

\* The end of RetryLater.
Retried(k) ==
  /\ pc[k] \in {"retry-after", "retry-end"} /\ call[k].at = "returned"
  /\ Goto(k, IF pc[k] = "retry-after" THEN "after" ELSE "end")
  /\ IF MustKeep(call[k]) THEN cur' = [cur EXCEPT ![k].err = TRUE] /\ UNCHANGED <<inbox, ready>>
     ELSE Ack(k, cur[k])
  /\ call' = [call EXCEPT ![k] = NoCall]
  /\ UNCHANGED <<mode, up, faults, sent, finished>>

\* What ConsumeMessages does with the value the handler returned.
After(k) ==
  /\ pc[k] = "after"
  /\ IF cur[k].ret = "nil" THEN Ack(k, cur[k]) /\ Goto(k, "end") /\ UNCHANGED call
     ELSE RetryLater(k, cur[k], "end")
  /\ UNCHANGED <<mode, up, faults, sent, finished>>

\* An error of the Delivery ends ConsumeMessages, and so its channel.
End(k) ==
  /\ pc[k] = "end"
  /\ IF cur[k].err
     THEN /\ Goto(k, "off") /\ up' = up \ {k}
          /\ inbox' = [inbox EXCEPT ![k] = <<>>] /\ ready' = Add(ready, inbox[k])
     ELSE Goto(k, "wait") /\ UNCHANGED <<up, inbox, ready>>
  /\ cur' = [cur EXCEPT ![k] = NoDelivery]
  /\ UNCHANGED <<mode, call, faults, sent, finished>>

\* The deliveries are closed.
Closed(k) ==
  /\ pc[k] = "wait" /\ k \notin up /\ Goto(k, "off")
  /\ UNCHANGED <<mode, ready, call, inbox, cur, up, faults, sent, finished>>

-----------------------------------------------------------------------------

ProducerStep == Attempt \/ Attempted \/ SendMessagesTx
ConsumerStep(k) ==
  Consume(k) \/ Deliver(k) \/ Handle(k) \/ Retried(k) \/ After(k) \/ End(k) \/ Closed(k)

Next ==
  \/ \E a \in Actors : SendStep(a) \/ SendFault(a)
  \/ ProducerStep \/ Cancelled
  \/ \E k \in Consumers : ConsumerStep(k) \/ Drop(k)

Spec == Init /\ [][Next]_vars

-----------------------------------------------------------------------------
(* Properties *)

\* The variables keep their types; at most Prefetch deliveries are out.
TypeOK ==
  /\ ready \in [Copies -> Nat] /\ up \subseteq Consumers /\ faults \in 0 .. MaxFaults
  /\ sent \subseteq Msgs /\ finished \subseteq Msgs
  /\ pc \in [Actors -> {"loop", "sending", "sent", "cancelled", "off", "wait", "after", "end",
                        "retry-after", "retry-end"}]
  /\ \A k \in Consumers : Len(inbox[k]) <= Prefetch /\ cur[k].copy \in Copies

\* SendMessages reports as failed exactly the messages that were not confirmed,
\* each once, whether the confirms end early or some are negative.
FailedIsUnconfirmed ==
  \A a \in Actors : call[a].at = "returned" =>
    LET c == call[a] IN
    /\ {c.failed[i] : i \in DOMAIN c.failed} = {c.msgs[i] : i \in DOMAIN c.msgs \ c.acked}
    /\ Len(c.failed) = Len(c.msgs) - Cardinality(c.acked)

\* The messages the broker, or a consumer's unacknowledged inbox, has a copy of.
Kept == {m \in Msgs : \/ \E c \in Copies : c[1] = m /\ ready[c] > 0
                      \/ \E k \in Consumers : \E i \in DOMAIN inbox[k] : inbox[k][i][1] = m}

\* The queue implements at-least-once delivery: a message whose SendMessagesEvery
\* returned nil is kept until a handler has finished it, through drops,
\* refusals, lost confirms, retries and prefetched deliveries.
Abstract == INSTANCE AtLeastOnce WITH kept <- Kept
Implements == Abstract!Spec

\* SendMessagesEvery has returned, and every message it reported as sent is
\* finished.
AllFinished == pc["producer"] \in {"sent", "cancelled"} /\ sent \subseteq finished
=============================================================================
