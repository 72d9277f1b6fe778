--------------------------- MODULE SafeChanProofs ---------------------------
(***************************************************************************)
(* Proofs about SafeChan, for any number of senders and closers and any    *)
(* buffer: no send on a closed channel, no second close, and what was sent *)
(* is received once.                                                       *)
(***************************************************************************)
EXTENDS SafeChan, TLAPS

\* The values in the buffer.
Buffered == {buf[i] : i \in DOMAIN buf}

\* Who holds the RWMutex: the senders in their select, or announced, one closer.
LockHeld ==
  /\ readers = {s \in Senders : spc[s] = "select"}
  /\ writer = {c \in Closers : cpc[c] = "lock"}
  /\ \A c, d \in Closers : cpc[c] = "lock" /\ cpc[d] = "lock" => c = d

\* The three flags go together, and no sender is past its check once they are set.
FlagsAgree ==
  /\ done = isClosed /\ chClosed = isClosed
  /\ isClosed => readers = {}

\* One call of Close has closed the channels, once some call has returned.
CloseCounted ==
  /\ \A c \in Closers : cpc[c] = "done" => isClosed
  /\ isClosed => \E c \in Closers : closed[c]
  /\ \A c \in Closers : closed[c] => cpc[c] = "done"
  /\ \A c, d \in Closers : closed[c] /\ closed[d] => c = d

\* A value is on its way, or received, when its Send has returned true; each once.
ValuesKept ==
  /\ {s \in Senders : sent[s]} = taken \cup Buffered
  /\ taken \cap Buffered = {}
  /\ \A i, j \in DOMAIN buf : buf[i] = buf[j] => i = j
  /\ \A s \in Senders : sent[s] => spc[s] = "done"
  /\ rpc = "ended" => chClosed /\ buf = <<>>

IInv == TypeOK /\ LockHeld /\ FlagsAgree /\ CloseCounted /\ ValuesKept

-----------------------------------------------------------------------------

\* Every action keeps the types and the capacity of the channel.
LEMMA TypeStep == ASSUME TypeOK, [Next]_vars PROVE TypeOK'
<1> USE ChanOptions DEF TypeOK
<1>1. ASSUME NEW s \in Senders, SendStart(s) PROVE TypeOK'
  BY <1>1 DEF SendStart, closeVars, flags, channel
<1>2. ASSUME NEW s \in Senders, Select(s) PROVE TypeOK'
  <2>1. PICK case \in Ready(s) :
          /\ sent' = [sent EXCEPT ![s] = (case = "put")]
          /\ IF case # "put" THEN UNCHANGED channel
             ELSE IF Handover
             THEN taken' = taken \cup {s} /\ rpc' = "busy" /\ UNCHANGED buf
             ELSE buf' = Append(buf, s) /\ UNCHANGED <<rpc, taken>>
    BY <1>2 DEF Select
  <2>2. case = "put" => CanPut
    BY DEF Ready
  <2>3. /\ buf' \in Seq(Senders) /\ Len(buf') <= Buffer
        /\ rpc' \in {"busy", "parked", "ended"} /\ taken' \subseteq Senders
    <3>1. CASE case # "put"
      BY <2>1, <3>1 DEF channel
    <3>2. CASE case = "put" /\ Handover
      BY <2>1, <3>2
    <3>3. CASE case = "put" /\ ~Handover
      BY <2>1, <2>2, <3>3 DEF CanPut
    <3> QED BY <3>1, <3>2, <3>3
  <2>4. sent' \in [Senders -> BOOLEAN]
    BY <2>1
  <2> QED BY <1>2, <2>3, <2>4 DEF Select, closeVars, flags
<1>3. ASSUME NEW c \in Closers, Call(c) \/ CloseStep(c) PROVE TypeOK'
  BY <1>3 DEF Call, CloseStep, Announce, Close, sendVars, lock, flags, channel
<1>4. CASE Receive
  <2>1. CASE /\ buf # <<>> /\ taken' = taken \cup {Head(buf)}
             /\ buf' = Tail(buf) /\ rpc' = "busy"
    <3>1. Head(buf) \in Senders /\ Tail(buf) \in Seq(Senders) /\ Len(Tail(buf)) = Len(buf) - 1
      BY <2>1
    <3>2. Len(buf) \in Nat
      OBVIOUS
    <3> QED BY <1>4, <2>1, <3>1, <3>2 DEF Receive, sendVars, closeVars, lock, flags
  <2>2. CASE rpc' \in {"parked", "ended"} /\ UNCHANGED <<buf, taken>>
    BY <1>4, <2>2 DEF Receive, sendVars, closeVars, lock, flags
  <2> QED BY <1>4, <2>1, <2>2 DEF Receive
<1>5. CASE UNCHANGED vars
  BY <1>5 DEF vars, sendVars, closeVars, lock, flags, channel
<1> QED BY <1>1, <1>2, <1>3, <1>4, <1>5 DEF Next

\* Every action keeps the account of the lock, the flags and the calls of Close.
LEMMA LockStep ==
  ASSUME IInv, [Next]_vars PROVE LockHeld' /\ FlagsAgree' /\ CloseCounted'
<1> USE DEF IInv, TypeOK
<1>1. ASSUME NEW s \in Senders, SendStart(s) PROVE LockHeld' /\ FlagsAgree' /\ CloseCounted'
  BY <1>1 DEF SendStart, closeVars, flags, channel, LockHeld, FlagsAgree, CloseCounted
<1>2. ASSUME NEW s \in Senders, Select(s) PROVE LockHeld' /\ FlagsAgree' /\ CloseCounted'
  BY <1>2 DEF Select, closeVars, flags, LockHeld, FlagsAgree, CloseCounted
<1>3. ASSUME NEW c \in Closers, Call(c) PROVE LockHeld' /\ FlagsAgree' /\ CloseCounted'
  BY <1>3 DEF Call, sendVars, lock, flags, channel, LockHeld, FlagsAgree, CloseCounted
<1>4. ASSUME NEW c \in Closers, Announce(c) PROVE LockHeld' /\ FlagsAgree' /\ CloseCounted'
  BY <1>4 DEF Announce, sendVars, flags, channel, LockHeld, FlagsAgree, CloseCounted
<1>5. ASSUME NEW c \in Closers, Close(c) PROVE LockHeld' /\ FlagsAgree' /\ CloseCounted'
  <2>1. LockHeld'
    BY <1>5 DEF Close, sendVars, LockHeld
  <2>2. FlagsAgree'
    BY <1>5 DEF Close, FlagsAgree
  <2>3. CloseCounted'
    <3>1. CASE isClosed
      <4>1. closed' = closed
        BY <1>5, <3>1 DEF Close, CloseCounted
      <4> QED BY <1>5, <3>1, <4>1 DEF Close, CloseCounted
    <3>2. CASE ~isClosed
      <4>1. \A d \in Closers : closed'[d] <=> d = c
        BY <1>5, <3>2 DEF Close, CloseCounted
      <4> QED BY <1>5, <3>2, <4>1 DEF Close, CloseCounted
    <3> QED BY <3>1, <3>2
  <2> QED BY <2>1, <2>2, <2>3
<1>6. CASE Receive
  BY <1>6 DEF Receive, sendVars, closeVars, lock, flags, LockHeld, FlagsAgree, CloseCounted
<1>7. CASE UNCHANGED vars
  BY <1>7 DEF vars, sendVars, closeVars, lock, flags, channel, LockHeld, FlagsAgree, CloseCounted
<1> QED BY <1>1, <1>2, <1>3, <1>4, <1>5, <1>6, <1>7 DEF Next, CloseStep

\* Every action keeps every value that Send has accepted, once.
LEMMA ValuesStep == ASSUME IInv, TypeOK', [Next]_vars PROVE ValuesKept'
<1> USE DEF IInv
<1>1. ASSUME NEW s \in Senders, SendStart(s) PROVE ValuesKept'
  BY <1>1 DEF SendStart, channel, flags, ValuesKept, Buffered, TypeOK
<1>2. ASSUME NEW s \in Senders, Select(s) PROVE ValuesKept'
  <2>1. PICK case \in Ready(s) :
          /\ sent' = [sent EXCEPT ![s] = (case = "put")]
          /\ IF case # "put" THEN UNCHANGED channel
             ELSE IF Handover
             THEN taken' = taken \cup {s} /\ rpc' = "busy" /\ UNCHANGED buf
             ELSE buf' = Append(buf, s) /\ UNCHANGED <<rpc, taken>>
    BY <1>2 DEF Select
  <2>2. /\ ~sent[s] /\ s \notin taken /\ s \notin Buffered /\ rpc # "ended"
        /\ ~chClosed /\ UNCHANGED chClosed /\ spc' = [spc EXCEPT ![s] = "done"]
    BY <1>2 DEF Select, ValuesKept, LockHeld, FlagsAgree, TypeOK, flags
  <2>3. \A t \in Senders : sent'[t] => spc'[t] = "done"
    BY <2>1, <2>2 DEF TypeOK, ValuesKept
  <2>4. CASE case # "put"
    <3>1. sent' = sent
      BY <2>1, <2>2, <2>4 DEF TypeOK
    <3> QED BY <2>1, <2>2, <2>3, <2>4, <3>1 DEF channel, ValuesKept, Buffered
  <2>5. CASE case = "put"
    <3>1. {t \in Senders : sent'[t]} = {t \in Senders : sent[t]} \cup {s}
      <4>1. \A t \in Senders : sent'[t] <=> sent[t] \/ t = s
        BY <2>1, <2>5 DEF TypeOK
      <4> QED BY <4>1
    <3>2. CASE Handover
      BY <2>1, <2>2, <2>3, <2>5, <3>1, <3>2 DEF ValuesKept, Buffered
    <3>3. CASE ~Handover
      <4>1. buf' = Append(buf, s) /\ taken' = taken /\ rpc' = rpc
        BY <2>1, <2>5, <3>3
      <4>2. /\ DOMAIN buf' = DOMAIN buf \cup {Len(buf) + 1} /\ Len(buf) \in Nat
            /\ DOMAIN buf = 1..Len(buf)
            /\ buf'[Len(buf) + 1] = s /\ \A i \in DOMAIN buf : buf'[i] = buf[i]
        BY <4>1 DEF TypeOK
      <4>3. Buffered' = Buffered \cup {s}
        BY <4>2 DEF Buffered
      <4>4. \A i, j \in DOMAIN buf' : buf'[i] = buf'[j] => i = j
        BY <2>2, <4>2 DEF ValuesKept, Buffered
      <4> QED BY <2>2, <2>3, <3>1, <4>1, <4>3, <4>4 DEF ValuesKept
    <3> QED BY <3>2, <3>3
  <2> QED BY <2>4, <2>5
<1>3. ASSUME NEW c \in Closers, Call(c) \/ CloseStep(c) PROVE ValuesKept'
  BY <1>3 DEF Call, CloseStep, Announce, Close, sendVars, lock, flags, channel, ValuesKept, Buffered
<1>4. CASE Receive
  <2> USE DEF Receive, sendVars, flags
  <2>1. CASE /\ buf # <<>> /\ taken' = taken \cup {Head(buf)}
             /\ buf' = Tail(buf) /\ rpc' = "busy"
    <3>1. /\ Len(buf) \in Nat /\ Len(buf) > 0 /\ Head(buf) = buf[1]
          /\ DOMAIN buf = 1..Len(buf) /\ DOMAIN buf' = 1..(Len(buf) - 1)
          /\ \A i \in 1..(Len(buf) - 1) : buf'[i] = buf[i + 1]
      BY <2>1 DEF TypeOK
    <3>2. Head(buf) \in Buffered
      <4>1. 1 \in DOMAIN buf
        BY <3>1
      <4> QED BY <3>1, <4>1 DEF Buffered
    <3>3. Buffered' = Buffered \ {Head(buf)}
      <4>1. ASSUME NEW v \in Buffered', v \notin Buffered \/ v = Head(buf) PROVE FALSE
        <5>1. PICK i \in 1..(Len(buf) - 1) : v = buf[i + 1]
          BY <3>1, <4>1 DEF Buffered
        <5>2. i + 1 \in DOMAIN buf /\ 1 \in DOMAIN buf /\ i + 1 # 1
          BY <3>1
        <5> QED BY <3>1, <4>1, <5>1, <5>2 DEF Buffered, ValuesKept
      <4>2. ASSUME NEW v \in Buffered, v # Head(buf) PROVE v \in Buffered'
        <5>1. PICK i \in 1..Len(buf) : v = buf[i]
          BY <3>1 DEF Buffered
        <5>2. i - 1 \in 1..(Len(buf) - 1) /\ buf'[i - 1] = buf[(i - 1) + 1] /\ (i - 1) + 1 = i
          BY <3>1, <4>2, <5>1
        <5> QED BY <3>1, <5>1, <5>2 DEF Buffered
      <4> QED BY <4>1, <4>2
    <3>4. \A i, j \in DOMAIN buf' : buf'[i] = buf'[j] => i = j
      <4> TAKE i, j \in DOMAIN buf'
      <4>1. i + 1 \in DOMAIN buf /\ j + 1 \in DOMAIN buf /\ i \in Nat /\ j \in Nat
        BY <3>1
      <4> QED BY <3>1, <4>1 DEF ValuesKept
    <3> QED BY <1>4, <2>1, <3>2, <3>3, <3>4 DEF ValuesKept
  <2>2. CASE /\ UNCHANGED <<buf, taken>>
             /\ rpc' = "parked" \/ (buf = <<>> /\ chClosed)
    BY <1>4, <2>2 DEF ValuesKept, Buffered
  <2> QED BY <1>4, <2>1, <2>2
<1>5. CASE UNCHANGED vars
  BY <1>5 DEF vars, sendVars, flags, channel, ValuesKept, Buffered
<1> QED BY <1>1, <1>2, <1>3, <1>4, <1>5 DEF Next

-----------------------------------------------------------------------------

\* SafeChan's inductive invariant holds in every reachable state.
THEOREM Inductive == Spec => []IInv
<1>1. Init => IInv
  <2> SUFFICES ASSUME Init PROVE IInv
    OBVIOUS
  <2> USE DEF Init
  <2>1. TypeOK
    <3>1. <<>> \in Seq(Senders) /\ Len(<<>>) <= Buffer
      <4>1. Len(<<>>) = 0
        OBVIOUS
      <4> QED BY <4>1, ChanOptions
    <3>2. buf \in Seq(Senders) /\ Len(buf) <= Buffer
      BY <3>1
    <3> QED BY <3>2 DEF TypeOK
  <2>2. LockHeld /\ FlagsAgree /\ CloseCounted
    BY DEF LockHeld, FlagsAgree, CloseCounted
  <2>3. Buffered = {}
    BY DEF Buffered
  <2>4. ValuesKept
    BY <2>3 DEF ValuesKept
  <2> QED BY <2>1, <2>2, <2>4 DEF IInv
<1>2. IInv /\ [Next]_vars => IInv'
  <2> SUFFICES ASSUME IInv, [Next]_vars PROVE IInv'
    OBVIOUS
  <2>1. TypeOK'
    BY TypeStep DEF IInv
  <2> QED BY <2>1, LockStep, ValuesStep DEF IInv
<1> QED BY <1>1, <1>2, PTL DEF Spec

\* Whatever the number of senders, closers and buffer slots: no goroutine sends on
\* the closed channel, so Send and Close cannot panic; of all the calls of Close
\* that returned exactly one closed the channels; and what Send accepted is
\* received once, before the receiver's loop ends.
THEOREM ChannelCorrect == Spec => []ChannelHolds
<1>1. IInv => NoSendOnClosed
  BY DEF IInv, LockHeld, FlagsAgree, NoSendOnClosed
<1>2. IInv => ClosedOnce
  BY DEF IInv, CloseCounted, ClosedOnce
<1>3. IInv => NothingLost
  BY DEF IInv, ValuesKept, NothingLost, Buffered
<1>4. IInv => ChannelHolds
  BY <1>1, <1>2, <1>3 DEF ChannelHolds
<1> QED BY <1>4, Inductive, PTL
=============================================================================
