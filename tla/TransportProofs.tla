-------------------------- MODULE TransportProofs --------------------------
(***************************************************************************)
(* The safety of the reader, for every stream and however often calls of   *)
(* next are dropped.  A task that parks has just seen the reader and the   *)
(* sleep pending, in that order and within one poll, which no callback     *)
(* interrupts; so the invariant says what is known between the stages of a *)
(* poll, and a callback that changes it finds the waker in its slot.       *)
(***************************************************************************)
EXTENDS Transport, SequenceTheorems, TLAPS

Types ==
    /\ buffer \in Seq(Nat) /\ to_come \in Seq(Nat)
    /\ waker \in BOOLEAN /\ woken \in BOOLEAN /\ sleep_waker \in BOOLEAN
    /\ opened \in BOOLEAN /\ closed \in BOOLEAN /\ error \in BOOLEAN /\ finished \in BOOLEAN
    /\ at \in {"Opening", "Call", "Next", "Ended"}
    /\ stage \in {"Parked", "Read", "Write", "Sleep"}
    /\ sleep \in {"Pending", "Done"}
    /\ read_fut \in [some : BOOLEAN, length : Nat \cup {NoLength}, complete : BOOLEAN]
    /\ ~read_fut.some => read_fut = NoFuture
    /\ read_poll \in {"Pending", "Ok", "Err"}

\* Only a call of next is polled in stages, and not one of a connection that
\* has finished.
InCall ==
    /\ stage # "Parked" => at = "Next" /\ ~finished
    /\ finished => at \in {"Call", "Ended"}

\* The reader has looked and found nothing: it stays so until the poll ends.
Starving == waker /\ Len(buffer) < Wanted /\ ~error

PollPending == (stage = "Write" /\ read_poll = "Pending") \/ stage = "Sleep" => Starving

\* A future that is complete is put back only by a writer that failed.
PutBackComplete == read_fut.complete => finished \/ (stage = "Write" /\ read_poll # "Pending")

\* Between two steps of run the task is woken or has parked.
CallRuns == at = "Call" => woken

IInv == Types /\ InCall /\ PollPending /\ PutBackComplete /\ CallRuns /\ NoLostWakeup

-----------------------------------------------------------------------------

\* The end of a sequence is a sequence.
LEMMA SuffixType ==
    ASSUME NEW s \in Seq(Nat), NEW n \in 0 .. Len(s)
    PROVE  SubSeq(s, n + 1, Len(s)) \in Seq(Nat) /\ SubSeq(s, 1, n) \in Seq(Nat)
BY DEF NoLength

\* The future that is polled has the fields of one.
LEMMA FutureType ==
    ASSUME Types
    PROVE  /\ Future \in [some : BOOLEAN, length : Nat \cup {NoLength}, complete : BOOLEAN]
           /\ Future.some
           /\ Wanted \in Nat
           /\ Future.complete <=> read_fut.complete
           /\ read_fut.some => Future = read_fut
<1>1. CASE read_fut.some
    <2>1. Future = read_fut
        BY <1>1 DEF Future
    <2>. QED  BY <2>1, <1>1 DEF Types, Wanted, NoLength
<1>2. CASE ~read_fut.some
    <2>1. Future = NewFuture /\ read_fut = NoFuture
        BY <1>2 DEF Future, Types
    <2>2. Wanted = 1
        BY <2>1 DEF Wanted, NewFuture
    <2>. QED  BY <2>1, <2>2, <1>2 DEF NewFuture, NoFuture, NoLength
<1>. QED  BY <1>1, <1>2

\* What Init says of the parts.
LEMMA Initially == Init => IInv
<1> SUFFICES ASSUME Init PROVE IInv
    OBVIOUS
<1>1. read_fut \in [some : BOOLEAN, length : Nat \cup {NoLength}, complete : BOOLEAN] /\ ~read_fut.complete
    BY DEF Init, NoFuture
<1>2. Types
    <2>1. buffer \in Seq(Nat) /\ to_come \in Seq(Nat) /\ read_fut = NoFuture
        BY StreamAssumption DEF Init
    <2>. QED  BY <1>1, <2>1 DEF Init, Types
<1>. QED  BY <1>1, <1>2 DEF Init, IInv, InCall, PollPending, PutBackComplete, CallRuns, NoLostWakeup

\* A callback finds the waker of a task that is parked and not woken.
LEMMA CallbacksKeep == IInv /\ Callbacks => IInv'
<1> SUFFICES ASSUME IInv, Callbacks PROVE IInv'
    OBVIOUS
<1> USE DEF IInv, InCall, PutBackComplete, CallRuns, Parked
<1>1. Parked /\ stage' = stage /\ at' = at /\ read_fut' = read_fut /\ read_poll' = read_poll
      /\ finished' = finished
    BY DEF Callbacks, onopen, onmessage, onclose, onerror, ontimeout, Wake, Heard, join
<1>2. PollPending'
    BY <1>1 DEF PollPending
<1>3. CASE onopen \/ onclose \/ onerror
    <2>1. Types'
        <3>1. /\ woken' \in BOOLEAN /\ waker' \in BOOLEAN
              /\ opened' \in BOOLEAN /\ closed' \in BOOLEAN /\ error' \in BOOLEAN
            BY <1>3, Zenon DEF Types, onopen, onclose, onerror, Wake
        <3>2. /\ UNCHANGED <<buffer, to_come, sleep, sleep_waker, finished, at, stage, read_fut, read_poll>>
            BY <1>3 DEF onopen, onclose, onerror, Wake, timer, join
        <3>. QED  BY <3>1, <3>2 DEF Types
    <2>2. NoLostWakeup'
        BY <1>3, <1>1 DEF Types, NoLostWakeup, onopen, onclose, onerror, Wake, timer
    <2>. QED  BY <2>1, <2>2, <1>1, <1>2, <1>3 DEF onopen, onclose, onerror, Wake, Types
<1>4. CASE onmessage
    <2>1. PICK n \in 1 .. Len(to_come) : /\ buffer' = buffer \o SubSeq(to_come, 1, n)
                                         /\ to_come' = SubSeq(to_come, n + 1, Len(to_come))
        BY <1>4 DEF onmessage
    <2>2. buffer' \in Seq(Nat) /\ to_come' \in Seq(Nat)
        BY <2>1, SuffixType DEF Types
    <2>3. Types'
        BY <1>4, <2>2 DEF Types, onmessage, Heard, Wake, timer, join
    <2>4. NoLostWakeup'
        BY <1>4, <1>1 DEF Types, NoLostWakeup, onmessage, Heard, Wake, timer
    <2>. QED  BY <2>3, <2>4, <1>1, <1>2, <1>4 DEF onmessage, Heard, Wake, Types
<1>5. CASE ontimeout
    <2>1. Types'
        BY <1>5 DEF Types, ontimeout, ws, join
    <2>2. NoLostWakeup'
        BY <1>5, <1>1 DEF Types, NoLostWakeup, ontimeout, ws, Wanted, Future
    <2>. QED  BY <2>1, <2>2, <1>1, <1>2, <1>5 DEF ontimeout, Types
<1>. QED  BY <1>3, <1>4, <1>5 DEF Callbacks

\* The steps of run, outside of a poll of next.
LEMMA CallsKeep == IInv /\ (Opens \/ Calls) => IInv'
<1> SUFFICES ASSUME IInv, Opens \/ Calls PROVE IInv'
    OBVIOUS
<1> USE DEF IInv, InCall, PutBackComplete, CallRuns, Parked, PollPending, NoLostWakeup, Runs
<1>1. CASE open_ready
    BY <1>1 DEF open_ready, Types, ws, timer, join, history
<1>2. CASE open_fails
    BY <1>2 DEF open_fails, Types, timer, join, history
<1>3. CASE open_waits
    BY <1>3 DEF open_waits, Types, timer, join, history
<1>4. CASE call_next
    BY <1>4 DEF call_next, Types, ws, join, history
<1>5. CASE call_ends
    BY <1>5 DEF call_ends, Types, ws, timer, join, history
<1>6. CASE resume
    BY <1>6 DEF resume, Types, ws, timer, join, history
<1>. QED  BY <1>1, <1>2, <1>3, <1>4, <1>5, <1>6 DEF Opens, Calls

\* The polls of the read future: it is starving when it is left pending.
LEMMA ReadKeeps == IInv /\ ReadSteps => IInv'
<1> SUFFICES ASSUME IInv, ReadSteps PROVE IInv'
    OBVIOUS
<1> USE DEF IInv, InCall, CallRuns, Parked
<1>1. /\ Reading /\ stage' \in {"Read", "Write"} /\ at' = at /\ finished' = finished /\ woken' = woken
      /\ sleep' = sleep /\ sleep_waker' = sleep_waker
    BY DEF ReadSteps, read_error, read_length, read_rest, read_closed, read_waits, Reads, Short, TakeWanted,
           ReadDone, timer, Reading
<1>2. at = "Next" /\ ~finished /\ ~read_fut.complete
    BY <1>1 DEF Reading, PutBackComplete
<1>3. NoLostWakeup' /\ InCall' /\ CallRuns'
    BY <1>1, <1>2 DEF NoLostWakeup
<1> HIDE DEF IInv, InCall, CallRuns, Parked
<1>a. Types /\ PollPending /\ PutBackComplete
    BY DEF IInv
<1>4. CASE read_error \/ read_closed
    <2>1. /\ read_fut' = Completed /\ read_poll' = "Err" /\ stage' = "Write"
          /\ buffer' = buffer /\ to_come' = to_come /\ waker' = waker /\ opened' = opened
          /\ closed' = closed /\ error' \in BOOLEAN
        BY <1>4, <1>a DEF read_error, read_closed, ReadDone, ws, Types
    <2>2. Types'
        BY <2>1, <1>1, <1>2, <1>a, FutureType DEF Types, NoFuture, Completed
    <2>. QED  BY <2>1, <2>2, <1>3 DEF IInv, PollPending, PutBackComplete, Completed
<1>5. CASE read_length
    <2>1. /\ read_fut' = [some |-> TRUE, length |-> buffer[1], complete |-> FALSE] /\ stage' = stage /\ read_poll' = read_poll
          /\ waker' = waker /\ opened' = opened /\ closed' = closed /\ error' = error /\ to_come' = to_come
          /\ Wanted = 1 /\ Len(buffer) >= 1 /\ buffer' = SubSeq(buffer, 1 + 1, Len(buffer))
        BY <1>5 DEF read_length, TakeWanted, Wanted
    <2>2. buffer[1] \in Nat /\ buffer' \in Seq(Nat)
        BY <2>1, <1>a, SuffixType DEF Types
    <2>3. Types' /\ ~read_fut'.complete
        BY <2>1, <2>2, <1>1, <1>2, <1>a, FutureType DEF Types, NoFuture, Completed
    <2>. QED  BY <2>1, <2>3, <1>1, <1>3 DEF IInv, PollPending, PutBackComplete, Reading
<1>6. CASE read_rest
    <2>1. /\ read_fut' = Completed /\ read_poll' = "Ok" /\ stage' = "Write"
          /\ waker' = waker /\ opened' = opened /\ closed' = closed /\ error' = error /\ to_come' = to_come
          /\ Len(buffer) >= Wanted /\ buffer' = SubSeq(buffer, Wanted + 1, Len(buffer))
        BY <1>6 DEF read_rest, TakeWanted, ReadDone
    <2>2. buffer' \in Seq(Nat)
        <3>1. Wanted \in 0 .. Len(buffer)
            BY <2>1, <1>a, FutureType DEF Types
        <3>. QED  BY <3>1, <2>1, <1>a, SuffixType DEF Types
    <2>3. Types'
        BY <2>1, <2>2, <1>1, <1>2, <1>a, FutureType DEF Types, NoFuture, Completed
    <2>. QED  BY <2>1, <2>3, <1>3 DEF IInv, PollPending, PutBackComplete, Completed
<1>7. CASE read_waits
    <2>1. /\ read_fut' = Future /\ read_poll' = "Pending" /\ stage' = "Write" /\ waker' = TRUE
          /\ buffer' = buffer /\ to_come' = to_come /\ opened' = opened /\ closed' = closed
          /\ error' = error /\ ~error /\ Len(buffer) < Wanted
        BY <1>7 DEF read_waits, Short, ReadDone
    <2>2. Types' /\ ~read_fut'.complete
        BY <2>1, <1>1, <1>2, <1>a, FutureType DEF Types, NoFuture, Completed
    <2>3. Wanted' = Wanted
        BY <2>1, <1>a, FutureType DEF Wanted, Future
    <2>. QED  BY <2>1, <2>2, <2>3, <1>3 DEF IInv, PollPending, PutBackComplete, Starving
<1>. QED  BY <1>4, <1>5, <1>6, <1>7 DEF ReadSteps

\* The rest of the poll, which returns or parks.
LEMMA ReturnKeeps == IInv /\ (ReturnSteps \/ write_error) => IInv'
<1> SUFFICES ASSUME IInv, ReturnSteps \/ write_error PROVE IInv'
    OBVIOUS
<1> USE DEF IInv, InCall, PutBackComplete, CallRuns, Parked, PollPending, NoLostWakeup, Writes
<1>1. CASE write_error
    BY <1>1 DEF write_error, Finishes, Types, ws, timer, history
<1>2. CASE write_waits
    BY <1>2 DEF write_waits, PutBack, Types, ws, timer, history, Starving, Wanted, Future
<1>3. CASE read_returns
    BY <1>3 DEF read_returns, Types, ws, timer, NoFuture, NoLength
<1>4. CASE sleep_done
    BY <1>4 DEF sleep_done, Types, ws, timer, join, history
<1>5. CASE sleep_waits
    BY <1>5 DEF sleep_waits, Types, ws, join, history, Starving, Wanted, Future
<1>. QED  BY <1>1, <1>2, <1>3, <1>4, <1>5 DEF ReturnSteps

\* IInv is an invariant of the connection over a WebSocket.
THEOREM Invariance == Spec => []IInv
<1>1. IInv /\ [Next]_vars => IInv'
    <2> SUFFICES ASSUME IInv, [Next]_vars PROVE IInv'
        OBVIOUS
    <2>1. CASE UNCHANGED vars
        BY <2>1 DEF vars, ws, timer, join, history, IInv, Types, InCall, PollPending, PutBackComplete, CallRuns,
                    NoLostWakeup, Starving, Wanted, Future, Parked
    <2>. QED  BY <2>1, CallbacksKeep, CallsKeep, ReadKeeps, ReturnKeeps DEF Next, Task
<1>. QED  BY <1>1, Initially, PTL DEF Spec

\* For every stream, a read future that completed is not polled again.
THEOREM NeverPolledAgainTheorem == Spec => []NeverPolledAgain
<1>1. IInv => NeverPolledAgain
    BY FutureType DEF IInv, NeverPolledAgain, PutBackComplete, InCall, Reading
<1>. QED  BY <1>1, Invariance, PTL

\* For every stream, the task is never parked for good with something to do.
THEOREM NoLostWakeupTheorem == Spec => []NoLostWakeup
<1>1. IInv => NoLostWakeup
    BY DEF IInv
<1>. QED  BY <1>1, Invariance, PTL

-----------------------------------------------------------------------------

\* What was read, with its type: only the steps of the read future and the
\* return of its frame touch it.
Order == taken \in Seq(Nat) /\ delivered \in Seq(Nat) /\ ReadInOrder

\* Concatenation of sequences of bytes is associative.
LEMMA Concat ==
    ASSUME NEW s \in Seq(Nat), NEW t \in Seq(Nat), NEW u \in Seq(Nat)
    PROVE  (s \o t) \o u = s \o (t \o u)
BY SMTT(30)

\* Bytes that move from the front of one sequence to the end of another.
LEMMA Moved ==
    ASSUME NEW s \in Seq(Nat), NEW t \in Seq(Nat), NEW n \in 0 .. Len(t)
    PROVE  /\ s \o SubSeq(t, 1, n) \in Seq(Nat)
           /\ Len(s \o SubSeq(t, 1, n)) = Len(s) + n
           /\ (s \o SubSeq(t, 1, n)) \o SubSeq(t, n + 1, Len(t)) = s \o t
<1>1. SubSeq(t, 1, n) \in Seq(Nat) /\ SubSeq(t, n + 1, Len(t)) \in Seq(Nat) /\ Len(SubSeq(t, 1, n)) = n
    BY SuffixType
<1>2. SubSeq(t, 1, n) \o SubSeq(t, n + 1, Len(t)) = t
    <2>1. /\ 1 \in 1 .. Len(t) + 1 /\ n \in (1 - 1) .. Len(t) /\ Len(t) \in n .. Len(t)
        OBVIOUS
    <2>2. SubSeq(t, 1, n) \o SubSeq(t, n + 1, Len(t)) = SubSeq(t, 1, Len(t))
        BY <2>1, ConcatAdjacentSubSeq
    <2>. QED  BY <2>2, SubSeqFull
<1>3. (s \o SubSeq(t, 1, n)) \o SubSeq(t, n + 1, Len(t)) = s \o (SubSeq(t, 1, n) \o SubSeq(t, n + 1, Len(t)))
    BY <1>1, Concat
<1>. QED  BY <1>1, <1>2, <1>3, ConcatProperties

\* A prefix of a sequence is one of a longer sequence.
LEMMA PrefixOfLonger ==
    ASSUME NEW s \in Seq(Nat), NEW t \in Seq(Nat), NEW n \in 0 .. Len(s)
    PROVE  SubSeq(s \o t, 1, n) = SubSeq(s, 1, n)
<1>1. s \o t \in Seq(Nat) /\ Len(s \o t) = Len(s) + Len(t)
      /\ \A i \in 1 .. Len(s) + Len(t) : (s \o t)[i] = IF i <= Len(s) THEN s[i] ELSE t[i - Len(s)]
    BY ConcatProperties
<1>. QED  BY <1>1, SuffixType

\* The bytes of one step: taken from the buffer, in the order of the stream.
LEMMA TakeKeeps ==
    ASSUME IInv, Order, TakeWanted, taken' \in Seq(Nat)
    PROVE  /\ Stream = (taken' \o buffer') \o to_come'
           /\ Len(taken') = Len(taken) + Wanted
           /\ ~finished => delivered = SubSeq(taken', 1, Len(delivered))
<1>1. Wanted \in 0 .. Len(buffer) /\ buffer \in Seq(Nat) /\ taken \in Seq(Nat) /\ delivered \in Seq(Nat)
    BY FutureType DEF IInv, Types, Order, TakeWanted
<1>2. /\ taken' = taken \o SubSeq(buffer, 1, Wanted)
      /\ buffer' = SubSeq(buffer, Wanted + 1, Len(buffer)) /\ to_come' = to_come
    BY DEF TakeWanted
<1>3. Stream = (taken \o buffer) \o to_come
    BY DEF Order, ReadInOrder
<1>4. taken' \o buffer' = taken \o buffer /\ Len(taken') = Len(taken) + Wanted
    BY <1>1, <1>2, Moved
<1>5. ASSUME ~finished PROVE delivered = SubSeq(taken', 1, Len(delivered))
    <2>1. delivered = SubSeq(taken, 1, Len(delivered)) /\ Len(delivered) <= Len(taken)
        BY <1>1, <1>5, FutureType DEF Order, ReadInOrder, TakeWanted, Reads, IInv
    <2>2. SubSeq(buffer, 1, Wanted) \in Seq(Nat) /\ Len(delivered) \in 0 .. Len(taken)
        BY <1>1, <2>1, SuffixType
    <2>. QED  BY <1>1, <1>2, <2>1, <2>2, PrefixOfLonger
<1>. QED  BY <1>2, <1>3, <1>4, <1>5

\* The future that is polled next, after a step that left one in read_fut.
LEMMA NextFuture ==
    ASSUME read_fut'.some
    PROVE  Future' = read_fut'
BY DEF Future

\* No step disturbs the order of the bytes.
LEMMA OrderKept == IInv /\ Order /\ [Next]_vars => Order'
<1> SUFFICES ASSUME IInv, Order, [Next]_vars PROVE Order'
    OBVIOUS
<1> DEFINE Quiet == UNCHANGED <<taken, delivered, buffer, to_come>>
<1>1. ASSUME UNCHANGED <<taken, delivered, buffer, to_come, read_fut, finished>> PROVE Order'
    BY <1>1 DEF Order, ReadInOrder, Future
<1>2. CASE \/ UNCHANGED vars \/ onopen \/ onclose \/ onerror \/ ontimeout \/ Opens \/ Calls
           \/ write_waits \/ sleep_done \/ sleep_waits
    BY <1>2, <1>1 DEF vars, ws, timer, join, history, onopen, onclose, onerror, ontimeout, Wake, Opens, Calls,
                      open_ready, open_fails, open_waits, call_next, call_ends, resume, write_waits, PutBack,
                      sleep_done, sleep_waits
<1>3. CASE onmessage
    <2>1. PICK n \in 1 .. Len(to_come) : /\ buffer' = buffer \o SubSeq(to_come, 1, n)
                                         /\ to_come' = SubSeq(to_come, n + 1, Len(to_come))
        BY <1>3 DEF onmessage
    <2>2. buffer \in Seq(Nat) /\ to_come \in Seq(Nat) /\ taken \in Seq(Nat)
        BY DEF IInv, Types, Order
    <2>3. buffer' \in Seq(Nat) /\ to_come' \in Seq(Nat) /\ buffer' \o to_come' = buffer \o to_come
        <3>1. n \in 0 .. Len(to_come)
            BY <2>1, <2>2
        <3>2. SubSeq(to_come, n + 1, Len(to_come)) \in Seq(Nat)
            BY <3>1, <2>2, SuffixType
        <3>. QED  BY <3>1, <3>2, <2>1, <2>2, Moved
    <2>4. (taken \o buffer') \o to_come' = (taken \o buffer) \o to_come
        <3>1. (taken \o buffer') \o to_come' = taken \o (buffer' \o to_come')
            BY <2>2, <2>3, Concat
        <3>2. (taken \o buffer) \o to_come = taken \o (buffer \o to_come)
            BY <2>2, Concat
        <3>. QED  BY <3>1, <3>2, <2>3
    <2>5. UNCHANGED <<taken, delivered, read_fut, finished>>
        BY <1>3 DEF onmessage, Heard, Wake, history, join
    <2>. QED  BY <2>4, <2>5 DEF Order, ReadInOrder, Future
<1>4. CASE read_error \/ read_closed \/ read_waits
    <2>1. Quiet /\ finished' = finished
        BY <1>4 DEF read_error, read_closed, read_waits, ReadDone, ws
    <2>2. Future'.complete \/ Future' = Future
        BY <1>4, NextFuture, FutureType DEF read_error, read_closed, read_waits, ReadDone, Completed, IInv
    <2>3. ~Future.complete
        BY <1>4 DEF read_error, read_closed, read_waits, Short, Reads
    <2>. QED  BY <2>1, <2>2, <2>3 DEF Order, ReadInOrder
<1>5. CASE read_length \/ read_rest
    <2>1. TakeWanted /\ delivered' = delivered /\ finished' = finished
        BY <1>5 DEF read_length, read_rest, ReadDone
    <2>2. taken' \in Seq(Nat)
        BY SMTT(30), <2>1, FutureType, Moved DEF TakeWanted, IInv, Types, Order
    <2>3. Future'.complete \/ (Future'.length # NoLength /\ Future.length = NoLength)
        <3>1. CASE read_rest
            BY <3>1, NextFuture DEF read_rest, ReadDone, Completed
        <3>2. CASE read_length
            <4>1. Len(buffer) >= 1 /\ buffer \in Seq(Nat)
                BY <3>2 DEF read_length, TakeWanted, Wanted, IInv, Types
            <4>2. buffer[1] \in Nat
                BY <4>1
            <4>. QED  BY <3>2, <4>2, NextFuture DEF read_length, NoLength
        <3>. QED  BY <1>5, <3>1, <3>2
    <2>4. ~Future.complete
        BY <2>1 DEF TakeWanted, Reads
    <2>5. ASSUME ~finished', ~Future'.complete PROVE Len(taken') = Len(delivered') + 1
        BY <2>1, <2>2, <2>3, <2>4, <2>5, TakeKeeps DEF Order, ReadInOrder, Wanted
    <2>. QED  BY <2>1, <2>2, <2>3, <2>5, TakeKeeps DEF Order, ReadInOrder
<1>6. CASE write_error
    BY <1>6 DEF write_error, Finishes, ws, history, Order, ReadInOrder
<1>7. CASE read_returns
    <2>1. UNCHANGED <<taken, buffer, to_come>> /\ read_fut' = NoFuture
        BY <1>7 DEF read_returns, ws
    <2>2. Future' = NewFuture
        BY <2>1 DEF Future, NoFuture
    <2>3. CASE read_poll = "Ok"
        <3>1. delivered' = taken /\ taken \in Seq(Nat)
            BY <1>7, <2>3 DEF read_returns, Order
        <3>2. SubSeq(taken, 1, Len(taken)) = taken
            BY <3>1, SubSeqFull
        <3>3. Stream = (taken' \o buffer') \o to_come'
            BY <2>1 DEF Order, ReadInOrder
        <3>4. delivered' = SubSeq(taken', 1, Len(delivered'))
            BY <2>1, <3>1, <3>2
        <3>5. Len(taken') = Len(delivered') + 0 /\ Future'.length = NoLength
            BY <2>1, <2>2, <3>1 DEF NewFuture
        <3>6. taken' \in Seq(Nat) /\ delivered' \in Seq(Nat)
            BY <2>1, <3>1
        <3>. QED  BY <3>3, <3>4, <3>5, <3>6 DEF Order, ReadInOrder
    <2>4. CASE read_poll = "Err"
        BY <1>7, <2>1, <2>4 DEF read_returns, Order, ReadInOrder
    <2>. QED  BY <1>7, <2>3, <2>4 DEF read_returns, IInv, Types
<1>. QED  BY <1>2, <1>3, <1>4, <1>5, <1>6, <1>7 DEF Next, Task, ReadSteps, ReturnSteps, Callbacks

\* For every stream, and wherever calls of next are dropped, the bytes that next
\* returns are those of the stream, in order.
THEOREM ReadInOrderTheorem == Spec => []ReadInOrder
<1>1. Init => Order
    <2> SUFFICES ASSUME Init PROVE Order
        OBVIOUS
    <2>1. taken = <<>> /\ buffer = <<>> /\ delivered = <<>> /\ to_come = Stream /\ Stream \in Seq(Nat)
        BY StreamAssumption DEF Init
    <2>2. Future = NewFuture
        BY DEF Init, Future, NoFuture
    <2>3. Stream = (taken \o buffer) \o to_come /\ delivered = SubSeq(taken, 1, Len(delivered))
        BY <2>1
    <2>. QED  BY <2>1, <2>2, <2>3 DEF Order, ReadInOrder, NewFuture
<1>2. Order => ReadInOrder
    BY DEF Order
<1>. QED  BY <1>1, <1>2, OrderKept, Invariance, PTL DEF Spec

=============================================================================
