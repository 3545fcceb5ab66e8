----------------------------- MODULE Transport -----------------------------
(***************************************************************************)
(* A connection over a WebSocket in a browser: the callbacks, WsReader and *)
(* WasmSleep of src/examples/web/src/lib.rs below, ReadWriteJoin of        *)
(* src/src/utils/read_write_join.rs above them, and Connection::next on    *)
(* top, in a caller that races each call with a sleep and drops it when    *)
(* the sleep is over first.                                                *)
(*                                                                         *)
(* There is one thread: callbacks run while the task is parked, and a poll *)
(* of the task is not interrupted.  What is read is frames: a byte that    *)
(* says how many follow, and those, each read with a read_exact of its own *)
(* by a future that keeps the length in between.                           *)
(***************************************************************************)
EXTENDS Integers, Sequences

CONSTANTS
    Stream,       \* the bytes that the peer sends
    MaxCancelled  \* bound: how many times a call of next is dropped

ASSUME StreamAssumption == Stream \in Seq(Nat) /\ MaxCancelled \in Nat

VARIABLES
    to_come,        \* what of Stream has not arrived yet
    buffer, waker, opened, closed, error,   \* WsState; waker: there is one
    sleep,          \* WasmSleep: "Pending", or "Done"
    sleep_waker,
    woken,          \* the executor has the task to poll
    at,             \* where run is: "Opening", "Call", "Next", "Ended"
    stage,          \* what of the task is being polled, or "Parked"
    read_fut,       \* ReadWriteJoin.read_fut, and where the future is
    read_poll,      \* what polling it gave
    write_errored,
    finished,       \* of Connection
    cancelled,      \* how many calls were dropped
    taken,          \* history: bytes that read_exact took
    delivered       \* history: bytes of the frames that next returned

ws == <<to_come, buffer, waker, opened, closed, error>>
timer == <<sleep, sleep_waker>>
join == <<read_fut, read_poll, write_errored>>
history == <<taken, delivered>>
vars == <<ws, timer, woken, at, stage, join, finished, cancelled, history>>

NoLength == -1

\* A read future: the length it has read, and whether it is complete.
NewFuture == [some |-> TRUE, length |-> NoLength, complete |-> FALSE]
NoFuture == [some |-> FALSE, length |-> NoLength, complete |-> FALSE]

Init ==
    /\ to_come = Stream
    /\ buffer = <<>> /\ waker = FALSE
    /\ opened = FALSE /\ closed = FALSE /\ error = FALSE
    /\ sleep = "Pending" /\ sleep_waker = FALSE
    /\ woken = TRUE
    /\ at = "Opening" /\ stage = "Parked"
    /\ read_fut = NoFuture /\ read_poll = "Pending" /\ write_errored = FALSE
    /\ finished = FALSE
    /\ cancelled = 0
    /\ taken = <<>> /\ delivered = <<>>

-----------------------------------------------------------------------------
\* The callbacks.  The waker in the slot is taken and woken.

Parked == stage = "Parked"

Wake ==
    /\ woken' = (woken \/ waker)
    /\ waker' = FALSE
    /\ UNCHANGED <<timer, at, stage, join, finished, cancelled, history>>

onopen ==
    /\ Parked /\ ~opened /\ ~closed /\ ~error
    /\ opened' = TRUE
    /\ Wake
    /\ UNCHANGED <<to_come, buffer, closed, error>>

\* Mutant: the reader is woken for the first bytes only.
Heard_First == IF buffer = <<>> THEN Wake
               ELSE UNCHANGED <<woken, waker, timer, at, stage, join, finished, cancelled, history>>

Heard == Wake

onmessage ==
    /\ Parked /\ opened /\ ~closed /\ ~error
    /\ \E n \in 1 .. Len(to_come) :
        /\ buffer' = buffer \o SubSeq(to_come, 1, n)
        /\ to_come' = SubSeq(to_come, n + 1, Len(to_come))
    /\ Heard
    /\ UNCHANGED <<opened, closed, error>>

onclose ==
    /\ Parked /\ ~closed
    /\ closed' = TRUE
    /\ Wake
    /\ UNCHANGED <<to_come, buffer, opened, error>>

\* A browser reports an error once, and before it closes.
onerror ==
    /\ Parked /\ ~closed /\ ~error
    /\ error' = TRUE
    /\ Wake
    /\ UNCHANGED <<to_come, buffer, opened, closed>>

ontimeout ==
    /\ Parked /\ at = "Next" /\ sleep = "Pending"
    /\ sleep' = "Done"
    /\ woken' = (woken \/ sleep_waker)
    /\ sleep_waker' = FALSE
    /\ UNCHANGED <<ws, at, stage, join, finished, cancelled, history>>

-----------------------------------------------------------------------------
\* run: the socket is awaited,

Runs == Parked /\ woken

open_ready ==
    /\ Runs /\ at = "Opening" /\ opened
    /\ at' = "Call"
    /\ UNCHANGED <<ws, timer, woken, stage, join, finished, cancelled, history>>

open_fails ==
    /\ Runs /\ at = "Opening" /\ ~opened /\ (error \/ closed)
    /\ at' = "Ended"
    /\ error' = FALSE
    /\ UNCHANGED <<to_come, buffer, waker, opened, closed, timer, woken, stage, join, finished, cancelled,
                   history>>

open_waits ==
    /\ Runs /\ at = "Opening" /\ ~opened /\ ~error /\ ~closed
    /\ waker' = TRUE
    /\ woken' = FALSE
    /\ UNCHANGED <<to_come, buffer, opened, closed, error, timer, at, stage, join, finished, cancelled,
                   history>>

\* then next is called until the connection has finished, each call with a
\* sleep of its own beside it.
call_next ==
    /\ Runs /\ at = "Call" /\ ~finished
    /\ at' = "Next" /\ stage' = "Read"
    /\ sleep' = "Pending" /\ sleep_waker' = FALSE
    /\ woken' = FALSE
    /\ UNCHANGED <<ws, join, finished, cancelled, history>>

call_ends ==
    /\ Runs /\ at = "Call" /\ finished
    /\ at' = "Ended"
    /\ UNCHANGED <<ws, timer, woken, stage, join, finished, cancelled, history>>

resume ==
    /\ Runs /\ at = "Next"
    /\ stage' = "Read"
    /\ woken' = FALSE
    /\ UNCHANGED <<ws, timer, at, join, finished, cancelled, history>>

-----------------------------------------------------------------------------
\* ReadWriteJoin::call: the read future is polled first.

Reading == stage = "Read"

Future == IF read_fut.some THEN read_fut ELSE NewFuture

Completed == [some |-> TRUE, length |-> Future.length, complete |-> TRUE]

Wanted == IF Future.length = NoLength THEN 1 ELSE Future.length

\* read_exact of WsReader.
Reads == Reading /\ ~Future.complete

ReadDone(poll, fut) ==
    /\ read_poll' = poll
    /\ read_fut' = fut
    /\ stage' = "Write"
    /\ UNCHANGED <<timer, woken, at, write_errored, finished, cancelled, delivered>>

read_error ==
    /\ Reads /\ error
    /\ error' = FALSE
    /\ ReadDone("Err", Completed)
    /\ UNCHANGED <<to_come, buffer, waker, opened, closed, taken>>

TakeWanted ==
    /\ Reads /\ ~error /\ Len(buffer) >= Wanted
    /\ buffer' = SubSeq(buffer, Wanted + 1, Len(buffer))
    /\ taken' = taken \o SubSeq(buffer, 1, Wanted)
    /\ UNCHANGED <<to_come, waker, opened, closed, error>>

read_length ==
    /\ Future.length = NoLength
    /\ TakeWanted
    /\ read_fut' = [some |-> TRUE, length |-> buffer[1], complete |-> FALSE]
    /\ UNCHANGED <<timer, woken, at, stage, read_poll, write_errored, finished, cancelled, delivered>>

read_rest ==
    /\ Future.length # NoLength
    /\ TakeWanted
    /\ ReadDone("Ok", Completed)

Short == Reads /\ ~error /\ Len(buffer) < Wanted

\* Mutant: a closed socket is waited for like an open one.
GivesUp_Never == FALSE

GivesUp == closed

read_closed ==
    /\ Short /\ GivesUp
    /\ ReadDone("Err", Completed)
    /\ UNCHANGED <<ws, taken>>

read_waits ==
    /\ Short /\ ~GivesUp
    /\ waker' = TRUE
    /\ ReadDone("Pending", Future)
    /\ UNCHANGED <<to_come, buffer, opened, closed, error, taken>>

-----------------------------------------------------------------------------
\* Then the write future, and what comes of the call.

Writes == stage = "Write"

\* Mutant: an error of the writer leaves the connection as it was.
Finishes_ReadOnly(poll) == poll = "Err"

Finishes(poll) == TRUE

\* The writer fails: the read future is put back, complete or not, and the
\* call returns the error, after which Connection::next returns nothing.
write_error ==
    /\ Writes /\ ~write_errored
    /\ write_errored' = TRUE
    /\ finished' = Finishes(read_poll)
    /\ at' = "Call" /\ stage' = "Parked" /\ woken' = TRUE
    /\ UNCHANGED <<ws, timer, read_fut, read_poll, cancelled, history>>

\* Mutant: the read future is made anew by each poll.
PutBack_None == NoFuture

PutBack == read_fut

write_waits ==
    /\ Writes /\ read_poll = "Pending"
    /\ read_fut' = PutBack
    /\ stage' = "Sleep"
    /\ UNCHANGED <<ws, timer, woken, at, read_poll, write_errored, finished, cancelled, history>>

read_returns ==
    /\ Writes /\ read_poll # "Pending"
    /\ read_fut' = NoFuture
    /\ finished' = (finished \/ read_poll = "Err")
    /\ delivered' = IF read_poll = "Ok" THEN taken ELSE delivered
    /\ at' = "Call" /\ stage' = "Parked" /\ woken' = TRUE
    /\ UNCHANGED <<ws, timer, read_poll, write_errored, cancelled, taken>>

\* The sleep is polled last; when it is over the call of next is dropped.
sleep_done ==
    /\ stage = "Sleep" /\ sleep = "Done" /\ cancelled < MaxCancelled
    /\ cancelled' = cancelled + 1
    /\ at' = "Call" /\ stage' = "Parked" /\ woken' = TRUE
    /\ UNCHANGED <<ws, timer, join, finished, history>>

sleep_waits ==
    /\ stage = "Sleep" /\ ~(sleep = "Done" /\ cancelled < MaxCancelled)
    /\ sleep_waker' = (sleep = "Pending")
    /\ stage' = "Parked"
    /\ UNCHANGED <<ws, sleep, woken, at, join, finished, cancelled, history>>

Opens == open_ready \/ open_fails \/ open_waits
Calls == call_next \/ call_ends \/ resume
ReadSteps == read_error \/ read_length \/ read_rest \/ read_closed \/ read_waits
ReturnSteps == write_waits \/ read_returns \/ sleep_done \/ sleep_waits

Task == Opens \/ Calls \/ ReadSteps \/ ReturnSteps \/ write_error

Callbacks == onopen \/ onmessage \/ onclose \/ onerror \/ ontimeout

Next == Task \/ Callbacks

\* The executor polls a task that was woken; nothing else has to happen.
Spec == Init /\ [][Next]_vars /\ WF_vars(Task)

-----------------------------------------------------------------------------

\* A read future that has completed is never polled again, although
\* ReadWriteJoin puts it back when the writer fails in the same poll: the
\* connection has finished by then.
NeverPolledAgain == ~(Reading /\ Future.complete)

\* No byte is lost, repeated or reordered when calls of next are dropped: what
\* was read is the start of the stream, and whatever of it next has not
\* returned is the frame that the future in ReadWriteJoin is still reading.
ReadInOrder ==
    /\ Stream = taken \o buffer \o to_come
    /\ ~finished =>
        /\ delivered = SubSeq(taken, 1, Len(delivered))
        /\ ~Future.complete => Len(taken) = Len(delivered) + (IF Future.length = NoLength THEN 0 ELSE 1)

\* The task is never parked for good with something to do: as long as it is not
\* woken, the bytes that the future wants are not there, no error is, and the
\* sleep is not over unless it is no longer heeded; each waker is registered.
NoLostWakeup ==
    Parked /\ ~woken /\ at \in {"Opening", "Next"} =>
        /\ waker
        /\ at = "Next" => Len(buffer) < Wanted /\ ~error
        /\ at = "Next" /\ cancelled < MaxCancelled => sleep = "Pending" /\ sleep_waker
        /\ at = "Opening" => ~opened

\* Once the socket is closed, or reported an error, run ends: the frames that
\* had arrived are returned first, unless there was an error, and next returns
\* None in the end.
EndReported == closed \/ error ~> at = "Ended"

=============================================================================
