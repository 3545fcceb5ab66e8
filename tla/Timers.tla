------------------------------- MODULE Timers -------------------------------
(***************************************************************************)
(* The request timers: src/src/utils/timers.rs.                            *)
(*                                                                         *)
(* A queue of sleeps of one duration.  try_next polls the sleep at the     *)
(* front, and only if the flag poll_next says that polling may help: a     *)
(* sleep that is not over stores a waker, and waking it sets the flag.     *)
(* The sleeps are the platform's (PlatformT::sleep).  The flag is an       *)
(* AtomicBool and the waker is Send, so a platform may wake it from        *)
(* another thread in the middle of try_next; ConcurrentWakes says whether  *)
(* this one does.                                                          *)
(*                                                                         *)
(* Timers are numbered in the order in which they are added.               *)
(***************************************************************************)
EXTENDS Naturals, Sequences

CONSTANTS
    MaxTimers,        \* bound: timers added
    ConcurrentWakes   \* the platform wakes from another thread

ASSUME TimersConstants == MaxTimers \in Nat /\ ConcurrentWakes \in BOOLEAN

VARIABLES
    poll_next,  \* polling the front sleep may help
    timers,     \* VecDeque<(T, P::Sleep)>
    try_next,   \* "Idle", or "Polled": the front sleep was polled and is not over
    elapsed,    \* timers 1..elapsed are over
    armed,      \* the sleeps that hold our waker
    added,      \* history: timers 1..added were added
    returned    \* history: what try_next has returned

vars == <<poll_next, timers, try_next, elapsed, armed, added, returned>>

Init ==
    /\ poll_next = FALSE
    /\ timers = <<>>
    /\ try_next = "Idle"
    /\ elapsed = 0
    /\ armed = {}
    /\ added = 0
    /\ returned = <<>>

-----------------------------------------------------------------------------

\* Only the first timer of the queue asks to be polled.
add ==
    /\ try_next = "Idle"
    /\ added < MaxTimers
    /\ added' = added + 1
    /\ timers' = Append(timers, added')
    /\ poll_next' = (poll_next \/ Len(timers') = 1)
    /\ UNCHANGED <<try_next, elapsed, armed, returned>>

\* Mutant: the last timer of the queue is not polled.
MayPoll_NotLast == try_next = "Idle" /\ poll_next /\ Len(timers) > 1

MayPoll == try_next = "Idle" /\ poll_next /\ timers # <<>>

\* What polling the sleep of timer t says (the platform's).
Over(t) == t <= elapsed

\* Poll::Ready: the flag stays set, so that the next timer is tried as well.
try_next_ready ==
    /\ MayPoll
    /\ Over(Head(timers))
    /\ timers' = Tail(timers)
    /\ returned' = Append(returned, Head(timers))
    /\ UNCHANGED <<poll_next, try_next, elapsed, armed, added>>

\* Poll::Pending: the sleep has stored our waker ...
try_next_poll ==
    /\ MayPoll
    /\ ~Over(Head(timers))
    /\ armed' = armed \cup {Head(timers)}
    /\ try_next' = "Polled"
    /\ UNCHANGED <<poll_next, timers, elapsed, added, returned>>

\* ... and only then is the flag cleared.
try_next_store ==
    /\ try_next = "Polled"
    /\ poll_next' = FALSE
    /\ try_next' = "Idle"
    /\ UNCHANGED <<timers, elapsed, armed, added, returned>>

\* Mutant: the waker does nothing.
Wake_Lost(t) == FALSE

\* PollWaker::wake, for the waker that the sleep of timer t holds.
Wake(t) == t \in armed

\* The next sleep is over: they all last as long, so they end in order.
sleep_ends ==
    /\ ConcurrentWakes \/ try_next = "Idle"
    /\ elapsed < added
    /\ elapsed' = elapsed + 1
    /\ armed' = armed \ {elapsed'}
    /\ poll_next' = (poll_next \/ Wake(elapsed'))
    /\ UNCHANGED <<timers, try_next, added, returned>>

Next ==
    \/ add
    \/ try_next_ready
    \/ try_next_poll
    \/ try_next_store
    \/ sleep_ends

Spec == Init /\ [][Next]_vars

\* The owner of the connection keeps calling next(), which calls try_next, and
\* time passes.
Fairness ==
    /\ WF_vars(try_next_ready)
    /\ WF_vars(try_next_poll)
    /\ WF_vars(try_next_store)
    /\ WF_vars(sleep_ends)

FairSpec == Spec /\ Fairness

-----------------------------------------------------------------------------
(* Correctness *)

\* Every variable has its type, and no timer is dropped (try_next, 79).
TypeOK ==
    /\ poll_next \in BOOLEAN
    /\ timers \in Seq(1..added)
    /\ try_next \in {"Idle", "Polled"}
    /\ elapsed \in 0..added
    /\ armed \subseteq 1..added
    /\ added \in 0..MaxTimers
    /\ returned \in Seq(1..added)
    /\ Len(returned) + Len(timers) = added

\* "calling [`Timers::try_next`] will return the next elapsed value" (11-12):
\* between two calls, if the timer at the front is over then the flag is set.
\* Nothing else would set it: only the first timer of an empty queue does.
ElapsedIsFound ==
    try_next = "Idle" /\ timers # <<>> /\ Over(Head(timers)) => poll_next

\* Every timer is returned in the end.
EventuallyReturned == \A t \in 1..MaxTimers : added >= t ~> Len(returned) >= t

=============================================================================
