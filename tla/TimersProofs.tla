---------------------------- MODULE TimersProofs ----------------------------
(***************************************************************************)
(* On a platform that does not wake concurrently with try_next, a timer    *)
(* that is over is always found.                                           *)
(***************************************************************************)
EXTENDS Timers, TLAPS

\* Without the flag, and between the poll and the store, the sleep at the
\* front holds our waker; and a sleep that holds it is not over.
Armed ==
    /\ timers # <<>> /\ ~poll_next => Head(timers) \in armed
    /\ try_next = "Polled" => timers # <<>> /\ Head(timers) \in armed
    /\ \A t \in armed : ~Over(t)

\* Appending keeps the head of a queue, or makes one (add).
LEMMA AppendFacts ==
    ASSUME NEW S, NEW q \in Seq(S), NEW x \in S
    PROVE  /\ Append(q, x) \in Seq(S)
           /\ Append(q, x) # <<>>
           /\ Len(Append(q, x)) = Len(q) + 1
           /\ q # <<>> => Head(Append(q, x)) = Head(q)
<1>1. Append(q, x) \in Seq(S) /\ Len(Append(q, x)) = Len(q) + 1
    OBVIOUS
<1>2. Append(q, x) # <<>>
    <2>1. Len(q) \in Nat /\ Len(<<>>) = 0
        OBVIOUS
    <2>2. Len(Append(q, x)) # Len(<<>>)
        BY <1>1, <2>1
    <2> QED
        BY <2>2
<1>3. ASSUME q # <<>> PROVE Head(Append(q, x)) = Head(q)
    <2>1. Len(q) > 0 /\ Append(q, x)[1] = q[1]
        BY <1>3
    <2> QED
        BY <1>1, <1>2, <1>3, <2>1
<1> QED
    BY <1>1, <1>2, <1>3

\* A queue that is not empty has a head and a tail, one shorter (try_next).
LEMMA HeadTailFacts ==
    ASSUME NEW S, NEW q \in Seq(S), q # <<>>
    PROVE  Head(q) \in S /\ Tail(q) \in Seq(S) /\ Len(Tail(q)) = Len(q) - 1 /\ Len(q) \in Nat
    OBVIOUS

\* Sequences over a range are sequences over a larger one.
LEMMA SeqGrows ==
    ASSUME NEW n \in Nat, NEW q \in Seq(1..n)
    PROVE  q \in Seq(1..(n + 1))
    OBVIOUS

\* The variables keep their types, and no timer is dropped.
THEOREM TypeCorrect == Spec => []TypeOK
<1>1. Init => TypeOK
    <2> SUFFICES ASSUME Init PROVE TypeOK
        OBVIOUS
    <2>1. timers \in Seq(1..added) /\ returned \in Seq(1..added)
        BY DEF Init
    <2>2. Len(returned) + Len(timers) = added
        BY DEF Init
    <2>3. elapsed \in 0..added /\ armed \subseteq 1..added /\ added \in 0..MaxTimers
        BY TimersConstants DEF Init
    <2> QED
        BY <2>1, <2>2, <2>3 DEF Init, TypeOK
<1>2. TypeOK /\ [Next]_vars => TypeOK'
    <2> SUFFICES ASSUME TypeOK, [Next]_vars PROVE TypeOK'
        OBVIOUS
    <2> USE TimersConstants DEF TypeOK
    <2>1. CASE add
        <3>1. timers \in Seq(1..(added + 1)) /\ returned \in Seq(1..(added + 1))
            BY SeqGrows
        <3>2. timers' \in Seq(1..(added + 1)) /\ Len(timers') = Len(timers) + 1
            BY <2>1, <3>1, AppendFacts, added + 1 \in 1..(added + 1) DEF add
        <3>3. poll_next' \in BOOLEAN
            BY <2>1 DEF add
        <3> QED
            BY <2>1, <3>1, <3>2, <3>3 DEF add
    <2>2. CASE try_next_ready
        <3>1. timers # <<>>
            BY <2>2 DEF try_next_ready, MayPoll
        <3>2. timers' \in Seq(1..added) /\ Len(timers') = Len(timers) - 1 /\ Len(timers) \in Nat
            BY <2>2, <3>1, HeadTailFacts DEF try_next_ready
        <3>3. returned' \in Seq(1..added) /\ Len(returned') = Len(returned) + 1
            BY <2>2, <3>1, HeadTailFacts, AppendFacts DEF try_next_ready
        <3>4. Len(returned') + Len(timers') = added
            <4>1. Len(returned) \in Nat /\ Len(timers) \in Nat /\ Len(returned) + Len(timers) = added
                OBVIOUS
            <4> HIDE DEF TypeOK
            <4> QED
                BY <3>2, <3>3, <4>1
        <3> QED
            BY <2>2, <3>2, <3>3, <3>4 DEF try_next_ready
    <2>3. CASE try_next_poll
        BY <2>3, HeadTailFacts DEF try_next_poll, MayPoll
    <2>4. CASE try_next_store
        BY <2>4 DEF try_next_store
    <2>5. CASE sleep_ends
        <3>1. poll_next' \in BOOLEAN
            BY <2>5, Zenon DEF sleep_ends, Wake
        <3> QED
            BY <2>5, <3>1 DEF sleep_ends
    <2>6. CASE UNCHANGED vars
        BY <2>6 DEF vars
    <2> QED
        BY <2>1, <2>2, <2>3, <2>4, <2>5, <2>6 DEF Next
<1> QED
    BY <1>1, <1>2, PTL DEF Spec

\* If the platform wakes only between two calls of try_next, the flag is set
\* whenever the timer at the front is over: no request outlives its timeout
\* because of a wake-up that was overwritten.
THEOREM NoTimerMissed == ~ConcurrentWakes => (Spec => []ElapsedIsFound)
<1> SUFFICES ASSUME ~ConcurrentWakes PROVE Spec => []ElapsedIsFound
    OBVIOUS
<1>1. Init => Armed
    BY DEF Init, Armed
<1>2. TypeOK /\ Armed /\ [Next]_vars => Armed'
    <2> SUFFICES ASSUME TypeOK, Armed, [Next]_vars PROVE Armed'
        OBVIOUS
    <2> USE TimersConstants DEF TypeOK, Armed, Over
    <2>1. CASE add
        <3>1. timers \in Seq(1..(added + 1)) /\ added + 1 \in 1..(added + 1)
            BY SeqGrows
        <3>2. CASE timers = <<>>
            <4>1. Len(timers') = 1
                BY <2>1, <3>2 DEF add
            <4> QED
                BY <2>1, <4>1 DEF add
        <3>3. CASE timers # <<>>
            <4>1. Head(timers') = Head(timers)
                BY <2>1, <3>1, <3>3, AppendFacts DEF add
            <4>2. ~poll_next' => ~poll_next
                BY <2>1, Zenon DEF add
            <4> QED
                BY <2>1, <3>3, <4>1, <4>2 DEF add
        <3> QED
            BY <3>2, <3>3
    <2>2. CASE try_next_ready
        BY <2>2 DEF try_next_ready, MayPoll
    <2>3. CASE try_next_poll
        BY <2>3 DEF try_next_poll, MayPoll
    <2>4. CASE try_next_store
        BY <2>4 DEF try_next_store
    <2>5. CASE sleep_ends
        <3>1. try_next = "Idle"
            BY <2>5, Zenon DEF sleep_ends
        <3>2. \A t \in armed' : ~Over(t)'
            BY <2>5 DEF sleep_ends
        <3>3. ASSUME timers' # <<>>, ~poll_next'
              PROVE  Head(timers') \in armed'
            <4>1. ~poll_next /\ elapsed' \notin armed
                BY <2>5, <3>3, Zenon DEF sleep_ends, Wake
            <4> QED
                BY <2>5, <3>3, <4>1 DEF sleep_ends
        <3> QED
            BY <2>5, <3>1, <3>2, <3>3 DEF sleep_ends
    <2>6. CASE UNCHANGED vars
        BY <2>6 DEF vars
    <2> QED
        BY <2>1, <2>2, <2>3, <2>4, <2>5, <2>6 DEF Next
<1>3. Armed => ElapsedIsFound
    BY DEF Armed, ElapsedIsFound
<1> QED
    BY <1>1, <1>2, <1>3, TypeCorrect, PTL DEF Spec

=============================================================================
