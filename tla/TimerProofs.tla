----------------------------- MODULE TimerProofs ----------------------------
(***************************************************************************)
(* The view timer, for every number of views.                              *)
(***************************************************************************)
EXTENDS Timer, SequenceTheorems, TLAPS

\* The inductive invariant.
Inv == TypeOK /\ CurrentViewTimed /\ NoTimerAhead

\* The events of a channel that is empty, or holds one.
LEMMA EventsOfChannel ==
  ASSUME TypeOK
  PROVE  /\ timeout_ch = << >> => Events = {}
         /\ timeout_ch # << >> => /\ Head(timeout_ch) \in View
                                  /\ Events = {Head(timeout_ch)}
  <1>1. CASE timeout_ch = << >>
    BY <1>1 DEF Events
  <1>2. CASE timeout_ch # << >>
    <2>1. Len(timeout_ch) = 1 /\ timeout_ch[1] = Head(timeout_ch) /\ timeout_ch[1] \in View
      <3>1. timeout_ch \in Seq(View) /\ Len(timeout_ch) <= 1
        BY DEF TypeOK
      <3>2. Len(timeout_ch) = 1
        BY <1>2, <3>1, EmptySeq
      <3> QED
        BY <3>1, <3>2
    <2>2. 1 .. Len(timeout_ch) = {1}
      BY <2>1
    <2> QED
      BY <1>2, <2>1, <2>2 DEF Events
  <1> QED
    BY <1>1, <1>2

\* The timer of view 1 is started before the loop begins.
LEMMA InvInit == Init => Inv
  <1> SUFFICES ASSUME Init PROVE Inv
    OBVIOUS
  <1>1. TypeOK
    BY MaxViewAssumption DEF Init, TypeOK, View
  <1>2. Events = {}
    BY DEF Init, Events
  <1> QED
    BY <1>1, <1>2 DEF Init, Inv, CurrentViewTimed, NoTimerAhead

\* Leaving view v: the timer of the next view is the only one not stopped.
LEMMA LeaveView ==
  ASSUME Inv, NEW v \in View, ProcessLocalTimeout(v)
  PROVE  /\ view' \in View /\ view' >= view
         /\ counting' \subseteq View /\ stopped' \subseteq counting'
         /\ \A w \in counting' : w <= view'
         /\ view' # view => view' \in counting' \ stopped'
         /\ view' = view => counting' = counting /\ stopped' = stopped
  <1>1. CASE v >= view /\ v < MaxView
    <2>1. v + 1 \in View /\ v + 1 > view
      BY <1>1, MaxViewAssumption DEF Inv, TypeOK, View
    <2>2. view' = v + 1 /\ stopped' = counting /\ counting' = counting \cup {v + 1}
      BY <1>1 DEF ProcessLocalTimeout, ViewTimeout
    <2>3. \A w \in counting : w \in View /\ w <= view
      BY DEF Inv, TypeOK, NoTimerAhead
    <2> QED
      BY <2>1, <2>2, <2>3 DEF Inv, TypeOK, View
  <1>2. CASE ~(v >= view /\ v < MaxView)
    <2>1. view' = view /\ counting' = counting /\ stopped' = stopped
      BY <1>2 DEF ProcessLocalTimeout
    <2>2. view \in View /\ view >= view
      BY DEF Inv, TypeOK, View
    <2> QED
      BY <2>1, <2>2 DEF Inv, TypeOK, NoTimerAhead
  <1> QED
    BY <1>1, <1>2

\* No step of a timer task or of the pacemaker breaks the invariant.
LEMMA InvNext == Inv /\ [Next]_vars => Inv'
  <1> SUFFICES ASSUME Inv, [Next]_vars PROVE Inv'
    OBVIOUS
  <1> USE DEF Inv
  <1>1. ASSUME NEW v \in View, DelayOver(v) PROVE Inv'
    <2>1. TypeOK' /\ Events' = Events
      BY <1>1 DEF DelayOver, TypeOK, Events
    <2> QED
      BY <1>1, <2>1 DEF DelayOver, CurrentViewTimed, NoTimerAhead
  <1>2. ASSUME NEW v \in View, Cancel(v) PROVE Inv'
    <2>1. TypeOK' /\ Events' = Events
      BY <1>2 DEF Cancel, TypeOK, Events
    <2> QED
      BY <1>2, <2>1 DEF Cancel, CurrentViewTimed, NoTimerAhead
  <1>3. ASSUME NEW v \in View, Send(v) PROVE Inv'
    <2>1. TypeOK' /\ Events' = {v}
      BY <1>3 DEF Send, TypeOK, Events
    <2>2. Events = {}
      BY <1>3, EventsOfChannel DEF Send
    <2> QED
      BY <1>3, <2>1, <2>2 DEF Send, CurrentViewTimed, NoTimerAhead
  <1>4. ASSUME NEW v \in View, Respond(v) PROVE Inv'
    <2>1. sending' = sending /\ timeout_ch' = timeout_ch /\ Events' = Events
      BY <1>4 DEF Respond, Events
    <2>2. ProcessLocalTimeout(v)
      BY <1>4 DEF Respond
    <2>3. \A w \in sending \cup Events : w \in View
      BY EventsOfChannel DEF TypeOK
    <2>4. TypeOK'
      BY <2>1, <2>2, LeaveView DEF TypeOK
    <2>5. CurrentViewTimed'
      BY <2>1, <2>2, LeaveView DEF CurrentViewTimed
    <2>6. NoTimerAhead'
      <3>1. view \in Int /\ view' \in Int /\ view' >= view /\ \A w \in counting' : w <= view'
        BY <2>2, LeaveView DEF TypeOK, View
      <3>2. \A w \in sending \cup Events : w \in Int /\ w <= view
        BY <2>3 DEF NoTimerAhead, View
      <3>3. \A w \in sending' \cup Events' : w <= view'
        BY <2>1, <3>1, <3>2
      <3> QED
        BY <3>1, <3>3 DEF NoTimerAhead
    <2> QED
      BY <2>4, <2>5, <2>6
  <1>5. CASE ProcessTimeoutEvent
    <2> DEFINE v == Head(timeout_ch)
    <2>1. v \in View /\ Events = {v}
      BY <1>5, EventsOfChannel DEF ProcessTimeoutEvent
    <2>2. sending' = sending /\ timeout_ch' = << >> /\ ProcessLocalTimeout(v)
      BY <1>5 DEF ProcessTimeoutEvent
    <2>3. Events' = {}
      BY <2>2 DEF Events
    <2>4. v = view /\ view # MaxView => view' # view
      BY <2>1, <2>2, MaxViewAssumption DEF ProcessLocalTimeout, TypeOK, View
    <2> HIDE DEF v
    <2>5. TypeOK'
      BY <2>1, <2>2, LeaveView DEF TypeOK
    <2>6. CurrentViewTimed'
      BY <2>1, <2>2, <2>3, <2>4, LeaveView DEF CurrentViewTimed
    <2>7. NoTimerAhead'
      <3>1. view \in Int /\ view' \in Int /\ view' >= view /\ \A w \in counting' : w <= view'
        BY <2>1, <2>2, LeaveView DEF TypeOK, View
      <3>2. \A w \in sending : w \in Int /\ w <= view
        BY DEF NoTimerAhead, TypeOK, View
      <3>3. \A w \in sending' \cup Events' : w <= view'
        BY <2>2, <2>3, <3>1, <3>2
      <3> QED
        BY <3>1, <3>3 DEF NoTimerAhead
    <2> QED
      BY <2>5, <2>6, <2>7
  <1>6. CASE UNCHANGED vars
    BY <1>6 DEF vars, TypeOK, CurrentViewTimed, NoTimerAhead, Events
  <1> QED
    BY <1>1, <1>2, <1>3, <1>4, <1>5, <1>6 DEF Next

\* The timeout of the current view is never lost, whatever the order of stop
\* signals, delays and events, in a run of any number of views.
THEOREM TimeoutNotLost == Spec => []CurrentViewTimed
  <1>1. Inv => CurrentViewTimed
    BY DEF Inv
  <1> QED
    BY InvInit, InvNext, <1>1, PTL DEF Spec

\* No timer is ahead of the pacemaker.
THEOREM TimersBehind == Spec => []NoTimerAhead
  <1>1. Inv => NoTimerAhead
    BY DEF Inv
  <1> QED
    BY InvInit, InvNext, <1>1, PTL DEF Spec

\* A timeout moves the pacemaker by one view, a stale one not at all.
THEOREM StaleTimeoutsIgnored == Spec => TimeoutMovesByOne
  <1> DEFINE Moves ==
        timeout_ch # << >> /\ timeout_ch' = << >> =>
          view' = (IF Head(timeout_ch) = view /\ view < MaxView THEN view + 1 ELSE view)
  <1>1. ASSUME Inv, [Next]_vars PROVE [Moves]_vars
    <2> SUFFICES ASSUME timeout_ch # << >>, timeout_ch' = << >>, Next PROVE Moves
      BY <1>1 DEF vars
    <2>1. ProcessTimeoutEvent
      BY DEF Next, DelayOver, Cancel, Send, Respond
    <2>2. Head(timeout_ch) \in View /\ Head(timeout_ch) <= view
      BY <1>1, EventsOfChannel DEF Inv, NoTimerAhead
    <2> QED
      BY <1>1, <2>1, <2>2, MaxViewAssumption
      DEF ProcessTimeoutEvent, ProcessLocalTimeout, Inv, TypeOK, View
  <1> QED
    BY InvInit, InvNext, <1>1, PTL DEF Spec, TimeoutMovesByOne
=============================================================================
