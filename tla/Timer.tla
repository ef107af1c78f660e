-------------------------------- MODULE Timer -------------------------------
(***************************************************************************)
(* The view timer of one replica: DefaultTimer, the tasks it spawns, and   *)
(* the part of the pacemaker that starts it and takes its events.          *)
(*                                                                         *)
(* Starting the timer of a view tells the tasks before it to stop.  They   *)
(* see that later, and a task whose delay is over by then may take either  *)
(* branch of its select, so an event of an earlier view can still come.    *)
(***************************************************************************)
EXTENDS Integers, Sequences

CONSTANT MaxView   \* bound: the last view

ASSUME MaxViewAssumption == MaxView \in Nat \ {0}

VARIABLES
  view,        \* view of the pacemaker
  counting,    \* views whose task waits for its delay or for the stop signal
  stopped,     \* those of them that have the stop signal
  sending,     \* views whose task waits for room in the channel
  timeout_ch   \* the channel to the pacemaker, of capacity 1

vars == <<view, counting, stopped, sending, timeout_ch>>

View == 1 .. MaxView

\* goto_new_view(1), when the loop begins.
Init ==
  /\ view = 1
  /\ counting = {1}
  /\ stopped = {}
  /\ sending = {}
  /\ timeout_ch = << >>

\* Mutant: stops after it starts, so that the new timer gets the signal as well.
ViewTimeoutStopsAll(v) ==
  /\ stopped' = counting \cup {v}
  /\ counting' = counting \cup {v}

\* view_timeout: stop the timers there are and start one for view v.
ViewTimeout(v) ==
  /\ stopped' = counting
  /\ counting' = counting \cup {v}

\* A timer's task: the delay is over, or the stop signal is seen, ...
DelayOver(v) ==
  /\ v \in counting
  /\ counting' = counting \ {v}
  /\ stopped' = stopped \ {v}
  /\ sending' = sending \cup {v}
  /\ UNCHANGED <<view, timeout_ch>>

Cancel(v) ==
  /\ v \in stopped
  /\ counting' = counting \ {v}
  /\ stopped' = stopped \ {v}
  /\ UNCHANGED <<view, sending, timeout_ch>>

\* Mutant: does not wait for room.
SendWithoutRoom(v) ==
  /\ v \in sending
  /\ timeout_ch' = Append(timeout_ch, v)
  /\ sending' = sending \ {v}
  /\ UNCHANGED <<view, counting, stopped>>

\* ... and then the event is sent, as soon as there is room.
Send(v) ==
  /\ v \in sending
  /\ timeout_ch = << >>
  /\ timeout_ch' = <<v>>
  /\ sending' = sending \ {v}
  /\ UNCHANGED <<view, counting, stopped>>

\* Mutant: an event of an earlier view counts too.
ProcessLocalTimeoutAlways(v) ==
  IF v < MaxView
  THEN view' = v + 1 /\ ViewTimeout(v + 1)
  ELSE UNCHANGED <<view, counting, stopped>>

\* Leave view v for the next one, unless the pacemaker is past it.
ProcessLocalTimeout(v) ==
  IF v >= view /\ v < MaxView
  THEN view' = v + 1 /\ ViewTimeout(v + 1)
  ELSE UNCHANGED <<view, counting, stopped>>

\* The pacemaker takes an event, ...
ProcessTimeoutEvent ==
  /\ timeout_ch # << >>
  /\ ProcessLocalTimeout(Head(timeout_ch))
  /\ timeout_ch' = << >>
  /\ UNCHANGED sending

\* ... or has signed a proposal of view v, or formed a certificate in it.
Respond(v) ==
  /\ ProcessLocalTimeout(v)
  /\ UNCHANGED <<sending, timeout_ch>>

Next ==
  \/ ProcessTimeoutEvent
  \/ \E v \in View : DelayOver(v) \/ Cancel(v) \/ Send(v) \/ Respond(v)

Spec == Init /\ [][Next]_vars

\* Delays end, tasks run, and the loop of the pacemaker keeps taking events.
FairSpec ==
  /\ Spec
  /\ WF_vars(ProcessTimeoutEvent)
  /\ \A v \in View : WF_vars(DelayOver(v)) /\ WF_vars(Send(v))

-----------------------------------------------------------------------------
Events == {timeout_ch[i] : i \in 1 .. Len(timeout_ch)}

\* The tasks are those of views, a stopped one still counts, and the channel of
\* the pacemaker holds at most one event.
TypeOK ==
  /\ view \in View
  /\ counting \subseteq View
  /\ stopped \subseteq counting
  /\ sending \subseteq View
  /\ timeout_ch \in Seq(View) /\ Len(timeout_ch) <= 1

\* However stop signals, delays and the full channel interleave, the timeout of
\* the current view is not lost: its task counts and has not been told to stop,
\* or its event is on the way to process_timeout_event.
CurrentViewTimed ==
  \/ view \in counting \ stopped
  \/ view \in sending
  \/ view \in Events
  \/ view = MaxView

\* No timer is ahead of the pacemaker: what process_timeout_event gets is of the
\* current view or an earlier one, so a timeout never skips a view.
NoTimerAhead == \A v \in counting \cup sending \cup Events : v <= view

\* A stale event does nothing: only an event of the current view moves the
\* pacemaker, and by one view.
TimeoutMovesByOne ==
  [][timeout_ch # << >> /\ timeout_ch' = << >> =>
       view' = (IF Head(timeout_ch) = view /\ view < MaxView THEN view + 1 ELSE view)]_vars

\* A replica that hears nothing still leaves every view.
EveryViewEnds == <>(view = MaxView)
=============================================================================
