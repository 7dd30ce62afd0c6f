------------------------------- MODULE Telnet -------------------------------
(***************************************************************************)
(* Commands of a console session (src/src/base/oonf_telnet.c) and those of *)
(* the remote control plugin (src/src/generic/remotecontrol/               *)
(* remotecontrol.c).  c holds everything a command can change: c.out the   *)
(* output of every session, c.wr whether the scheduler was asked to write, *)
(* c.d the data the console keeps of a session, c.T the timers, c.logs and *)
(* c.routes the sessions with a log handler and with a netlink request.    *)
(* Session 0 is the one on the stack that runs a command for a web page.   *)
(*                                                                         *)
(* Timers of the scheduler (src/src/base/oonf_timer.c).  Time is counted   *)
(* in slices, and the clock of a timer is kept as the slices left until it *)
(* fires.  T.tree is the sorted tree: timers that fire at the same time    *)
(* fire in the order in which they were started.                           *)
(***************************************************************************)
EXTENDS Naturals, Sequences, SequencesExt

CONSTANTS SessionTimeout,  \* time until an idle session is closed, in slices
          RepeatInterval,  \* interval given to the repeat command
          MaxOut           \* output is counted up to this amount
ASSUME TelnetAssumption == SessionTimeout \in Nat \ {0} /\ RepeatInterval \in Nat \ {0} /\ MaxOut \in Nat \ {0}

NoTimer == <<"none", 0>>
NoTimers == [tree |-> <<>>, running |-> NoTimer, stopped |-> FALSE]

Active(T, id) == \E i \in DOMAIN T.tree : T.tree[i].id = id
TimerOf(T, id) == T.tree[CHOOSE i \in DOMAIN T.tree : T.tree[i].id = id]
Others(T, id) == SelectSeq(T.tree, LAMBDA t : t.id # id)

\* A timer never fires early: its time is rounded up to the end of a slice.
_calc_clock(first) == first + 1
_avlcomp_timer(tree, left) == Len(SelectSeq(tree, LAMBDA t : t.left <= left))
oonf_timer_start_ext(T, id, first, period) ==
  LET left == _calc_clock(first)
      tree == Others(T, id)
  IN [T EXCEPT !.tree = InsertAt(tree, _avlcomp_timer(tree, left) + 1, [id |-> id, left |-> left, period |-> period])]
oonf_timer_stop(T, id) ==
  IF ~Active(T, id) THEN T
  ELSE [T EXCEPT !.tree = Others(T, id), !.stopped = @ \/ T.running = id]

oonf_timer_set_ext(T, id, first, period) ==
  IF first = 0 THEN oonf_timer_stop(T, id) ELSE oonf_timer_start_ext(T, id, first, period)

Due(T) == T.tree # <<>> /\ Head(T.tree).left = 0
\* oonf_timer_walk before and after the callback of the first timer
Fire(T) ==
  LET t == Head(T.tree)
      called == [T EXCEPT !.running = t.id, !.stopped = FALSE]
  IN IF t.period = 0 THEN oonf_timer_stop(called, t.id) ELSE called
Fired(T) ==
  LET next == IF T.stopped THEN T ELSE oonf_timer_start_ext(T, T.running, TimerOf(T, T.running).period, TimerOf(T, T.running).period)
  IN [next EXCEPT !.running = NoTimer, !.stopped = FALSE]

oonf_clock_update(T) == [T EXCEPT !.tree = [i \in DOMAIN @ |-> [T.tree[i] EXCEPT !.left = @ - 1]]]

-----------------------------------------------------------------------------
NONE == "none"
OnStack == 0
RepeatTimer(s) == <<"repeat", s>>
TimeoutTimer(s) == <<"timeout", s>>

\* rc tells whether the plugin has a session of its own, removed with the cleanup list.
NoData == [stop |-> NONE, show_echo |-> TRUE, timeout_value |-> SessionTimeout, command |-> NONE, rc |-> FALSE]

Puts(c, s) == IF s = OnStack THEN c ELSE [c EXCEPT !.out[s] = IF @ = MaxOut THEN @ ELSE @ + 1]
oonf_stream_flush(c, s) == IF s = OnStack THEN c ELSE [c EXCEPT !.wr[s] = TRUE]
\* Mutant: output is added and nobody asks for it to be sent.
FlushNothing(c, s) == c
oonf_telnet_flush_session(c, s) == oonf_stream_flush(c, s)

-----------------------------------------------------------------------------
(* commands that go on until the next one stops them *)

_cb_route_finished(c, s) ==
  oonf_telnet_flush_session([Puts(c, s) EXCEPT !.d[s].stop = NONE, !.d[s].show_echo = TRUE], s)
_cb_route_stophandler(c, s) ==
  IF s \in c.routes THEN _cb_route_finished([c EXCEPT !.routes = @ \ {s}], s) ELSE c
_stop_logging(c, s) == [c EXCEPT !.logs = @ \ {s}]
_cb_telnet_repeat_stophandler(c, s) ==
  [c EXCEPT !.T = oonf_timer_stop(@, RepeatTimer(s)), !.d[s].command = NONE]
_call_stop_handler(c, s) ==
  LET cleared == [c EXCEPT !.d[s].stop = NONE]
  IN CASE c.d[s].stop = "repeat" -> _cb_telnet_repeat_stophandler(cleared, s)
       [] c.d[s].stop = "log" -> _stop_logging(cleared, s)
       [] c.d[s].stop = "route" -> _cb_route_stophandler(cleared, s)
       [] OTHER -> c
oonf_telnet_stop(c, s) ==
  oonf_telnet_flush_session([_call_stop_handler(c, s) EXCEPT !.d[s].show_echo = TRUE], s)

-----------------------------------------------------------------------------
(* the commands; a result is what changed and what the command returns *)

Result(c, r) == [c |-> c, r |-> r]
_get_remotecontrol_session(c, s) == [c EXCEPT !.d[s].rc = TRUE]
_cb_handle_log(c0, s) ==
  LET c == _get_remotecontrol_session(c0, s)
  IN IF c.d[s].stop # NONE THEN Result(Puts(c, s), "active")
     ELSE Result([c EXCEPT !.logs = @ \cup {s}, !.d[s].stop = "log"], "continous")
\* It does not look at stop_handler and replaces the one that is set.
_cb_handle_route(c0, s) ==
  LET c == _get_remotecontrol_session(c0, s)
  IN Result([c EXCEPT !.routes = @ \cup {s}, !.d[s].stop = "route",
                      !.stacked = @ \/ c.d[s].stop # NONE], "continous")
HandleConfig(c, s) == Result([c EXCEPT !.commit = TRUE], "active")
_cb_telnet_timeout(c, s) == Result([c EXCEPT !.d[s].timeout_value = 0], "active")
_cb_telnet_echo(c, s) == Result(Puts(c, s), "active")
_cb_telnet_quit(c, s) == Result(c, "quit")

Simple(c, s, cmd) ==
  CASE cmd = "log" -> _cb_handle_log(c, s)
    [] cmd = "route" -> _cb_handle_route(c, s)
    [] cmd = "commit" -> HandleConfig(c, s)
    [] cmd = "timeout" -> _cb_telnet_timeout(c, s)
    [] cmd = "echo" -> _cb_telnet_echo(c, s)
    [] cmd = "quit" -> _cb_telnet_quit(c, s)
    [] OTHER -> Result(c, "unknown")
\* A command that is not over at once ends the repetition.
StopUnlessActive(res, s) == IF res.r # "active" THEN _call_stop_handler(res.c, s) ELSE res.c
Repeated(c, s, cmd) == StopUnlessActive(Simple(c, s, cmd), s)
_cb_telnet_repeat(c, s, cmd) ==
  IF c.d[s].stop # NONE THEN Result(Puts(c, s), "active")
  ELSE LET started == [c EXCEPT !.T = oonf_timer_start_ext(@, RepeatTimer(s), RepeatInterval, RepeatInterval),
                                !.d[s].stop = "repeat", !.d[s].command = cmd]
       IN Result(Repeated(started, s, cmd), "continous")
_cb_telnet_repeat_timer(c, s) == oonf_stream_flush(Repeated(c, s, c.d[s].command), s)

\* A command is a pair: what is repeated, or none, and the command itself.
_telnet_handle_command(c, s, cmd) ==
  IF cmd[1] = "repeat" THEN _cb_telnet_repeat(c, s, cmd[2]) ELSE Simple(c, s, cmd[2])

-----------------------------------------------------------------------------
(* input, start and end of a session *)

\* One line of input.  The stop handler of the last command comes first, and
\* an empty line does nothing else.
Answered(res, s, chained) ==
  LET answered == CASE res.r = "continous" -> [res.c EXCEPT !.d[s].show_echo = FALSE]
                    [] res.r = "unknown" -> Puts(res.c, s)
                    [] OTHER -> res.c
  IN Result(IF res.r # "quit" /\ ~chained /\ answered.d[s].show_echo THEN Puts(answered, s) ELSE answered, res.r)
Line(c, s, cmd, chained) ==
  LET stopped == _call_stop_handler(c, s)
  IN IF cmd[2] = "empty" THEN Result(stopped, "active")
     ELSE Answered(_telnet_handle_command(stopped, s, cmd), s, chained)
\* The lines of the input buffer until one of them ends the session.
Execute(c, s, cmds, chained) ==
  FoldLeft(LAMBDA acc, cmd : IF acc.r = "quit" THEN acc ELSE Line(acc.c, s, cmd, chained), Result(c, "active"), cmds)

_cb_telnet_init(c, s) == [c EXCEPT !.d[s] = NoData]
RemoveCleanups(c, s) == [c EXCEPT !.d[s].rc = FALSE]
\* Mutant: the command that goes on is not stopped.
CleanupWithoutStop(c, s) == RemoveCleanups(c, s)
_cb_telnet_cleanup(c, s) == RemoveCleanups(oonf_telnet_stop(c, s), s)
StoppedOnStack(res) == Result(RemoveCleanups(_call_stop_handler(res.c, OnStack), OnStack), res.r)
oonf_telnet_execute(c, cmd) == StoppedOnStack(_telnet_handle_command(_cb_telnet_init(c, OnStack), OnStack, cmd))
_cb_print_log(c, s) == oonf_telnet_flush_session(Puts(c, s), s)
=============================================================================
