------------------------------- MODULE Sockets -------------------------------
(***************************************************************************)
(* The scheduler (src/src/base/oonf_socket.c), TCP sessions                *)
(* (src/src/base/oonf_stream_socket.c) used by the console, by the web     *)
(* server (src/src/base/oonf_http.c) and by a client that connects to a    *)
(* peer as DLEP routers do, and a managed pair of UDP sockets.  The        *)
(* scheduler runs the timers that are due, waits for events of sockets and *)
(* handles the events one after the other; a callback is one step.         *)
(***************************************************************************)
EXTENDS Integers, Telnet

CONSTANTS Slots,     \* memory of sessions, numbers greater than 0
          Addresses, \* addresses a server may be bound to, numbers greater than 0
          SockBudgets    \* how often each actor may act
ASSUME SlotAssumption == Slots \subseteq Nat \ {0} /\ Addresses \subseteq Nat \ {0}

\* The stream sockets are numbers below 0 and the heads of their lists.
ConsoleSocket == -1
Web == -2
Client == -3
Kinds == {ConsoleSocket, Web, Client}
Servers == {ConsoleSocket, Web}
MaxIn == 2              \* maximum_input_buffer
NoAddress == 0
Families == {"v4", "v6"}
Commands == {"echo", "quit", "unknown", "log", "route", "commit", "timeout", "empty"}
Requests == {"bad", "nosite", "page", "file", "telnet"}

VARIABLES con,    \* sessions, sockets, console data and timers
          pkt,    \* the managed UDP sockets
          batch,  \* events of the current round that are still to be handled
          backlog, \* clients the servers have not accepted yet
          survivors,  \* history: a session has outlived its server
          fault, sockBudget
sockVars == <<con, pkt, batch, backlog, survivors, fault, sockBudget>>
environment == <<pkt, backlog>>

-----------------------------------------------------------------------------
(* managed UDP sockets (src/src/base/oonf_packet_socket.c): a socket for      *)
(* unicast and one for multicast of one address family, bound to an address   *)
(* of an interface that comes and goes, and the datagrams that wait until the *)
(* kernel takes them.  m.cfg is the configuration, m.os_if the interface as   *)
(* the operating system layer knows it; errors of socket calls are given by   *)
(* the caller.                                                                *)

Multicast == -1

\* The socket address: it holds the index of the interface for IPv6 only.
netaddr_socket_init(m, addr, port) ==
  [addr |-> addr, port |-> port, scope |-> IF m.af = "v6" THEN m.os_if.index ELSE 0]
\* device is what the kernel binds the socket to.
NoSocket == [added |-> FALSE, local |-> [addr |-> NoAddress, port |-> 0, scope |-> 0], device |-> 0, protocol |-> 0,
             out |-> <<>>, read |-> FALSE, write |-> FALSE]
\* lost is a history: datagrams that were dropped.
Drop(m, k) == [m EXCEPT !.lost = @ \cup ToSet(m[k].out)]

_packet_add(m, k, local, protocol) ==
  [m EXCEPT ![k] = [NoSocket EXCEPT !.added = TRUE, !.local = local, !.device = m.os_if.index,
                                    !.protocol = protocol, !.read = TRUE]]
oonf_packet_remove(m, k) == IF m[k].added THEN [Drop(m, k) EXCEPT ![k] = NoSocket] ELSE m

\* The link-local address of the family comes first, then the lowest accepted one.
os_interface_get_bindaddress(os_if, bindto) ==
  LET usable == os_if.addrs \cap bindto
  IN IF usable = {} THEN NoAddress ELSE CHOOSE a \in usable : \A b \in usable : a <= b
BindTo(m) ==
  IF ~m.os_if.up THEN NoAddress
  ELSE IF m.os_if.linklocal \in m.cfg.bindto THEN m.os_if.linklocal
  ELSE os_interface_get_bindaddress(m.os_if, m.cfg.bindto)

\* Mutant: an interface that was created anew with the same address is not noticed.
ApplyIgnoresIndex(m, k, addr, port, fails) ==
  LET s == m[k]
      same == s.local.addr = addr /\ s.local.port = port /\ s.protocol = m.cfg.protocol
      removed == oonf_packet_remove(m, k)
  IN IF s.added /\ same THEN [m |-> m, r |-> 1]
     ELSE IF k \in fails THEN [m |-> removed, r |-> -1]
     ELSE [m |-> _packet_add(removed, k, netaddr_socket_init(m, addr, port), m.cfg.protocol), r |-> 0]
\* -1: failed, 0: changed, 1: nothing to do.  The interface is the same entry
\* of the operating system layer when it was created anew.
_apply_managed_socket(m, k, addr, port, fails) ==
  LET sock == netaddr_socket_init(m, addr, port)
      removed == oonf_packet_remove(m, k)
  IN IF m[k].added /\ m[k].local = sock /\ m[k].protocol = m.cfg.protocol THEN [m |-> m, r |-> 1]
     ELSE IF k \in fails THEN [m |-> removed, r |-> -1]
     ELSE [m |-> _packet_add(removed, k, sock, m.cfg.protocol), r |-> 0]
mc_port(m) == IF m.cfg.multicast_port = 0 THEN m.cfg.port ELSE m.cfg.multicast_port
\* When the multicast socket fails the unicast one is removed, too.
_apply_managed_socketpair(m, fails) ==
  LET addr == BindTo(m)
      none == oonf_packet_remove(oonf_packet_remove(m, "socket"), "multicast")
      uni == _apply_managed_socket(m, "socket", addr, m.cfg.port, fails)
      first == IF uni.r = -1 THEN oonf_packet_remove(uni.m, "socket") ELSE uni.m
      mc == _apply_managed_socket(first, "multicast", Multicast, mc_port(m), fails)
      second == IF mc.r = -1 THEN oonf_packet_remove(mc.m, "socket") ELSE mc.m
  IN IF addr = NoAddress THEN [m |-> none, r |-> 0]
     ELSE IF ~m.cfg.multicast THEN [m |-> oonf_packet_remove(first, "multicast"), r |-> IF uni.r = -1 THEN -1 ELSE 0]
     ELSE [m |-> second, r |-> IF uni.r = -1 \/ mc.r = -1 THEN -1 ELSE 0]
\* After a failure the listener is called again later.
_apply_managed(m, fails) ==
  LET res == _apply_managed_socketpair(m, fails)
  IN [res.m EXCEPT !.pending = res.r = -1]
oonf_packet_apply_managed(m, config, fails) ==
  LET applied == _apply_managed([m EXCEPT !.cfg = config], fails)
  IN [applied EXCEPT !.pending = @ \/ m.pending]
_cb_interface_listener(m, fails) == _apply_managed(m, fails)
oonf_packet_remove_managed(m) ==
  [oonf_packet_remove(oonf_packet_remove(m, "socket"), "multicast") EXCEPT !.on = FALSE, !.pending = FALSE]

\* answer: what sendto says: sent, again (it would block), refused (EPERM and
\* other errors) or badf (the descriptor is gone)
oonf_packet_send(m, datagram, answer) ==
  LET s == m["socket"]
      queue == [m EXCEPT !["socket"].out = Append(@, datagram), !["socket"].write = TRUE]
  IN IF s.out # <<>> THEN queue
     ELSE CASE answer = "sent" -> [m EXCEPT !.sent = Append(@, datagram)]
            [] answer = "again" -> queue
            [] OTHER -> [m EXCEPT !.lost = @ \cup {datagram}]
oonf_packet_send_managed(m, datagram, answer, fails) ==
  IF ~m["socket"].added THEN [m EXCEPT !.lost = @ \cup {datagram}]
  ELSE LET done == oonf_packet_send(m, datagram, answer)
       IN IF answer = "badf" /\ m["socket"].out = <<>>
          THEN LET applied == _apply_managed(oonf_packet_remove(done, "socket"), fails)
               IN [applied EXCEPT !.pending = m.pending, !.unretried = @ \/ applied.pending]
          ELSE done
_cb_packet_event(m, answer) ==
  LET s == m["socket"]
      datagram == Head(s.out)
      taken == [m EXCEPT !["socket"].out = Tail(@),
                         !.sent = IF answer = "sent" THEN Append(@, datagram) ELSE @,
                         !.lost = IF answer = "sent" THEN @ ELSE @ \cup {datagram}]
      rest == IF s.out = <<>> THEN m ELSE taken
  IN IF s.out # <<>> /\ answer = "again" THEN m
     ELSE [rest EXCEPT !["socket"].write = rest["socket"].out # <<>>]

-----------------------------------------------------------------------------
SockSpend(kind) == sockBudget[kind] > 0 /\ sockBudget' = [sockBudget EXCEPT ![kind] = @ - 1]
Running == fault = NONE

NoSession == [alive |-> FALSE, kind |-> ConsoleSocket, state |-> "inactive", in |-> <<>>, rd |-> FALSE, wait |-> FALSE,
              removed |-> FALSE, copy |-> 0, counted |-> FALSE, inq |-> <<>>, closed |-> FALSE, broken |-> FALSE]
NoStream == [added |-> FALSE, bound |-> NoAddress, session_counter |-> 0, allowed_sessions |-> 1,
             busy |-> FALSE, remove |-> FALSE]
Started(k) == IF k \in Servers THEN [NoStream EXCEPT !.added = TRUE, !.bound = 1] ELSE NoStream
NoLinks == [n \in Slots \cup Kinds |-> n]
SockInit ==
  /\ con = [sess |-> [s \in Slots |-> NoSession], sock |-> [k \in Kinds |-> Started(k)], next |-> NoLinks, prev |-> NoLinks,
            out |-> [s \in Slots |-> 0], wr |-> [s \in Slots |-> FALSE], d |-> [s \in Slots \cup {OnStack} |-> NoData],
            T |-> NoTimers, logs |-> {}, routes |-> {}, commit |-> FALSE, stacked |-> FALSE, retry |-> {}]
  /\ \E af \in Families : pkt =
           [af |-> af, socket |-> NoSocket, multicast |-> NoSocket, on |-> FALSE, pending |-> FALSE, unretried |-> FALSE,
            cfg |-> [bindto |-> {}, port |-> 1, multicast_port |-> 0, multicast |-> TRUE, protocol |-> 0],
            os_if |-> [up |-> TRUE, index |-> 1, linklocal |-> 1, addrs |-> {1}], sent |-> <<>>, lost |-> {}, given |-> 0]
  /\ batch = <<>> /\ backlog = [k \in Servers |-> 0] /\ fault = NONE
  /\ survivors = FALSE
  /\ sockBudget \in SockBudgets

-----------------------------------------------------------------------------
(* list.h: doubly linked lists, the head of a list is the kind of the socket *)

list_init_head(c, h) == [c EXCEPT !.next[h] = h, !.prev[h] = h]
list_add_tail(c, h, n) ==
  LET last == c.prev[h]
      linked == [c EXCEPT !.next[n] = h, !.prev[n] = last]
  IN [linked EXCEPT !.next[last] = n, !.prev[h] = n]

list_remove(c, n) ==
  LET before == c.prev[n]
      after == c.next[n]
      cut == [c EXCEPT !.next[before] = after]
      unlinked == [cut EXCEPT !.prev[after] = before]
  IN [unlinked EXCEPT !.next[n] = n, !.prev[n] = n]
\* the elements a walk over the list meets
Walked(c, h) ==
  LET step[i \in 0..Cardinality(Slots)] == IF i = 0 THEN c.next[h] ELSE IF step[i - 1] = h THEN h ELSE c.next[step[i - 1]]
  IN {step[i] : i \in 0..Cardinality(Slots)} \ {h}

-----------------------------------------------------------------------------
(* sessions *)

SetTimeout(c, s, t) == [c EXCEPT !.T = oonf_timer_set_ext(@, TimeoutTimer(s), t, 0)]
oonf_stream_set_timeout(c, s) == SetTimeout(c, s, SessionTimeout)

cleanup_session(c, s) == IF c.sess[s].kind = ConsoleSocket THEN _cb_telnet_cleanup(c, s) ELSE c

_stream_close(c0, s) ==
  LET k == c0.sess[s].kind
      c == cleanup_session(c0, s)
      stopped == [c EXCEPT !.T = oonf_timer_stop(@, TimeoutTimer(s)), !.sock[k].session_counter = @ - 1]
      unlisted == list_remove(stopped, s)
  IN [unlisted EXCEPT !.sess[s] = NoSession, !.out[s] = 0, !.wr[s] = FALSE]
oonf_stream_close(c, s, busy) ==
  IF busy THEN [c EXCEPT !.sess[s].removed = TRUE] ELSE _stream_close(c, s)

\* Sessions with output that waits stay.
oonf_stream_close_all_sessions(c, k) ==
  FoldSet(LAMBDA s, acc : IF acc.out[s] = 0 THEN _stream_close(acc, s) ELSE acc, c, Walked(c, k))
oonf_stream_remove(c, k, force) ==
  IF c.sock[k].busy /\ ~force THEN [c EXCEPT !.sock[k].remove = TRUE]
  ELSE IF ~c.sock[k].added THEN c
  ELSE LET closed == oonf_stream_close_all_sessions(c, k)
       IN [closed EXCEPT !.sock[k] = [@ EXCEPT !.added = FALSE, !.bound = NoAddress, !.remove = FALSE]]
oonf_stream_add(c, k, addr) ==
  list_init_head([c EXCEPT !.sock[k] = [@ EXCEPT !.added = TRUE, !.bound = addr]], k)

\* A session over the limit gets an error and is closed once it is sent.
_create_session(c, k, s, wait) ==
  LET active == c.sock[k].session_counter < c.sock[k].allowed_sessions
      made == [c EXCEPT !.sess[s] = [NoSession EXCEPT !.alive = TRUE, !.kind = k, !.rd = TRUE, !.wait = wait, !.counted = active,
                                                      !.state = IF active THEN "active" ELSE "send_and_quit"],
                        !.out[s] = IF active THEN 0 ELSE 1, !.wr[s] = TRUE,
                        !.sock[k].session_counter = IF active THEN @ + 1 ELSE @]
      timed == oonf_stream_set_timeout(made, s)
  IN list_add_tail(IF k = ConsoleSocket THEN _cb_telnet_init(timed, s) ELSE timed, k, s)

-----------------------------------------------------------------------------
(* data of a session; the result of receive_data is the new state *)

\* Input of the console: a line of one command or a chain of them.  Part is
\* text without an end, which spoils the line or the request it belongs to.
Part == [cmds |-> <<>>, chain |-> FALSE, req |-> NONE]
Typed(cmds, chain) == [cmds |-> cmds, chain |-> chain, req |-> NONE]
Request(req, cmd) == [cmds |-> <<cmd>>, chain |-> FALSE, req |-> req]
Unknown == <<NONE, "unknown">>

Received(c, state) == [c |-> c, state |-> state, hangs |-> FALSE]
\* open counts the parts that wait for the end of their line.
LineDone(res, chain) == [c |-> res.c, r |-> IF chain THEN "quit" ELSE res.r, open |-> 0, processed |-> TRUE]
TelnetLine(acc, s, item) ==
  LET chain == item.chain /\ acc.open = 0
  IN IF acc.r = "quit" THEN acc
     ELSE IF item = Part THEN [acc EXCEPT !.open = @ + 1]
     ELSE LineDone(Execute(acc.c, s, IF acc.open > 0 THEN <<Unknown>> ELSE item.cmds, chain), chain)
\* After the end of the stream an open line is executed again and again.
LinesDone(all, s) ==
  LET state == all.c.sess[s].state
      rest == [all.c EXCEPT !.sess[s].in = [i \in 1..all.open |-> Part]]
      timed == SetTimeout(rest, s, rest.d[s].timeout_value)
      prompt == all.processed /\ state = "active" /\ rest.d[s].show_echo
  IN IF all.r = "quit" THEN Received(rest, "send_and_quit")
     ELSE [Received(IF prompt THEN Puts(timed, s) ELSE timed, "active") EXCEPT !.hangs = all.open > 0 /\ state # "active"]
_cb_telnet_receive_data(c, s) ==
  LinesDone(FoldLeft(LAMBDA acc, item : TelnetLine(acc, s, item),
                     [c |-> c, r |-> "active", open |-> 0, processed |-> FALSE], c.sess[s].in), s)

_parse_http_header(item, spoiled) == item.req # "bad" /\ ~spoiled
_get_site_handler(item) == item.req # "nosite"
_create_http_header(c, s) == [c EXCEPT !.out[s] = MaxOut]
_cb_telnet_handler(c, item) == oonf_telnet_execute(c, item.cmds[1])
_cb_file_handler(c, s) == [c EXCEPT !.sess[s].copy = 1]
\* Answers and errors alike are put together and sent.
_cb_receive_data(c, s) ==
  LET in == c.sess[s].in
      first == SelectInSeq(in, LAMBDA i : i # Part)
      item == in[first]
      run == CASE ~_parse_http_header(item, first > 1) \/ ~_get_site_handler(item) -> c
               [] item.req = "telnet" -> _cb_telnet_handler(c, item).c
               [] item.req = "file" -> _cb_file_handler(c, s)
               [] OTHER -> c
  IN IF first = 0 THEN Received(c, "active") ELSE Received(_create_http_header(run, s), "send_and_quit")
\* The user of a connection may close it, with its socket, in the callback.
_cb_tcp_receive_data(c, s) ==
  LET bye == \E i \in DOMAIN c.sess[s].in : c.sess[s].in[i].req = "bye"
      read == [c EXCEPT !.sess[s].in = <<>>]
  IN Received(IF bye THEN oonf_stream_remove(oonf_stream_close(read, s, TRUE), Client, FALSE)
              ELSE IF c.sess[s].in = <<>> THEN c ELSE Puts(read, s), "active")
receive_data(c, s) ==
  CASE c.sess[s].kind = ConsoleSocket -> _cb_telnet_receive_data(c, s)
    [] c.sess[s].kind = Web -> _cb_receive_data(c, s)
    [] OTHER -> _cb_tcp_receive_data(c, s)

Became(res, s) == [res EXCEPT !.c = [res.c EXCEPT !.sess[s].state = res.state]]
\* recv takes n pieces of what the peer sent.
Receive(c, s, n) ==
  LET se == c.sess[s]
      in == se.in \o SubSeq(se.inq, 1, n)
      taken == [c EXCEPT !.sess[s].in = in, !.sess[s].inq = SubSeq(@, n + 1, Len(@))]
      over == [Puts(taken, s) EXCEPT !.sess[s].state = "send_and_quit"]
      eof == [c EXCEPT !.sess[s].state = "send_and_quit", !.sess[s].rd = FALSE]
  IN IF se.broken THEN Received([c EXCEPT !.sess[s].state = "cleanup"], "cleanup")
     ELSE IF n > 0 THEN IF Len(in) > MaxIn THEN Received(over, "send_and_quit")
                        ELSE Received(oonf_stream_set_timeout(taken, s), "active")
     ELSE IF se.closed /\ se.inq = <<>> THEN Became(receive_data(eof, s), s)
     ELSE Received(c, "active")
\* more input, or the end of the stream, for a session that is active
Handled(read, s) ==
  IF read.hangs \/ read.c.sess[s].state # "active" \/ read.c.sess[s].in = <<>> THEN read
  ELSE Became(receive_data(read.c, s), s)
Consume(c, s, ev, n) ==
  Handled(IF ev.r /\ c.sess[s].state = "active" THEN Receive(c, s, n) ELSE Received(c, c.sess[s].state), s)
\* The kernel takes all of the output, a part of it or nothing.
Send(c, s, ev, k) ==
  IF c.sess[s].state = "cleanup" \/ c.out[s] = 0 THEN c
  ELSE IF ~ev.w THEN [c EXCEPT !.wr[s] = TRUE]
  ELSE IF c.sess[s].broken THEN [c EXCEPT !.sess[s].state = "cleanup"]
  ELSE IF k = "again" THEN c
  ELSE oonf_stream_set_timeout([c EXCEPT !.out[s] = IF k = "all" THEN 0 ELSE 1], s)
os_fd_sendfile(c, s, ev) ==
  IF c.sess[s].state = "send_and_quit" /\ c.out[s] = 0 /\ c.sess[s].copy > 0 /\ ev.w
  THEN IF c.sess[s].broken THEN [c EXCEPT !.sess[s].state = "cleanup"] ELSE [c EXCEPT !.sess[s].copy = @ - 1]
  ELSE c
Drained(c, s) ==
  IF c.out[s] > 0 \/ c.sess[s].copy > 0 THEN c
  ELSE [c EXCEPT !.wr[s] = FALSE, !.sess[s].state = IF @ = "send_and_quit" THEN "cleanup" ELSE @]
\* Before anything else a connection has to be established.
Connected(c, s, ev) ==
  IF ~c.sess[s].wait \/ ~ev.w THEN c
  ELSE IF c.sess[s].broken THEN [c EXCEPT !.sess[s].state = "cleanup"]
  ELSE [c EXCEPT !.sess[s].wait = FALSE]

Finish(c, s) ==
  LET k == c.sess[s].kind
      idle == [c EXCEPT !.sock[k].busy = FALSE]
      closed == IF idle.sess[s].state = "cleanup" \/ idle.sess[s].removed THEN _stream_close(idle, s) ELSE idle
  IN IF closed.sock[k].remove THEN oonf_stream_remove(closed, k, FALSE) ELSE closed
Output(data, s, ev, k) ==
  [data EXCEPT !.c = Finish(Drained(os_fd_sendfile(Send(data.c, s, ev, k), s, ev), s), s)]
_cb_parse_connection(c, s, ev, n, k) ==
  LET begun == Connected([c EXCEPT !.sock[c.sess[s].kind].busy = TRUE], s, ev)
  IN IF begun.sess[s].wait THEN Received([begun EXCEPT !.sock[c.sess[s].kind].busy = FALSE], "active")
     ELSE Output(Consume(begun, s, ev, n), s, ev, k)

-----------------------------------------------------------------------------
(* the scheduler *)

Alive(s) == con.sess[s].alive
OfTimer(id) == id[2]
\* Events of a descriptor the scheduler was asked to watch.
Readable(s) == Alive(s) /\ con.sess[s].rd /\ (con.sess[s].inq # <<>> \/ con.sess[s].closed \/ con.sess[s].broken)
Writable(s) == Alive(s) /\ con.wr[s]
Pending == {k \in Servers : con.sock[k].added /\ backlog[k] > 0} \cup {s \in Slots : Readable(s) \/ Writable(s)}
Event(e) == [e |-> e, r |-> IF e \in Slots THEN Readable(e) ELSE TRUE, w |-> IF e \in Slots THEN Writable(e) ELSE FALSE]
Idle == batch = <<>> /\ ~Due(con.T)

\* A timer whose session is gone reads memory that was freed.
oonf_timer_walk ==
  LET id == Head(con.T.tree).id
      s == OfTimer(id)
      fired == [con EXCEPT !.T = Fire(@)]
      called == IF id[1] = "timeout" THEN oonf_stream_close(fired, s, FALSE) ELSE _cb_telnet_repeat_timer(fired, s)
      freed == s = OnStack \/ ~Alive(s)
  IN /\ Running /\ batch = <<>> /\ Due(con.T)
     /\ fault' = IF freed THEN "freed" ELSE NONE
     /\ con' = IF freed THEN con ELSE [called EXCEPT !.T = Fired(@)]
     /\ UNCHANGED <<batch, survivors, sockBudget, environment>>
Tick ==
  /\ Running /\ Idle /\ con.T.tree # <<>>
  /\ con' = [con EXCEPT !.T = oonf_clock_update(@)]
  /\ UNCHANGED <<batch, survivors, fault, sockBudget, environment>>
\* The events of one round may come in any order.
os_fd_linux_event_wait ==
  /\ Running /\ Idle /\ ~con.commit /\ Pending # {}
  /\ \E order \in SetToSeqs(Pending) : batch' = [i \in DOMAIN order |-> Event(order[i])]
  /\ UNCHANGED <<con, survivors, fault, sockBudget, environment>>

Rest == batch' = Tail(batch)
_cb_parse_request ==
  /\ Running /\ batch # <<>> /\ Head(batch).e \in Servers
  /\ LET k == Head(batch).e
     IN /\ \E s \in {t \in Slots : ~Alive(t)} :
             /\ \A t \in Slots : t < s => Alive(t)
             /\ con' = _create_session(con, k, s, FALSE)
        /\ backlog' = [backlog EXCEPT ![k] = @ - 1]
  /\ Rest /\ UNCHANGED <<pkt, survivors, fault, sockBudget>>
SessionEvent ==
  /\ Running /\ batch # <<>> /\ Head(batch).e \in Slots
  /\ LET s == Head(batch).e
         ev == Head(batch)
     IN IF ~Alive(s) THEN fault' = "freed" /\ UNCHANGED con
        ELSE \E n \in 0..Len(con.sess[s].inq), sent \in {"all", "part", "again"} :
               LET res == _cb_parse_connection(con, s, ev, n, sent)
               IN /\ fault' = IF res.hangs THEN "hangs" ELSE NONE
                  /\ con' = IF res.hangs THEN con ELSE res.c
  /\ Rest /\ UNCHANGED <<survivors, sockBudget, environment>>

-----------------------------------------------------------------------------
(* configuration, peers and the kernel *)

\* A changed address closes the server and opens it again; open fails when
\* the address is in use, and is tried again later.
StreamApply(c, k, addr, allowed, fails) ==
  LET cfg == [c EXCEPT !.sock[k].allowed_sessions = allowed, !.retry = @ \ {k}]
      removed == oonf_stream_remove(cfg, k, TRUE)
  IN IF addr = c.sock[k].bound THEN cfg
     ELSE IF addr = NoAddress THEN removed
     ELSE IF fails THEN [removed EXCEPT !.retry = @ \cup {k}]
     ELSE oonf_stream_add(removed, k, addr)
Survived(c, k) == \E s \in Slots : c.sess[s].alive /\ c.sess[s].kind = k
StreamApplied(k, addr, allowed, fails) ==
  \E c \in {StreamApply(con, k, addr, allowed, fails)} :
    /\ con' = [c EXCEPT !.commit = FALSE]
    /\ survivors' = (survivors \/ (addr # con.sock[k].bound /\ Survived(c, k)))
\* The main loop leaves the scheduler to apply a committed configuration.
_cb_stream_config_changed(k, addr, allowed, fails) ==
  /\ Running /\ Idle /\ con.commit
  /\ IF fails THEN SockSpend("fail") ELSE UNCHANGED sockBudget
  /\ StreamApplied(k, addr, allowed, fails)
  /\ UNCHANGED <<batch, fault, environment>>
StreamListener(k, addr) ==
  /\ Running /\ Idle /\ k \in con.retry /\ addr \in Addresses
  /\ StreamApplied(k, addr, con.sock[k].allowed_sessions, FALSE)
  /\ UNCHANGED <<batch, fault, sockBudget, environment>>

ClientConnects(k) ==
  /\ Running /\ con.sock[k].added /\ SockSpend(IF k = ConsoleSocket THEN "console" ELSE "web")
  /\ backlog' = [backlog EXCEPT ![k] = @ + 1]
  /\ UNCHANGED <<con, pkt, batch, survivors, fault>>
Inputs(k) ==
  CASE k = ConsoleSocket -> {Part} \cup {Typed(<<<<NONE, x>>>>, FALSE) : x \in Commands}
                              \cup {Typed(<<<<"repeat", x>>>>, FALSE) : x \in {"echo", "log", "route", "quit"}}
                              \cup {Typed(<<<<NONE, "log">>, <<NONE, "echo">>>>, TRUE)}
    [] k = Web -> {Part} \cup {Request(r, <<NONE, "echo">>) : r \in Requests}
                            \cup {Request("telnet", <<p, x>>) : p \in {NONE, "repeat"}, x \in {"log", "route"}}
    [] OTHER -> {Request(r, Unknown) : r \in {"signal", "bye"}}
ClientSends(s) ==
  /\ Running /\ Alive(s) /\ ~con.sess[s].closed /\ ~con.sess[s].broken /\ SockSpend("send")
  /\ \E item \in Inputs(con.sess[s].kind) : con' = [con EXCEPT !.sess[s].inq = Append(@, item)]
  /\ UNCHANGED <<batch, survivors, fault, environment>>
ClientCloses(s, broken) ==
  /\ Running /\ Alive(s) /\ ~con.sess[s].closed /\ ~con.sess[s].broken /\ SockSpend("close")
  /\ con' = IF broken THEN [con EXCEPT !.sess[s].broken = TRUE] ELSE [con EXCEPT !.sess[s].closed = TRUE]
  /\ UNCHANGED <<batch, survivors, fault, environment>>

\* Every connection to a peer has a socket of its own.
oonf_stream_connect_to(s, wait) ==
  /\ Running /\ Idle /\ ~Survived(con, Client) /\ SockSpend("peer")
  /\ ~Alive(s) /\ \A t \in Slots : t < s => Alive(t)
  /\ con' = _create_session(oonf_stream_add([con EXCEPT !.sock[Client] = NoStream], Client, NoAddress), Client, s, wait)
  /\ UNCHANGED <<batch, survivors, fault, environment>>
dlep_router_remove_session(s) ==
  /\ Running /\ Idle /\ Alive(s) /\ con.sess[s].kind = Client /\ SockSpend("drop")
  /\ con' = oonf_stream_remove(oonf_stream_close(con, s, FALSE), Client, FALSE)
  /\ UNCHANGED <<batch, survivors, fault, environment>>
LogMessage(s) ==
  /\ Running /\ s \in con.logs /\ con.out[s] < MaxOut
  /\ con' = _cb_print_log(con, s)
  /\ UNCHANGED <<batch, survivors, fault, sockBudget, environment>>
NetlinkAnswers(s) ==
  /\ Running /\ s \in con.routes
  /\ con' = _cb_route_finished([con EXCEPT !.routes = @ \ {s}], s)
  /\ UNCHANGED <<batch, survivors, fault, sockBudget, environment>>

Fails == SUBSET {"socket", "multicast"}
FailsAllowed(fails) == IF fails = {} THEN UNCHANGED sockBudget ELSE SockSpend("fail")
PacketConfig(bindto, port, multicast, fails) ==
  /\ Running /\ Idle /\ sockBudget["config"] > 0
  /\ (fails # {}) => sockBudget["fail"] > 0
  /\ sockBudget' = [sockBudget EXCEPT !["config"] = @ - 1, !["fail"] = IF fails = {} THEN @ ELSE @ - 1]
  /\ pkt' = oonf_packet_apply_managed([pkt EXCEPT !.on = TRUE], [pkt.cfg EXCEPT !.bindto = bindto, !.port = port, !.multicast = multicast], fails)
  /\ UNCHANGED <<con, batch, backlog, survivors, fault>>
PacketRemove ==
  /\ Running /\ Idle /\ pkt.on /\ SockSpend("remove")
  /\ pkt' = oonf_packet_remove_managed(pkt)
  /\ UNCHANGED <<con, batch, backlog, survivors, fault>>
\* Listeners of the interface are called a while after the change.
InterfaceChanges(os_if) ==
  /\ Running /\ os_if # pkt.os_if /\ SockSpend("interface")
  /\ pkt' = [pkt EXCEPT !.os_if = os_if, !.pending = pkt.on]
  /\ UNCHANGED <<con, batch, backlog, survivors, fault>>
PacketListener(fails) ==
  /\ Running /\ Idle /\ pkt.on /\ pkt.pending /\ FailsAllowed(fails)
  /\ pkt' = _cb_interface_listener(pkt, fails)
  /\ UNCHANGED <<con, batch, backlog, survivors, fault>>
Answers == {"sent", "again", "refused", "badf"}
PacketSend(answer, fails) ==
  /\ Running /\ pkt.on /\ sockBudget["packet"] > 0
  /\ (fails # {}) => (answer = "badf" /\ sockBudget["fail"] > 0)
  /\ sockBudget' = [sockBudget EXCEPT !["packet"] = @ - 1, !["fail"] = IF fails = {} THEN @ ELSE @ - 1]
  /\ pkt' = [oonf_packet_send_managed(pkt, pkt.given + 1, answer, fails) EXCEPT !.given = @ + 1]
  /\ UNCHANGED <<con, batch, backlog, survivors, fault>>
PacketEvent(answer) ==
  /\ Running /\ pkt["socket"].write
  /\ pkt' = _cb_packet_event(pkt, answer)
  /\ UNCHANGED <<con, batch, backlog, survivors, fault, sockBudget>>

SockNext ==
  \/ oonf_timer_walk \/ Tick \/ os_fd_linux_event_wait \/ _cb_parse_request \/ SessionEvent
  \/ \E k \in Servers, addr \in Addresses \cup {NoAddress}, allowed \in {1, 2}, fails \in BOOLEAN :
       _cb_stream_config_changed(k, addr, allowed, fails)
  \/ \E k \in Servers, addr \in Addresses : StreamListener(k, addr)
  \/ \E k \in Servers : ClientConnects(k)
  \/ \E s \in Slots : ClientSends(s)
  \/ \E s \in Slots, broken \in BOOLEAN : ClientCloses(s, broken)
  \/ \E s \in Slots, wait \in BOOLEAN : oonf_stream_connect_to(s, wait)
  \/ \E s \in Slots : dlep_router_remove_session(s)
  \/ \E s \in Slots : LogMessage(s)
  \/ \E s \in Slots : NetlinkAnswers(s)
  \/ \E bindto \in SUBSET Addresses, port \in {1, 2}, multicast \in BOOLEAN, fails \in Fails : PacketConfig(bindto, port, multicast, fails)
  \/ PacketRemove
  \/ \E up \in BOOLEAN, index \in {1, 2}, addrs \in SUBSET Addresses :
       InterfaceChanges([up |-> up, index |-> index, linklocal |-> IF 1 \in addrs THEN 1 ELSE NoAddress, addrs |-> addrs])
  \/ \E fails \in Fails : PacketListener(fails)
  \/ \E answer \in Answers, fails \in Fails : PacketSend(answer, fails)
  \/ \E answer \in {"sent", "again", "refused"} : PacketEvent(answer)

-----------------------------------------------------------------------------
(* properties *)

\* Nothing refers to a session that was freed: no timer, no log handler, no
\* request to the kernel and no event that is still to be handled
\* (_stream_close, _cb_telnet_cleanup).  The one way around it is a repeated
\* command that replaces the stop handler of the repetition, which then can
\* no longer be stopped.
Referred == {OfTimer(con.T.tree[i].id) : i \in DOMAIN con.T.tree} \cup con.logs \cup con.routes
            \cup {s \in Slots : \E i \in DOMAIN batch : batch[i].e = s} \cup {s \in Slots : con.d[s].rc}
NothingDangling == ~con.stacked => (\A s \in Referred : s # OnStack /\ Alive(s)) /\ fault # "freed"

\* Output never waits for nothing: as long as there is some, or a file to
\* send, the scheduler is asked to tell when the socket can be written,
\* whoever added the output (oonf_stream_flush, oonf_telnet_flush_session).
OutputMoves == \A s \in Slots : Alive(s) /\ con.sess[s].state # "cleanup" /\ (con.out[s] > 0 \/ con.sess[s].copy > 0) => con.wr[s]

\* Closing a server finds every session of it (oonf_stream_remove walks the
\* list), and the list never leads to a freed one, as long as no session has
\* outlived the server it belongs to.
SessionsListed ==
  ~survivors => \A k \in Kinds : Walked(con, k) = {s \in Slots : Alive(s) /\ con.sess[s].kind = k}

\* session_counter is the "number of currently active sessions"
\* (oonf_stream_socket.h:266): those that were let in, and not those that only
\* get an error and are turned away (_create_session, _stream_close).
CounterExact ==
  \A k \in Servers : con.sock[k].session_counter =
    Cardinality({s \in Slots : Alive(s) /\ con.sess[s].kind = k /\ con.sess[s].counted})

\* Every session ends at last: its timeout runs, whatever was sent, received
\* or executed, unless the user of the console switched it off.
TimeoutRuns == \A s \in Slots : Alive(s) /\ con.d[s].timeout_value # 0 => Active(con.T, TimeoutTimer(s))

\* Datagrams leave in the order they were given, none twice, and one is only
\* missing when the kernel refused it or the socket was closed
\* (oonf_packet_send, _cb_packet_event).
DatagramsInOrder ==
  LET queue == pkt.sent \o pkt["socket"].out
  IN /\ \A i, j \in DOMAIN queue : i < j => queue[i] < queue[j]
     /\ 1..pkt.given = ToSet(queue) \cup pkt.lost

\* When no change of the interface waits for its listener, the sockets are
\* open exactly if the interface is up and has an address that may be used,
\* and are bound to what the configuration and the interface say.  Only IPv6
\* sockets are known to be on the device the interface has now.
Expected(k) == IF k = "socket" THEN BindTo(pkt) ELSE IF BindTo(pkt) # NoAddress /\ pkt.cfg.multicast THEN Multicast ELSE NoAddress
Settled == pkt.on /\ ~pkt.pending /\ ~pkt.unretried
PairKeys == {"socket", "multicast"}
SocketsBound ==
  Settled => \A k \in PairKeys :
    /\ pkt[k].local.addr = Expected(k) /\ pkt[k].added = (Expected(k) # NoAddress)
    /\ pkt[k].added => pkt[k].local.port = IF k = "socket" THEN pkt.cfg.port ELSE mc_port(pkt)
    /\ pkt[k].added /\ pkt.af = "v6" => pkt[k].device = pkt.os_if.index
=============================================================================
