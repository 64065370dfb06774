--------------------------- MODULE DispatchSession ---------------------------
(***************************************************************************)
(* The session lifecycle of lorie_client (src/app/src/main/cpp/lorie/      *)
(* lorie-client.cpp) and the two threads that share it.                    *)
(*                                                                         *)
(* The platform (JNI) thread runs the Java_com_termux_x11_MainActivity_*   *)
(* entry points: most of them post a closure to the looper, some of them   *)
(* first read client.c.conn to decide whether to post, and onPointerMotion *)
(* uses the connection directly on the platform thread.  The dispatch      *)
(* thread (runner_thread) runs the looper: posted closures in FIFO order,  *)
(* delayed closures (the 200 ms keycode reset of send_keysym) and the      *)
(* callback of the X connection's fd (hang-up teardown or                  *)
(* connection_poll_func).                                                  *)
(*                                                                         *)
(* A connection is a model value: one per socket the platform hands over.  *)
(* sock[c] is the state of that socket as seen from this process.          *)
(* Requests are abstracted to the connection they are issued on: reqOn is  *)
(* the connection the last step issued a request on (NoConn when it        *)
(* dereferenced a null connection, NoReq when it issued none).             *)
(***************************************************************************)
EXTENDS Naturals, Sequences, FiniteSets

CONSTANTS
    Conns,       \* the sockets the platform may hand over, one per connect call
    NoConn,      \* c.conn == nullptr, and old_fd == -1
    NoReq,       \* the step issued no X request
    MaxQueue,    \* bound on the looper's queue of posted closures
    MaxResets    \* bound on pending delayed keycode resets

ASSUME /\ NoConn \notin Conns
       /\ NoReq \notin Conns \cup {NoConn}
       /\ MaxQueue \in Nat \ {0}
       /\ MaxResets \in Nat

VARIABLES
    conn,     \* xcb_connection::conn
    sock,     \* [Conns -> SockState]
    polled,   \* the connections whose fd is registered with the looper
    old_fd,   \* the static old_fd of adopt_connection_fd (as its connection)
    queue,    \* the looper's FIFO of posted closures
    resets,   \* number of delayed keycode-reset closures not yet run
    shown,    \* the connected state last reported to the platform
    ui,       \* the connection onPointerMotion's screen pointer belongs to
    motion,   \* the next step of a running onPointerMotion
    reqOn,    \* where the last step issued a request
    hscroll,  \* client.horizontal_scroll_enabled
    scroll,   \* send calls the running onPointerScroll has still to make
    jni,      \* init_jni's closure has run: the Java method ids are set
    held      \* the servers on which a scroll's Shift press has been
              \* faked (XTEST) and not yet released

vars == <<conn, sock, polled, old_fd, queue, resets, shown, ui, motion, reqOn,
          hscroll, scroll, jni, held>>

SockState == {"unused", "open", "hup", "closed"}

AdoptTask(c) == [kind |-> "adopt", fd |-> c]
\* send_key, send_button (one request each), the send_key calls of
\* KEY_LEFTSHIFT that bracket a horizontal scroll, and send_keysym (may
\* remap a scratch keycode and post its delayed reset)
ShiftKinds == {"shift_press", "shift_release"}
InputKinds == {"input", "keysym"} \cup ShiftKinds
Task == {AdoptTask(c) : c \in Conns}
          \cup {[kind |-> k] : k \in InputKinds \cup {"surface", "jni"}}

\* onPointerMotion runs in four steps on the platform thread, each of
\* which reads client.c.conn afresh: the test at 611, xcb_get_setup at 613,
\* xcb_test_fake_input at 618 and xcb_flush at 619.  ui is the connection
\* whose setup the screen pointer s points into, motion the next step.
MotionSteps == {"idle", "setup", "fake", "flush"}

\* onPointerScroll's axis argument: 1 is the horizontal axis.
Axes == {0, 1}

TypeOK ==
    /\ conn \in Conns \cup {NoConn}
    /\ sock \in [Conns -> SockState]
    /\ polled \subseteq Conns
    /\ old_fd \in Conns \cup {NoConn}
    /\ queue \in Seq(Task) /\ Len(queue) <= MaxQueue
    /\ resets \in 0..MaxResets
    /\ shown \in BOOLEAN
    /\ ui \in Conns \cup {NoConn}
    /\ motion \in MotionSteps
    /\ reqOn \in Conns \cup {NoConn, NoReq}
    /\ hscroll \in BOOLEAN
    /\ scroll \in Seq({"input"} \cup ShiftKinds) /\ Len(scroll) <= 4
    /\ jni \in BOOLEAN
    /\ held \subseteq Conns

\* Java_..._init, called when the activity is created, posts init_jni: the
\* model starts with that closure queued.
InitJniQueue == <<[kind |-> "jni"]>>

Init ==
    /\ conn = NoConn
    /\ sock = [c \in Conns |-> "unused"]
    /\ polled = {}
    /\ old_fd = NoConn
    /\ queue = InitJniQueue
    /\ resets = 0
    /\ shown = FALSE
    /\ ui = NoConn
    /\ motion = "idle"
    /\ reqOn = NoReq
    /\ hscroll = FALSE
    /\ scroll = <<>>
    /\ jni = FALSE
    /\ held = {}

\* The request a step issues through c.conn: a null connection is recorded
\* as such, it is what the code would dereference.
IssueOnConn == reqOn' = conn

Post(t) ==
    /\ Len(queue) < MaxQueue
    /\ queue' = Append(queue, t)

-----------------------------------------------------------------------------
(* Platform thread                                                         *)

\* Java_..._connect: the platform hands over a connected socket and posts
\* adopt_connection_fd.
connect(c) ==
    /\ sock[c] = "unused"
    /\ Post(AdoptTask(c))
    /\ sock' = [sock EXCEPT ![c] = "open"]
    /\ reqOn' = NoReq
    /\ UNCHANGED <<conn, polled, old_fd, resets, shown, ui, motion,
                   hscroll, scroll, jni, held>>

\* lorie_client::send_key / send_button / send_keysym: c.conn is read on the
\* calling thread, and the closure is posted only if it is not null.
Send(k) == IF conn # NoConn THEN Post([kind |-> k]) ELSE UNCHANGED queue

\* A JNI entry point that makes one send call, on a connection.
SendOne(k) ==
    /\ conn # NoConn
    /\ Send(k)
    /\ reqOn' = NoReq
    /\ UNCHANGED <<conn, sock, polled, old_fd, resets, shown, ui, motion,
                   hscroll, scroll, jni, held>>

\* Java_..._onPointerButton: send_button.
onPointerButton == SendOne("input")

\* Java_..._onKey: send_key of the translated keycode.
onKey == SendOne("input")

\* Java_..._onKeySym: send_keysym of the unicode keysym, or of the mapped
\* keysym of the keycode; a keycode with no keysym returns without a send
\* (a stuttering step).
onKeySym == SendOne("keysym")

\* The send calls of onPointerScroll, in order: the press and release
\* send_button calls, bracketed by send_key(KEY_LEFTSHIFT) press and release
\* when the axis is horizontal.
ScrollCalls(axis) ==
    IF axis = 1 THEN <<"shift_press", "input", "input", "shift_release">>
                ELSE <<"input", "input">>

\* Java_..._onPointerScroll: a horizontal scroll returns at once unless
\* horizontal scrolling is enabled.  Otherwise, if c.conn is set, it makes
\* the calls of ScrollCalls, each of which re-reads c.conn.
onPointerScroll(axis) ==
    /\ scroll = <<>>
    /\ axis = 1 => hscroll
    /\ conn # NoConn
    /\ scroll' = ScrollCalls(axis)
    /\ reqOn' = NoReq
    /\ UNCHANGED <<conn, sock, polled, old_fd, queue, resets, shown, ui, motion,
                   hscroll, jni, held>>

\* The next send call of the running onPointerScroll.
scroll_send ==
    /\ scroll # <<>>
    /\ Send(Head(scroll))
    /\ scroll' = Tail(scroll)
    /\ reqOn' = NoReq
    /\ UNCHANGED <<conn, sock, polled, old_fd, resets, shown, ui, motion,
                   hscroll, jni, held>>

\* Java_..._setHorizontalScrollEnabled.
setHorizontalScrollEnabled(b) ==
    /\ hscroll' = b
    /\ reqOn' = NoReq
    /\ UNCHANGED <<conn, sock, polled, old_fd, queue, resets, shown, ui, motion,
                   scroll, jni, held>>

\* Java_..._windowChanged: always posts surface_changed.
window_changed ==
    /\ Post([kind |-> "surface"])
    /\ reqOn' = NoReq
    /\ UNCHANGED <<conn, sock, polled, old_fd, resets, shown, ui, motion,
                   hscroll, scroll, jni, held>>

\* The `if (client.c.conn)` test: the rest runs only on a connection.
motion_check ==
    /\ motion = "idle"
    /\ conn # NoConn
    /\ ui' = conn
    /\ motion' = "setup"
    /\ reqOn' = NoReq
    /\ UNCHANGED <<conn, sock, polled, old_fd, queue, resets, shown,
                   hscroll, scroll, jni, held>>

\* xcb_setup_roots_iterator(xcb_get_setup(client.c.conn)): nothing between
\* the test and this load is a call, so the compiler may reuse the value it
\* tested or load c.conn again (an unsynchronised read); s then points into
\* the setup of that connection.
motion_setup ==
    /\ motion = "setup"
    /\ \E x \in {ui, conn} :
          /\ reqOn' = x
          /\ ui' = x
    /\ motion' = "fake"
    /\ UNCHANGED <<conn, sock, polled, old_fd, queue, resets, shown,
                   hscroll, scroll, jni, held>>

\* The scaling reads s->width_in_pixels and s->height_in_pixels, and
\* xcb_test_fake_input reads s->root and loads client.c.conn again: the step
\* uses the connection of s and the current one (reqOn records either).
motion_fake ==
    /\ motion = "fake"
    /\ \E x \in {ui, conn} : reqOn' = x
    /\ motion' = "flush"
    /\ UNCHANGED <<conn, sock, polled, old_fd, queue, resets, shown, ui,
                   hscroll, scroll, jni, held>>

\* xcb_flush(client.c.conn), on the connection as it is now.
motion_flush ==
    /\ motion = "flush"
    /\ IssueOnConn
    /\ motion' = "idle"
    /\ ui' = NoConn
    /\ UNCHANGED <<conn, sock, polled, old_fd, queue, resets, shown,
                   hscroll, scroll, jni, held>>

-----------------------------------------------------------------------------
(* Dispatch thread                                                         *)

HeadIs(t) == queue # <<>> /\ Head(queue) = t

\* The closure of init_jni: attaches the dispatch thread to the VM and looks
\* up the Java methods the client calls back.
run_init_jni ==
    /\ HeadIs([kind |-> "jni"])
    /\ queue' = Tail(queue)
    /\ jni' = TRUE
    /\ reqOn' = NoReq
    /\ UNCHANGED <<conn, sock, polled, old_fd, resets, shown, ui, motion,
                   hscroll, scroll, held>>

\* client_connected_state_changed(b): returns without a call while the
\* method id is null, else tells the platform b.
Report(b) == IF jni THEN b ELSE shown

\* Mutation of ShownAfterRetire: client_connected_state_changed(false) left out.
ShownAfterRetireSilent == shown

\* The prologue of adopt_connection_fd: a previous fd is removed from the
\* looper and the platform is told the client is disconnected.
PolledAfterRetire == IF old_fd # NoConn THEN polled \ {old_fd} ELSE polled
ShownAfterRetire == IF old_fd # NoConn THEN Report(FALSE) ELSE shown

\* Mutation of SockAfterReplace: the old connection is not disconnected.
SockAfterReplaceKeepsOld == sock

\* xcb_connection::init: the old connection is disconnected once the new
\* one is connected.
SockAfterReplace ==
    [x \in Conns |-> IF x = conn THEN "closed" ELSE sock[x]]

\* adopt_connection_fd, xcb_connect_to_fd reports an error: libxcb has
\* closed the socket, and init throws before it replaces conn; the
\* exception is caught and logged.
adopt_connect_error(c) ==
    /\ HeadIs(AdoptTask(c))
    /\ queue' = Tail(queue)
    /\ polled' = PolledAfterRetire
    /\ shown' = ShownAfterRetire
    /\ sock' = [sock EXCEPT ![c] = "closed"]
    /\ reqOn' = NoReq
    /\ UNCHANGED <<conn, old_fd, resets, ui, motion,
                   hscroll, scroll, jni, held>>

\* adopt_connection_fd, the connection is made but a later step throws: an
\* extension query of init, an event selection, the damage or Xi setup, or
\* attach_region.  conn is already the new connection; it is not added to
\* the looper and old_fd keeps its value.
adopt_handshake_error(c) ==
    /\ HeadIs(AdoptTask(c))
    /\ queue' = Tail(queue)
    /\ polled' = PolledAfterRetire
    /\ shown' = ShownAfterRetire
    /\ sock' = SockAfterReplace
    /\ conn' = c
    /\ reqOn' = c
    /\ UNCHANGED <<old_fd, resets, ui, motion,
                   hscroll, scroll, jni, held>>

\* adopt_connection_fd runs to the end: fd added to the looper, old_fd set,
\* the platform told the client is connected.
adopt_ok(c) ==
    /\ HeadIs(AdoptTask(c))
    /\ sock[c] = "open"
    /\ queue' = Tail(queue)
    /\ polled' = PolledAfterRetire \cup {c}
    /\ shown' = Report(TRUE)
    /\ sock' = SockAfterReplace
    /\ conn' = c
    /\ old_fd' = c
    /\ reqOn' = c
    /\ UNCHANGED <<resets, ui, motion,
                   hscroll, scroll, jni, held>>

\* Mutation of connection_hup: looper.remove_fd(old_fd) left out.
connection_hup_keeps_fd(c) ==
    /\ c \in polled
    /\ sock[c] = "hup"
    /\ old_fd' = NoConn
    /\ sock' = IF conn # NoConn THEN [sock EXCEPT ![conn] = "closed"] ELSE sock
    /\ conn' = NoConn
    /\ shown' = Report(FALSE)
    /\ reqOn' = NoReq
    /\ UNCHANGED <<polled, queue, resets, ui, motion,
                   hscroll, scroll, jni, held>>

\* The fd callback of adopt_connection_fd on EPOLLHUP/ERR/NVAL: it removes
\* old_fd (not the fd that fired), disconnects c.conn and reports the
\* disconnection.
connection_hup(c) ==
    /\ c \in polled
    /\ sock[c] = "hup"
    /\ polled' = polled \ {old_fd}
    /\ old_fd' = NoConn
    /\ sock' = IF conn # NoConn THEN [sock EXCEPT ![conn] = "closed"] ELSE sock
    /\ conn' = NoConn
    /\ shown' = Report(FALSE)
    /\ reqOn' = NoReq
    /\ UNCHANGED <<queue, resets, ui, motion,
                   hscroll, scroll, jni, held>>

\* The fd callback otherwise: connection_poll_func reads and handles the
\* events of c.conn.
connection_poll(c) ==
    /\ c \in polled
    /\ sock[c] = "open"
    /\ IssueOnConn
    /\ UNCHANGED <<conn, sock, polled, old_fd, queue, resets, shown, ui, motion,
                   hscroll, scroll, jni, held>>

\* The closures of send_key and send_button: c.xkb.send_key/send_button use
\* self.conn without a check, and the server applies the faked Shift press
\* or release of a scroll to its keyboard state.
run_input(k) ==
    /\ HeadIs([kind |-> k])
    /\ queue' = Tail(queue)
    /\ IssueOnConn
    /\ held' = CASE conn = NoConn      -> held
                  [] k = "shift_press"   -> held \cup {conn}
                  [] k = "shift_release" -> held \ {conn}
                  [] OTHER               -> held
    /\ UNCHANGED <<conn, sock, polled, old_fd, resets, shown, ui, motion,
                   hscroll, scroll, jni>>

\* The closure of send_keysym: a keysym found in `codes` is sent as is; one
\* that is not remaps a scratch keycode and posts its reset 200 ms later.
run_keysym ==
    /\ HeadIs([kind |-> "keysym"])
    /\ queue' = Tail(queue)
    /\ IssueOnConn
    /\ \/ UNCHANGED resets
       \/ /\ resets < MaxResets
          /\ resets' = resets + 1
    /\ UNCHANGED <<conn, sock, polled, old_fd, shown, ui, motion,
                   hscroll, scroll, jni, held>>

\* The delayed closure of send_keysym: xcb_change_keyboard_mapping on
\* self.conn, with no check.
run_reset ==
    /\ resets > 0
    /\ resets' = resets - 1
    /\ IssueOnConn
    /\ UNCHANGED <<conn, sock, polled, old_fd, queue, shown, ui, motion,
                   hscroll, scroll, jni, held>>

\* surface_changed: update_resolution and refresh_screen both check
\* self.conn / c.conn first.
run_surface ==
    /\ HeadIs([kind |-> "surface"])
    /\ queue' = Tail(queue)
    /\ reqOn' = IF conn # NoConn THEN conn ELSE NoReq
    /\ UNCHANGED <<conn, sock, polled, old_fd, resets, shown, ui, motion,
                   hscroll, scroll, jni, held>>

-----------------------------------------------------------------------------
(* Environment: the X server goes away.                                    *)

server_hangup(c) ==
    /\ sock[c] = "open"
    /\ sock' = [sock EXCEPT ![c] = "hup"]
    /\ reqOn' = NoReq
    /\ UNCHANGED <<conn, polled, old_fd, queue, resets, shown, ui, motion,
                   hscroll, scroll, jni, held>>

-----------------------------------------------------------------------------

PlatformStep ==
    \/ \E c \in Conns : connect(c)
    \/ onPointerButton
    \/ onKey
    \/ onKeySym
    \/ \E axis \in Axes : onPointerScroll(axis)
    \/ scroll_send
    \/ \E b \in BOOLEAN : setHorizontalScrollEnabled(b)
    \/ window_changed
    \/ motion_check
    \/ motion_setup
    \/ motion_fake
    \/ motion_flush

\* The closures posted to the looper, run in FIFO order.
RunQueued ==
    \/ \E c \in Conns :
          \/ adopt_connect_error(c)
          \/ adopt_handshake_error(c)
          \/ adopt_ok(c)
    \/ run_init_jni
    \/ \E k \in {"input"} \cup ShiftKinds : run_input(k)
    \/ run_keysym
    \/ run_surface

DispatchStep ==
    \/ RunQueued
    \/ run_reset
    \/ \E c \in Conns : connection_hup(c) \/ connection_poll(c)

Next ==
    \/ PlatformStep
    \/ DispatchStep
    \/ \E c \in Conns : server_hangup(c)

\* The dispatch thread loops on looper.dispatch for as long as the client
\* lives, and each dispatch serves the ready fds, the posted closures and the
\* expired timers: each kind of work that stays possible is eventually done.
Fairness ==
    /\ WF_vars(RunQueued)
    /\ WF_vars(run_reset)
    /\ \A c \in Conns : WF_vars(connection_hup(c))

Spec == Init /\ [][Next]_vars /\ Fairness

-----------------------------------------------------------------------------
(* Properties                                                              *)

\* The looper watches no fd but the current connection's, and that one is
\* old_fd: adopt_connection_fd and the hang-up callback both remove old_fd,
\* so a stale old_fd left by a failed reconnect must never name a watched
\* connection.
PolledIsCurrent == \A p \in polled : p = conn /\ p = old_fd

\* What the platform was last told (client_connected_state_changed) is true:
\* it shows "connected" exactly when the current connection is watched by
\* the looper, across reconnects, failed handshakes and hang-ups.
ConnectedStateAccurate == shown <=> conn \in polled

\* No request is issued on a connection that is not alive in this process:
\* neither through a null c.conn (a closure posted while connected that runs
\* after the hang-up teardown, or the delayed keycode reset; the spec says such
\* a task must be a no-op) nor through a connection xcb_disconnect has freed
\* (onPointerMotion's direct use of the connection it read on the platform
\* thread).
NoRequestOnDeadConnection ==
    /\ reqOn # NoConn
    /\ reqOn \in Conns => sock[reqOn] # "closed"

\* The client never loses hold of a live X connection: every socket the
\* platform handed over that is still open (or hung up but not yet closed)
\* is either c.conn or still waiting in the queue for its
\* adopt_connection_fd.  Across successful, failed and half-failed
\* adopts, hang-ups and reconnects, no connection is left open that nothing
\* will ever read, write or disconnect.
NoOrphanedConnection ==
    \A c \in Conns :
        sock[c] \in {"open", "hup"} =>
            \/ c = conn
            \/ \E i \in 1..Len(queue) : queue[i] = AdoptTask(c)

\* A scroll never leaves Shift held on a live server: once a scroll's Shift
\* press has reached a server that is still open, its release is still to
\* come, either as a send call the running onPointerScroll has yet to make
\* or as a closure in the looper's queue.  Each send re-reads c.conn on the
\* platform thread and each closure uses c.conn on the dispatch thread, so
\* this must survive reconnects and hang-ups between the four calls.
ShiftReleased ==
    \A s \in held :
        sock[s] = "open" =>
            \/ \E i \in 1..Len(scroll) : scroll[i] = "shift_release"
            \/ \E i \in 1..Len(queue) : queue[i].kind = "shift_release"

=============================================================================
