-------------------------- MODULE SharedFramebuffer --------------------------
(***************************************************************************)
(* The shared framebuffer of lorie_client (lorie-client.cpp): attach_region *)
(* run by adopt_connection_fd for every new session, refresh_screen, and    *)
(* the `shm` member of xcb_connection.  The resources are the process's    *)
(* descriptor numbers and mapping addresses, both handed out lowest free   *)
(* first and shared with the rest of the process ("other": the Java side,  *)
(* the renderer) and with libxcb, which owns the X socket (closed by       *)
(* xcb_disconnect) and closes a descriptor passed to xcb_shm_attach_fd     *)
(* once it has queued it.                                                  *)
(*                                                                         *)
(* The server decides which path attach_region takes: it accepts the      *)
(* client's memfd ("fdpass"), or it refuses it and offers a segment of its *)
(* own on tmpfs ("segment_tmpfs") or elsewhere ("segment_other"), or it    *)
(* refuses both ("none").  handle_error throws only on an X error reply;   *)
(* on a connection in error every request returns as if it succeeded.     *)
(* Every handler runs on the dispatch thread, so each is one step.         *)
(***************************************************************************)
EXTENDS Integers, FiniteSets

CONSTANTS
    FdNums,       \* descriptor numbers above stdio
    Addrs,        \* mapping addresses
    ServerKinds,  \* subset of {"fdpass", "segment_tmpfs", "segment_other", "none"}
    MaxSessions,  \* bound on the sockets the platform hands over
    MaxOther,     \* bound on descriptors (and on mappings) the rest of the process holds
    Null,         \* shmaddr == nullptr
    MapFailed,    \* shmaddr == MAP_FAILED
    None          \* no socket

ASSUME /\ FdNums \subseteq Nat /\ 0 \notin FdNums /\ Addrs \subseteq Nat
       /\ ServerKinds \subseteq {"fdpass", "segment_tmpfs", "segment_other", "none"}

\* What a descriptor or an address belongs to: the socket of c.conn, a
\* socket handed over by MainActivity.connect and not yet adopted, the
\* client's shared memory, or the rest of the process.
Owners == {"free", "sock", "newsock", "shm", "other"}

VARIABLES
    fds,      \* [FdNums -> Owners]
    maps,     \* [Addrs -> {"free", "shm", "other"}]
    shmfd,    \* screen.shmfd: 0 (zero-initialised), -1, or a number
    shmaddr,  \* screen.shmaddr
    seg,      \* the server has screen.shmseg attached
    live,     \* c.conn has no connection error
    sockfd,   \* the socket c.conn was made from, or None when c.conn is null
    pending,  \* the socket of a posted adopt_connection_fd, or None
    watched,  \* the looper polls c.conn's socket
    sessions, \* sockets handed over so far
    bad,      \* <<call, owner>> of every close/munmap the client made of a
              \* resource it did not own at that moment
    blit      \* what the last blit_exact of refresh_screen read

vars == <<fds, maps, shmfd, shmaddr, seg, live, sockfd, pending, watched,
          sessions, bad, blit>>

-----------------------------------------------------------------------------
(* System calls on a record st: fds, maps, shmfd, shmaddr, seg, live,      *)
(* sock (c.conn's socket), bad and threw.                                  *)

Free(f) == {x \in DOMAIN f : f[x] = "free"}

Lowest(S) == CHOOSE x \in S : \A y \in S : x <= y

\* close(n) by code that believes n is `expect`: EBADF when n is not
\* open; otherwise the descriptor goes, whoever it belonged to.
Close(st, n, expect) ==
    IF n \notin FdNums \/ st.fds[n] = "free" THEN st
    ELSE [st EXCEPT !.fds[n] = "free",
                    !.bad = IF st.fds[n] = expect THEN @
                            ELSE @ \cup {<<"close", st.fds[n]>>}]

\* munmap(a) by the client: EINVAL for MAP_FAILED, nothing for pages not
\* mapped; otherwise the pages go, whoever mapped them.
Unmap(st, a) ==
    IF a \notin Addrs \/ st.maps[a] = "free" THEN st
    ELSE [st EXCEPT !.maps[a] = "free",
                    !.bad = IF st.maps[a] = "shm" THEN @
                            ELSE @ \cup {<<"munmap", st.maps[a]>>}]

\* A descriptor for the client's memory into screen.shmfd; -1 (EMFILE)
\* when no number is free.
OpenShm(st) ==
    IF Free(st.fds) = {} THEN [st EXCEPT !.shmfd = -1]
    ELSE LET n == Lowest(Free(st.fds))
         IN [st EXCEPT !.fds[n] = "shm", !.shmfd = n]

\* mmap of screen.shmfd into screen.shmaddr: MAP_FAILED when it fails.
Map(st, ok) ==
    IF ~ok \/ Free(st.maps) = {} THEN [st EXCEPT !.shmaddr = MapFailed]
    ELSE LET a == Lowest(Free(st.maps))
         IN [st EXCEPT !.maps[a] = "shm", !.shmaddr = a]

\* A request gets a reply (and may get an error) only on a usable socket.
SockAlive(st) == st.live /\ st.sock # None /\ st.fds[st.sock] = "sock"

-----------------------------------------------------------------------------
(* attach_region, statement by statement.  anonOk: os_create_anonymous_file *)
(* gets memfd or ashmem; mapOk1, mapOk2: the two mmap calls succeed.       *)

\* Mutation of Release: the previous mapping is not unmapped.
ReleaseKeepsMapping(st) ==
    IF st.shmfd # 0 THEN Close(st, st.shmfd, "shm") ELSE st

\* The release of the previous session's mapping and descriptor.
Release(st) ==
    LET s1 == IF st.shmaddr # Null THEN Unmap(st, st.shmaddr) ELSE st
    IN IF st.shmfd # 0 THEN Close(s1, st.shmfd, "shm") ELSE s1

\* os_create_anonymous_file, then mmap when it returned a descriptor;
\* shmaddr keeps its old value when it did not.
CreateLocal(st, anonOk, mapOk1) ==
    IF anonOk THEN LET s == OpenShm(st)
                   IN IF s.shmfd = -1 THEN s ELSE Map(s, mapOk1)
    ELSE [st EXCEPT !.shmfd = -1]

\* shm.attach_fd: libxcb closes the descriptor once queued (or at once on
\* a connection in error); queueing -1 puts the connection in error.  The
\* server attaches the segment if it can use the client's memory and
\* answers with an error otherwise, which handle_error throws.
AttachFd(st, k) ==
    LET alive == SockAlive(st)
        sent == IF st.shmfd \in FdNums
                THEN [st EXCEPT !.fds[st.shmfd] = "free"] ELSE st
    IN [sent EXCEPT !.live  = @ /\ st.shmfd # -1,
                    !.seg   = alive /\ st.shmfd # -1 /\ k = "fdpass",
                    !.threw = alive /\ st.shmfd # -1 /\ k # "fdpass"]

\* The catch block: unmap and close, without resetting either field.
CatchAttach(st) ==
    LET s1 == IF st.shmaddr # Null /\ st.shmaddr # MapFailed
              THEN Unmap(st, st.shmaddr) ELSE st
    IN IF st.shmfd # -1 THEN Close(s1, st.shmfd, "shm") ELSE s1

\* shm.create_segment on a server that grants it: the reply carries the
\* segment's descriptor, which arrives as a new descriptor of this process.
ServerSegmentFd(st) == [OpenShm(st) EXCEPT !.seg = TRUE, !.threw = FALSE]

\* shm.create_segment and what follows: an error reply throws out of
\* attach_region; the received descriptor is mapped when its file is on
\* tmpfs, closed (shmfd = -1) otherwise.
CreateSegment(st, k, mapOk2) ==
    IF k \notin {"segment_tmpfs", "segment_other"} THEN st
    ELSE LET s == ServerSegmentFd(st)
         IN IF k = "segment_tmpfs" THEN Map(s, mapOk2)
            ELSE [Close(s, s.shmfd, "shm") EXCEPT !.shmfd = -1]

\* The whole of attach_region; `threw` is TRUE when it exits by throwing.
AttachRegion(st, k, anonOk, mapOk1, mapOk2) ==
    LET s == AttachFd(CreateLocal(Release(st), anonOk, mapOk1), k)
    IN IF s.threw THEN CreateSegment(CatchAttach(s), k, mapOk2) ELSE s

\* shm.get: an error reply to shm_get_image throws from handle_error.
ShmGetFails(st) == SockAlive(st) /\ ~st.seg

\* refresh_screen with a window and not paused: shm.get throws on an error
\* reply (no segment attached) and nothing is drawn; otherwise blit_exact
\* reads shmaddr, a null one being drawn as black.
Blit(st) ==
    IF ShmGetFails(st) THEN blit
    ELSE CASE st.shmaddr = Null -> "blank"
           [] st.shmaddr \in Addrs /\ st.maps[st.shmaddr] = "shm" -> "live"
           [] OTHER -> "dangling"

-----------------------------------------------------------------------------

Current == [fds |-> fds, maps |-> maps, shmfd |-> shmfd, shmaddr |-> shmaddr,
            seg |-> seg, live |-> live, sock |-> sockfd, bad |-> bad,
            threw |-> FALSE]

Store(st) ==
    /\ fds' = st.fds /\ maps' = st.maps /\ shmfd' = st.shmfd
    /\ shmaddr' = st.shmaddr /\ seg' = st.seg /\ live' = st.live
    /\ bad' = st.bad

Init ==
    /\ fds = [n \in FdNums |-> "free"]
    /\ maps = [a \in Addrs |-> "free"]
    /\ shmfd = 0 /\ shmaddr = Null
    /\ seg = FALSE /\ live = FALSE
    /\ sockfd = None /\ pending = None /\ watched = FALSE
    /\ sessions = 0 /\ bad = {} /\ blit = None

\* MainActivity.connect: the Java side holds a new socket to the server and
\* posts adopt_connection_fd with it.
connect ==
    /\ pending = None /\ sessions < MaxSessions /\ Free(fds) # {}
    /\ fds' = [fds EXCEPT ![Lowest(Free(fds))] = "newsock"]
    /\ pending' = Lowest(Free(fds))
    /\ sessions' = sessions + 1
    /\ UNCHANGED <<maps, shmfd, shmaddr, seg, live, sockfd, watched, bad, blit>>

\* adopt_connection_fd: the old socket leaves the looper; c.init connects
\* to the new one and disconnects the old connection, which closes its
\* socket; the setup requests; attach_region; then, unless it threw, the
\* new socket is polled and refresh_screen runs (`shown`: a window exists
\* and the activity is not paused).
adopt_connection_fd(k, anonOk, mapOk1, mapOk2, shown) ==
    /\ pending # None
    /\ LET s1 == IF sockfd # None THEN Close(Current, sockfd, "sock")
                 ELSE Current
           s2 == [s1 EXCEPT !.fds[pending] = IF @ = "newsock" THEN "sock" ELSE @,
                            !.live = (s1.fds[pending] = "newsock"),
                            !.sock = pending, !.seg = FALSE]
           s3 == AttachRegion(s2, k, anonOk, mapOk1, mapOk2)
       IN /\ Store(s3)
          /\ watched' = ~s3.threw
          /\ blit' = IF ~s3.threw /\ shown THEN Blit(s3) ELSE blit
    /\ sockfd' = pending /\ pending' = None
    /\ UNCHANGED sessions

\* The looper reports EPOLLHUP on the polled socket: xcb_disconnect closes
\* it and c.conn becomes null.
hangup ==
    /\ watched /\ sockfd # None /\ fds[sockfd] = "sock"
    /\ fds' = [fds EXCEPT ![sockfd] = "free"]
    /\ sockfd' = None /\ watched' = FALSE /\ live' = FALSE
    /\ UNCHANGED <<maps, shmfd, shmaddr, seg, pending, sessions, bad, blit>>

\* refresh_screen from a damage event, a surface change or a resume.
refresh_screen ==
    /\ sockfd # None
    /\ blit' = Blit(Current)
    /\ UNCHANGED <<fds, maps, shmfd, shmaddr, seg, live, sockfd, pending,
                   watched, sessions, bad>>

\* The rest of the process opens and closes descriptors and maps and
\* unmaps memory, each from the lowest free number or address.
OtherOpen ==
    /\ Cardinality({n \in FdNums : fds[n] = "other"}) < MaxOther
    /\ Free(fds) # {}
    /\ fds' = [fds EXCEPT ![Lowest(Free(fds))] = "other"]
    /\ UNCHANGED <<maps, shmfd, shmaddr, seg, live, sockfd, pending, watched,
                   sessions, bad, blit>>

OtherClose(n) ==
    /\ fds[n] = "other"
    /\ fds' = [fds EXCEPT ![n] = "free"]
    /\ UNCHANGED <<maps, shmfd, shmaddr, seg, live, sockfd, pending, watched,
                   sessions, bad, blit>>

OtherMap ==
    /\ Cardinality({a \in Addrs : maps[a] = "other"}) < MaxOther
    /\ Free(maps) # {}
    /\ maps' = [maps EXCEPT ![Lowest(Free(maps))] = "other"]
    /\ UNCHANGED <<fds, shmfd, shmaddr, seg, live, sockfd, pending, watched,
                   sessions, bad, blit>>

OtherUnmap(a) ==
    /\ maps[a] = "other"
    /\ maps' = [maps EXCEPT ![a] = "free"]
    /\ UNCHANGED <<fds, shmfd, shmaddr, seg, live, sockfd, pending, watched,
                   sessions, bad, blit>>

Next ==
    \/ connect
    \/ \E k \in ServerKinds, anonOk, mapOk1, mapOk2, shown \in BOOLEAN :
          adopt_connection_fd(k, anonOk, mapOk1, mapOk2, shown)
    \/ hangup
    \/ refresh_screen
    \/ OtherOpen
    \/ \E n \in FdNums : OtherClose(n)
    \/ OtherMap
    \/ \E a \in Addrs : OtherUnmap(a)

Spec == Init /\ [][Next]_vars

-----------------------------------------------------------------------------
(* Properties                                                              *)

\* Spec 8: attaching the framebuffer again never leaks the previous
\* descriptor or mapping.  Every descriptor and mapping the client owns is
\* the one screen.shmfd / screen.shmaddr remember, so the release at the
\* top of the next attach_region reaches it, on every path of
\* attach_region, across sessions and server kinds.
NoResourceLeak ==
    /\ {n \in FdNums : fds[n] = "shm"} \subseteq {shmfd}
    /\ {a \in Addrs : maps[a] = "shm"} \subseteq {shmaddr}

\* attach_region's close(screen.shmfd) and munmap(screen.shmaddr) only ever
\* release the client's own descriptor and mapping, never a number or an
\* address that libxcb or the rest of the process has been given since.
NoForeignRelease == bad = {}

\* refresh_screen's blit_exact reads only a live mapping of the client's
\* (or draws black for a null shmaddr), never unmapped memory or MAP_FAILED.
BlitFromLiveMapping == blit # "dangling"
=============================================================================
