# TLA+ models of the termux-wayland X client core

This directory holds TLA+ models of the native X client in
`src/app/src/main/cpp/lorie/`: `lorie-client.cpp`, the Android-side client, and
`xcb-connection.hpp`, its XCB protocol wrapper. TLC checks each model. Each
module translates the code named in `PROJECT.json` under `"map"`. `"runs"` lists
what each check asks, and `"findings"` says what the violated checks show.

## 1. The system

**Parts** (spec section 2, and where they are in the code):

| Part | Code | State | Operations |
|---|---|---|---|
| Dispatch loop | `lorie_client` ctor, `post`, `post_delayed`, the looper (not under `src/`) | FIFO of posted closures, delayed closures, watched fds | post, post_delayed, fd callback |
| Session (Wire Session) | `xcb_connection::init`, `adopt_connection_fd`, fd callback | `c.conn`, static `old_fd`, fd watched by the looper | connect, handshake, hang-up teardown |
| Keymap engine | `xkb` struct | `codes`, `bindings`, `current_scratch_index`; server keymap, pressed keys | `reload_keymaps`, `send_keysym`, delayed reset, `send_modifiers`, `send_key` |
| Input injector | `send_key`/`send_button`/`send_keysym` (client and xkb), `onPointerMotion`, `onPointerScroll`, `onPointerButton`, `onKey`, `onKeySym` | `horizontal_scroll_enabled` | post key, button and keysym closures; pointer motion on the platform thread |
| Resolution controller | `randr` struct, `surface_changed` | `randr.width/height` (= `screen.width/height`); server modes, CRTC, root geometry | `update_resolution`, `create_mode`, `delete_mode`, `switch_to_mode`, `init` |
| Shared framebuffer | `shm`, `attach_region`, `refresh_screen`, `os_create_anonymous_file` | `screen.shmfd`, `screen.shmaddr`, `shmseg` | attach (memfd / server segment), refresh |
| Damage tracker | `damage`, `connection_poll_func` | `need_redraw` | damage notify leads to refresh_screen |
| Cursor tracker | `fixes`, `refresh_cursor`, `cursor_changed` | `cursor` fields | cursor notify, cursor surface change |
| Clipboard bridge | `clip`, `connection_poll_func` | selection window, atoms, `clipboard_sync_enabled` | selection notify leads to convert, then SelectionNotify leads to two `get_property` calls |

Outside the client core: the GLES renderer (`renderer.c`), OpenXR
(`xr/framebuffer.cpp`), the embedded Wayland server
(`lorie_wayland_server.*`), a legacy copy of the client
(`lorie-client/lorie-client.cpp`) and a data table (`resolutions.h`).

**How they interact.** Two threads share one `lorie_client`:

- The **platform thread** (the JNI entry points) posts closures to the looper.
  Before posting input closures it tests `c.conn`. `onPointerMotion` goes
  further and uses the connection directly.
- The **dispatch thread** (`runner_thread`) runs the looper. It runs posted
  closures in FIFO order, delayed closures when their timer expires, and the
  X socket's fd callback.
- The fd callback either tears the session down on a hang-up or drains events
  in `connection_poll_func`. Drained events go to the damage, cursor,
  clipboard and keymap handlers.
- The X server is a separate process that outlives sessions. Its keymap and
  RandR modes persist across reconnects, and other X clients may change them.

**Hard behaviours the code is exposed to:**

- the two threads interleaving around `c.conn`;
- a hang-up racing closures that are already posted;
- a multi-call platform handler (a horizontal scroll's four sends) split by
  a hang-up and a reconnect;
- a reconnect that fails part-way through `adopt_connection_fd`;
- delayed resets that outlive the binding, or the session, they belong to;
- the round-robin reuse of scratch keycodes;
- a seven-request RandR transition that can fail at any step, on a server
  holding state left by earlier sessions;
- file descriptors that libxcb closes behind the client's back;
- another X client changing the keymap.
- replies that can be NULL or unterminated (the clipboard property fetch),
  and an extension init that throws half-way through a handshake.

`PROJECT.json` `"hazards"` lists each of these at the line where it bites.

## 2. Modules

| Module | Models | State | Actions |
|---|---|---|---|
| `DispatchSession` | session lifecycle and both threads | `conn`, `sock` (each socket: unused/open/hup/closed), `polled`, `old_fd`, `queue`, `resets`, `shown`, `ui`, `motion`, `reqOn`, `hscroll`, `scroll`, `jni`, `held` | `connect`, `onPointerButton`, `onKey`, `onKeySym`, `onPointerScroll`/`scroll_send`, `setHorizontalScrollEnabled`, `window_changed`, `motion_check`/`motion_setup`/`motion_fake`/`motion_flush` (platform); `run_init_jni`, `adopt_ok`, `adopt_handshake_error`, `adopt_connect_error`, `connection_hup`, `connection_poll`, `run_input`, `run_keysym`, `run_reset`, `run_surface` (dispatch); `server_hangup` (environment) |
| `KeymapEngine` | the `xkb` struct against the server keymap | `kmap`, `down` (server); `codes`, `bindings`, `idx`, `resets` (client); `lastPress` (the last injection, for the properties) | `reload_keymaps`, `send_keysym_found`, `send_keysym_missing`, `reset_scratch`, `send_key` |
| `KeymapForeign` | `KeymapEngine` plus another X client binding keycodes | plus `foreign` | plus `foreign_rebind` |
| `ResolutionController` | the `randr` struct, `surface_changed` and `randr.init` | `conn`, `target`, `screen`, `crtc`, `modes` | `surface_changed`, `randr_init`, `hangup` |
| `ResolutionAbstract` | what the controller promises | `conn`, `target`, `screen` | `ARequest`, `AConnect`, `ADisconnect` |
| `EventDispatch` | `connection_poll_func` with the damage, cursor, clipboard and keymap branches, and the platform callbacks that feed them | `wire` (events in flight), `requests`, `owner`, `prop`, `keymapCurrent` (server); `life` (platform windows); `tasks`, `paused`, `sync`, `screenWin`, `cursorWin`, `clip` (client); `fbShown`, `curShown` (windows showing current contents) | `connection_poll_func`, `surface_changed`, `cursor_changed`, `resume` (dispatch); `windowChanged`, `cursorChanged`, `nativeResume`, `nativePause`, `setClipboardSyncEnabled`, `surfaceDestroyed` (platform); `XDraw`, `XCursor`, `XSetOwner`, `XOwnerGone`, `XNewKeyboard`, `XRemap`, `ServeConvert` (server and other clients) |
| `SharedFramebuffer` | `attach_region`, `refresh_screen`, the `shm` requests, reconnect and hang-up, against the process's descriptors and mappings | `fds` (owner of each descriptor number), `maps` (owner of each address), `shmfd`, `shmaddr`, `seg`, `live`, `sockfd`, `pending`, `watched`, `sessions`; `bad`, `blit` (for the properties) | `connect`, `adopt_connection_fd`, `hangup`, `refresh_screen`; `OtherOpen`/`OtherClose`/`OtherMap`/`OtherUnmap` (the rest of the process) |

Each `MC*` module gives a module's constants their values for TLC.

**How the code maps to the actions:**

- *DispatchSession.*
  - Every closure runs on the one dispatch thread, so each closure is one
    atomic action.
  - `onPointerMotion` is the one platform-side use of the connection. It
    reads `client.c.conn` four times, and each read is a step of its own:
    the test at 611 (`motion_check`), `xcb_get_setup` at 613
    (`motion_setup`), `xcb_test_fake_input` at 618 (`motion_fake`) and
    `xcb_flush` at 619 (`motion_flush`). No call separates 611 from 613, so
    the compiler may reuse the tested value there. `motion_setup` therefore
    takes either the tested connection or the current one. The screen
    pointer `s` points into that connection's setup (`ui`), and 616-618
    read it again. The dispatch thread may run between any two of the steps.
  - Requests are abstracted to the connection they go to. `reqOn` records it,
    or `NoConn` for a null `c.conn`.
  - An `adopt_connection_fd` that throws after `c.init` becomes
    `adopt_handshake_error`. This covers an extension query, an event
    selection or `attach_region` throwing. One that throws inside `c.init`,
    before the connection is replaced, becomes `adopt_connect_error`; there
    libxcb has already closed the new socket (`xcb_connect_to_fd` disconnects
    a connection whose setup failed), so the socket becomes `closed`.
  - The input entry points are one action each: `onPointerButton`, `onKey`
    and `onKeySym` make one `send_*` call, which posts only when `c.conn` is
    set. `onPointerScroll` returns at once for a horizontal scroll unless
    `horizontal_scroll_enabled` is set. Otherwise it sets `scroll` to the two
    or four `send_*` calls it still has to make (`ScrollCalls`: the Shift
    press, the button press and release, the Shift release), and
    `scroll_send` makes them one at a time, each re-reading `c.conn`, so the
    dispatch thread can run between them.
  - `held` is the X server's side of the Shift bracket: the servers on which
    a scroll's Shift press closure has run (`run_input("shift_press")` on a
    non-null `c.conn`) and its release has not. Nothing in the client reads
    it; it exists to state `ShiftReleased`.
  - `Java_..._init` runs when the activity is created, so the model starts
    with `init_jni`'s closure queued. Until it runs,
    `client_connected_state_changed` returns without a report (`Report`).
    The Java side is not in the repository; the order (init before connect)
    is an assumption.
- *EventDispatch.*
  - One connected session; connecting and hanging up are
    `DispatchSession`'s. The server appends events to `wire` in order.
    `connection_poll_func` drains all of them in one atomic step. Inside the
    loop it refreshes the cursor, sends `convert_selection` and delivers
    clipboard text. After the loop it refreshes the screen if any damage
    notify came, and reloads the keymap if a NewKeyboardNotify came.
  - Events keep their numbers: `response_type` is the extension's
    `first_event` (recorded by `damage.init`, `fixes.init`, `xkb.init`) plus
    the event number, with bit 0x80 for an event a client sent with
    SendEvent, and `pad0` carries the XKB event type. The classifiers compare
    these numbers as the code does. Only `is_selection_response_event` masks
    bit 0x80.
  - Pixels are abstracted to `fbShown` and `curShown`, the windows that show
    the server's current contents. A server draw or cursor change empties the
    set, and a blit to a live window adds that window. `blit_exact` on a
    destroyed window drops the frame.
  - The clipboard owner is a text (it stores the text in `prop` and answers
    with SendEvent), `Refuser` (answers with property None and leaves `prop`
    as it was), or nobody (the server answers).
- *KeymapEngine.*
  - `send_keysym` is split by its `find_if` result: `send_keysym_found` uses
    the layout, `send_keysym_missing` remaps the next scratch keycode.
  - Both paths end in `Inject`. `Inject` reads the effective modifiers,
    computes `(level mods \ held) \cup meta`, presses every keycode that
    `get_modifier_mapping` lists for those modifiers, presses and releases the
    key, and releases the modifier keys.
  - The server picks level 1 when Shift is effective. A remapped scratch
    keycode carries `{s, s}`, and a reset keycode carries NoSymbol on every
    level, so it has no layout.
  - Delayed closures with equal delays expire in posting order, so the pending
    resets form a FIFO.
- *ResolutionController.*
  - `update_resolution` runs with the server grabbed, so it is one action.
  - Its seven requests are the sequence `UpdateSteps`, folded (`FoldLeft`)
    over a record of the server state plus `ok`. The first failing request
    (`handle_error` throws) turns the remaining steps into no-ops, as the
    catch does.
  - The server's answers follow RandR: a screen size above the maximum is
    refused, a screen size the active CRTC mode would not fit in is refused,
    a CRTC mode larger than the screen is refused, and the mode in use cannot
    be deleted.
  - `switch_to_mode` compares against the geometry cached at the start, as
    the code does.

- *SharedFramebuffer.*
  - Descriptor numbers and mapping addresses are allocated lowest free
    first, as the kernel allocates descriptors. Each one records its owner:
    the socket of `c.conn`, a handed-over socket, the client's memory, or
    the rest of the process.
  - `Close` and `Unmap` release whatever holds the number or address. When
    that is not what the code believes it is, they record it in `bad`.
  - `attach_region` is one action made of `Release`, `CreateLocal`,
    `AttachFd`, `CatchAttach` and `CreateSegment`, in the order of its
    statements, over a record of that state. The server kind chooses the
    path. `AttachFd` frees the descriptor, because libxcb closes a
    descriptor it has sent.
  - `handle_error` throws only on an X error reply. On a connection in
    error (`live` false, or its socket closed), requests return as if they
    succeeded, as in the code.
  - `adopt_connection_fd` is the whole handler: `c.init` (connect to the
    new socket, disconnect the old one), `attach_region`, the looper
    registration, and the trailing `refresh_screen`. The choice `shown`
    stands for a window existing and the activity not being paused.

**Refinement.** `ResolutionController` instantiates `ResolutionAbstract`
`WITH conn <- conn, target <- target, screen <- screen`: the session flag, the
stored request and the root geometry are the abstract state, and the CRTC and
the named modes are hidden. Its property
`ImplementsAbstract` is `Abstract!ASpec`. The promise it checks:

- while connected, each request sets the screen to the requested size if the
  server can show that size;
- a new session applies the stored size;
- after a request the server cannot show, any geometry is allowed (spec 4.7:
  "the resolution may end up inconsistent").

## 3. Runs

| Run | Checks | Result |
|---|---|---|
| `session_safety` (`DispatchSession.cfg`) | `PolledIsCurrent` (the looper watches only the current connection, and that is `old_fd`); `ConnectedStateAccurate` (the state reported to the platform is "connected" exactly when the current connection is watched); `NoOrphanedConnection` (every socket still open is `c.conn` or still queued for adoption) | holds |
| `session_dead_connection` (`DispatchSessionDeadConnection.cfg`) | `NoRequestOnDeadConnection` | violated: `onPointerMotion` uses a connection that an adopt has disconnected since its test |
| `session_stuck_shift` (`DispatchSessionStuckShift.cfg`) | `ShiftReleased` | violated: a horizontal scroll's Shift press, posted for a session that then hangs up, runs on the next session while its release was never posted |
| `keymap_injection` (`KeymapEngine.cfg`) | `TypeOK`; `InjectedKeyProducesSymbol` (round trip of spec 8); `ScratchEventuallyCleared` (liveness: a bound scratch keycode is eventually unbound) | holds |
| `keymap_held_modifier` (`KeymapEngineHeldModifier.cfg`) | `HeldModifierSurvivesInjection` | violated: a held Shift is released by a keysym sent with Shift in `meta_state` |
| `keymap_foreign_binding` (`KeymapForeign.cfg`) | `ForeignBindingPreserved` | violated: a keycode another client bound is remapped, then reset to NoSymbol |
| `resolution_refinement` (`ResolutionController.cfg`) | `TypeOK`; `ImplementsAbstract` | holds |
| `resolution_too_large` (`ResolutionTooLarge.cfg`) | `ImplementsAbstract` | violated: after one too-large request, every later showable request fails and the CRTC stays off |
| `event_liveness` (`EventDispatch.cfg`) | `ScreenEventuallyFresh`, `CursorEventuallyShown`, `ClipboardEventuallySynced` (liveness) | holds |
| `framebuffer_no_leak` (`SharedFramebuffer.cfg`) | `NoResourceLeak` (spec 8: every descriptor and mapping the client owns is the one `screen` remembers) | holds |
| `framebuffer_foreign_close` (`SharedFramebufferForeignClose.cfg`) | `NoForeignRelease` | violated: the reconnect's `close(screen.shmfd)` closes the new X socket, which got the number libxcb freed |
| `framebuffer_dangling_blit` (`SharedFramebufferDangling.cfg`) | `BlitFromLiveMapping` | violated: after a failed `mmap`, `refresh_screen` blits from `MAP_FAILED`; the rejected-segment path leaves an unmapped `shmaddr` the same way |

What the passing runs show:

- **`session_safety`.** `old_fd` is a static that survives failed
  reconnects, and the hang-up callback removes `old_fd` rather than the fd
  that fired; still, the looper only ever watches the current connection,
  and the platform's connected flag stays true to it. Every replaced
  connection is disconnected on every adopt path, so no live X connection
  is ever left behind; dropping `init`'s `xcb_disconnect` of the old
  connection breaks `NoOrphanedConnection` within a few steps.
  `DispatchSession.TypeOK` is not checked: every bound in it is one of
  the model's own guards (`MaxQueue`, `MaxResets`, the length of a
  scroll), so it would hold whatever the code did.
- **`keymap_injection`.** The spec (section 9) worries that an older pending
  reset clobbers a fresh binding of the same keycode. The keycode is pressed
  and released inside the same closure that binds it, so a reset can only run
  after the press. The round trip therefore holds under every order of
  remaps, resets and reloads. With three pending resets, a keycode is
  rebound while its earlier reset is pending, and `ScratchEventuallyCleared`
  shows it is still unbound in the end.
- **`resolution_refinement`.** The detach-then-attach sequence reaches every
  showable size. It does so from a fresh server at any size and from a server
  left on a persistent mode, including right after a reconnect. Dropping the
  `switch_to_mode(nullptr)` step breaks it.

- **`framebuffer_no_leak`.** The code tests `shmaddr` and `shmfd` for
  truthiness rather than validity, closes descriptors twice and never resets
  `shmaddr`. Despite that, it never leaks. Under every combination of server
  kinds across three sessions, the descriptor and mapping it owns are always
  the ones `screen` names, so the next `attach_region` releases them.
  Dropping the initial `munmap` breaks it.

- **`event_liveness`.** Server draws, cursor changes, owner changes and
  conversions interleave with window changes, pause and resume, the sync
  toggle and surface destruction. A live, unpaused screen window eventually
  shows the current root contents, unless it is replaced, destroyed or
  paused. A cursor window eventually shows the current cursor. An owner's
  text eventually reaches `setClipboardText` while sync stays on. The
  mutants show what each depends on: `need_redraw` must be sticky across the
  batch, `cursor_changed` must refresh, and the SendEvent bit must be masked
  off the owner's answer.

Each property of a passing run has a mutant in `PROJECT.json`: a plausible
bug in a mapped definition that TLC finds through that property.

What the session violation runs show:

- **`session_dead_connection`.** `c.conn` is tested on one thread and
  used on the other. TLC's 8-state trace:
  - two `connect` calls queue the adopts of c1 and c2;
  - `init_jni` and `adopt_connection_fd(c1)` run;
  - `onPointerMotion` tests `client.c.conn` and sees c1;
  - `adopt_connection_fd(c2)` runs on the dispatch thread. `c.init`
    disconnects c1 and a later step throws;
  - the platform thread's `xcb_get_setup` at 613 reuses the tested value.
    It reads the setup of the freed c1.

  The same property is also broken, in longer traces, by paths that need
  no compiler reuse:
  - a hang-up teardown between the test and a re-read at 613, 618 or 619
    dereferences the null `c.conn`;
  - every `send_*` tests `c.conn` when it posts, while its closure uses
    `c.conn` when it runs, so after a hang-up teardown in between the
    closure dereferences a null connection;
  - the delayed keycode reset does not test `c.conn` at all.
- **`session_stuck_shift`.** The same late binding, seen from the server.
  TLC's 15-state trace: `connect(c2)` is queued; a horizontal scroll on c1
  posts the Shift press and a button; c1 hangs up and is torn down, so the
  rest of the scroll's sends, the Shift release among them, post nothing;
  `adopt_connection_fd(c2)` runs; the queued Shift press runs on c2. Shift
  stays pressed on a live server, so every later key the user types on it
  is shifted. Nothing crashes, so the failure is silent.

## 4. Bounds

- **DispatchSession.**
  - Three sockets, as symmetric model values. That allows a session, a
    reconnect, and a second reconnect after a failed one.
  - A queue of at most 3 closures (`MaxQueue`) and one pending reset
    (`MaxResets`). The code's queue is unbounded: at the bound the model
    holds back a post until the dispatch thread has run a closure. That
    still lets a queued adopt, the Shift press and a button wait together,
    which is what the stuck-Shift trace needs.
  - The pass run covers about 5,300,000 states in a minute.
  - The dead-connection violation appears within 8 states, the stuck Shift
    within 15.
- **KeymapEngine.**
  - Five keycodes: a two-level letter key, Return, Shift_L and two keycodes
    with no layout.
  - Five requestable keysyms. `x` and `y` are missing from the layout, so
    typing both makes the scratch pool wrap round-robin. Linefeed is
    normalised to Return.
  - One modifier (Shift).
  - At most 3 pending resets (`MaxResets`) in the injection run. With two
    scratch keycodes, resets running in FIFO order and the third remap
    reusing the first keycode, that is the least bound at which a keycode
    is rebound while its earlier reset is still pending (x on 12, y on 13,
    x on 12 again). The run covers 10,304 states in 4 seconds. The two
    violation runs keep 2, which their traces do not need.
- **ResolutionController.**
  - Sizes are pairs in units of 400 pixels. The server shows up to `<<3, 3>>`.
  - Requested widths and heights range over 0..3. Zero stands for a surface
    narrower than 8 pixels.
  - The violation run adds width 4.
  - Start states: every fresh server size, and every persistent mode left by
    an earlier session. A temporary mode is left only by a failed transition,
    which the violation run reaches from a fresh server.

- **EventDispatch.**
  - One screen window, one cursor window and one clipboard text, besides
    the refusing owner and no owner. Windows are model values; one of each
    is enough for a window to be replaced by null and back, and destroyed.
  - At most 2 events and conversion requests in flight (`MaxEvents`), so a
    drain can see a damage notify followed by another event. At most one
    posted closure (`MaxTasks`); with 2 the run takes three minutes.
  - `first_event` values 91 (DAMAGE), 87 (XFIXES) and 85 (XKEYBOARD), the
    ones an X.Org server assigns. The classifiers only need them distinct
    from one another and from the core events.
  - The pass run covers about 508,000 states in a minute.
- **SharedFramebuffer.**
  - Five descriptor numbers: the two sockets of a reconnect, the client's
    descriptor and one of the rest of the process, with one to spare.
    Three addresses.
  - Three sessions (`MaxSessions`). At most one descriptor and one mapping
    at a time for the rest of the process (`MaxOther`).
  - All four server kinds.
  - Both violations appear within 5 steps. The pass run covers 38,561
    states.

## 5. Fairness

- **DispatchSession.** `WF` on running the queued closures, on the delayed
  reset, and on the hang-up callback of each watched connection. The
  dispatch thread loops on `looper.dispatch(1000)` until `terminate`, and
  each dispatch serves ready fds, posted closures and expired timers. The
  platform and the X server get no fairness. The session runs check safety
  only, so this fairness is part of the specification but no run relies
  on it yet.
- **KeymapEngine.** `WF` on `reset_scratch`: the 200 ms timer of a posted
  reset expires while the thread is dispatching.
- **ResolutionController.** No fairness. Its property is a safety
  (refinement) property.
- **SharedFramebuffer.** No fairness. All of its properties are invariants.
- **EventDispatch.** `WF` on running a posted closure and on
  `connection_poll_func`: the dispatch thread's loop serves both. `WF` on
  the server serving a conversion request. The platform, the other X
  clients and server-originated events get no fairness.
  - The fd is added with `EPOLLET`. Events libxcb reads into its queue during
    a round trip inside a posted closure do not make the fd readable again.
    The EPOLLOUT edge raised when the server takes in a request does, and
    every such closure sends one. So the model assumes the callback runs
    while events are unread. The looper's source is not in the repository.

## 6. Not modelled, and the plan

Each item below is a divergence the model reaches or would reach, and
each would be a further violation run. The findings of section 3 take the
violation runs this project keeps, so these are recorded as hazards in
`PROJECT.json` with no property:

1. A hung-up connection is never torn down when `adopt_connection_fd`
   failed after `c.init` replaced it: `adopt_handshake_error` leaves `conn`
   unwatched, and no `connection_hup` is enabled for it.
2. A session whose connection went into error without a hang-up
   (`attach_fd` sent -1) is never noticed.
3. The cursor rectangle: `move_cursor_rect` reads the hotspot and size on
   the platform thread while `refresh_cursor` writes them on the dispatch
   thread. The platform's call can land after the dispatch thread's own
   report, so any property that the reported rectangle is (eventually)
   right is violated; nothing short of a violation run says more. This is
   why the Cursor Tracker stays partly modelled.
4. Pointer scaling in `onPointerMotion` divides by `real_width`, which is 0
   until the first `windowChanged`. The Java side, which would order
   `connect` after the first surface, is not in the repository.
5. A composition of `DispatchSession` with the keymap and resolution models,
   so that resets and transitions run across reconnects. It would multiply
   their state spaces; the session run alone covers 1.8 million states.

Modelled, with no property stating it yet:

- A refused conversion re-delivers the stale `prop` (`ServeConvert` with
  `Refuser`).
- An XKB MapNotify from another client's remap does not reload the tables
  (`XRemap`; `keymapCurrent` stays false).

Left out for good:

- Rendering (GLES, OpenXR, `blit_exact`'s pixel copy) and logging are pure
  I/O.
- The Wayland server is outside the client core.
- The legacy client (`lorie-client/lorie-client.cpp`) is an older,
  ALooper-based version of the modelled one. It posts pointer motion as a
  closure instead of using the connection on the platform thread, and has
  no scroll. Its session lifecycle would need a module and runs of its
  own.
- The scratch entries' `keysym`/`expires` fields are never read by
  `send_keysym`.
- Keyboard groups: one layout, so the latch and restore of the group cannot
  be told apart.
- Event memory: `connection_poll_func` frees only the last event.
- Native window reference counts (`ANativeWindow_acquire`/`release`),
  including the early returns of `blit_exact` that skip the release.
- ConfigureNotify and X error events in `connection_poll_func`, and which
  key, keysym or button an input call sends.
- `~lorie_client` (process exit), the stderr-to-logcat thread and
  `set_cursor_coordinates`, which nothing calls.
