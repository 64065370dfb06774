---------------------------- MODULE EventDispatch ----------------------------
(***************************************************************************)
(* The event side of one connected session of lorie_client                *)
(* (src/app/src/main/cpp/lorie/lorie-client.cpp): the Damage Tracker, the  *)
(* Cursor Tracker and the Clipboard Bridge, and the platform callbacks     *)
(* that feed them.                                                         *)
(*                                                                         *)
(* The X server sends events in order (wire); connection_poll_func drains  *)
(* them in one callback of the looper, marks need_redraw and               *)
(* need_reload_keymaps, refreshes the cursor and answers clipboard events  *)
(* inside the loop, and refreshes the screen and the keymap after it.  The *)
(* platform thread posts surface_changed, cursor_changed and the resume    *)
(* closure, and writes paused (nativePause) and clipboard_sync_enabled     *)
(* directly.  Pixels and images are abstracted to the set of windows that *)
(* show the server's current ones, clipboard texts to model values,        *)
(* windows to model values with a platform lifecycle.  The session itself (connect, hang-up) is         *)
(* DispatchSession's: here the connection stays up.                        *)
(***************************************************************************)
EXTENDS Naturals, Sequences

CONSTANTS
    Wins,       \* the ANativeWindows of the screen surface
    CurWins,    \* the ANativeWindows of the cursor surface
    NoWin,      \* a null ANativeWindow*
    Texts,      \* clipboard texts an X client may own the selection with
    Refuser,    \* an owner that answers every conversion with property None
    NoOwner,    \* the CLIPBOARD selection has no owner
    None,       \* TERMUX_X11_CLIP not set on clip.win / nothing delivered
    MaxEvents,  \* bound on the events and requests in flight at once
    MaxTasks,   \* bound on the looper's queue of posted closures
    DamageFirstEvent, \* first_event of the server's DAMAGE extension
    FixesFirstEvent,  \* first_event of XFIXES
    XkbFirstEvent     \* first_event of XKEYBOARD

ASSUME /\ NoWin \notin Wins \cup CurWins
       /\ Refuser \notin Texts /\ NoOwner \notin Texts \cup {Refuser}
       /\ None \notin Texts
       /\ MaxEvents \in Nat /\ MaxTasks \in Nat \ {0}
       /\ {DamageFirstEvent, FixesFirstEvent, XkbFirstEvent} \subseteq 64..127

VARIABLES
    wire,       \* events sent by the server and not yet handled, in order
    requests,   \* convert_selection requests the server has not served
    owner,      \* server: owner of the CLIPBOARD selection
    prop,       \* server: TERMUX_X11_CLIP on clip.win
    life,       \* platform: [Wins -> {"new","live","dead"}]
    tasks,      \* the looper's FIFO of posted closures
    paused,     \* lorie_client::paused
    sync,       \* lorie_client::clipboard_sync_enabled
    screenWin,  \* screen.win
    cursorWin,  \* cursor.win
    fbShown,    \* the screen windows showing the root window's contents
    curShown,   \* the cursor windows showing the current cursor image
    keymapCurrent, \* codes reflect the server's keyboard
    clip        \* the text last handed to setClipboardText

vars == <<wire, requests, owner, prop, life, tasks, paused, sync,
          screenWin, cursorWin, fbShown, curShown, keymapCurrent, clip>>

\* Event numbers of the X protocol and its extensions (xcb headers).
XCB_SELECTION_NOTIFY == 31
XCB_DAMAGE_NOTIFY == 0
XCB_XFIXES_SELECTION_NOTIFY == 0
XCB_XFIXES_CURSOR_NOTIFY == 1
XCB_XKB_NEW_KEYBOARD_NOTIFY == 0
XCB_XKB_MAP_NOTIFY == 1

\* damage.init, fixes.init and xkb.init: each records the first_event of its
\* extension's QueryExtension reply.
DamageEventBase == DamageFirstEvent
FixesEventBase == FixesFirstEvent
XkbEventBase == XkbFirstEvent

\* An X event as the client reads it: response_type (bit 0x80 set when a
\* client sent it with SendEvent) and, for XKB events, xkbType in pad0.
Ev(code) ==
    [response_type |->
        CASE code = "DamageNotify" -> DamageEventBase + XCB_DAMAGE_NOTIFY
          [] code = "CursorNotify" -> FixesEventBase + XCB_XFIXES_CURSOR_NOTIFY
          [] code = "SelectionOwnerNotify" ->
                FixesEventBase + XCB_XFIXES_SELECTION_NOTIFY
          [] code \in {"XkbNewKeyboardNotify", "XkbMapNotify"} -> XkbEventBase
          [] code = "SelectionNotify" -> XCB_SELECTION_NOTIFY,
     pad0 |-> IF code = "XkbMapNotify" THEN XCB_XKB_MAP_NOTIFY
              ELSE XCB_XKB_NEW_KEYBOARD_NOTIFY]

\* The events adopt_connection_fd selects on the root window: DAMAGE raw
\* rectangles, the XFixes cursor and SetSelectionOwner (of CLIPBOARD) masks;
\* xkb.init selects NewKeyboardNotify and MapNotify; SelectionNotify is
\* delivered to clip.win without a selection.
EventCodes == {"DamageNotify", "CursorNotify", "SelectionOwnerNotify",
               "XkbNewKeyboardNotify", "XkbMapNotify", "SelectionNotify"}

Init ==
    /\ wire = <<>>
    /\ requests = 0
    /\ owner = NoOwner
    /\ prop = None
    /\ life = [w \in Wins |-> "new"]
    /\ tasks = <<>>
    /\ paused = FALSE
    /\ sync = FALSE
    /\ screenWin = NoWin /\ cursorWin = NoWin
    /\ fbShown = {} /\ curShown = {}
    /\ keymapCurrent = TRUE
    /\ clip = None

-----------------------------------------------------------------------------
(* Event classification (xcb_connection::damage, fixes, xkb)               *)

IsDamageNotify(e) == e.response_type = DamageEventBase + XCB_DAMAGE_NOTIFY
IsCursorNotify(e) == e.response_type = FixesEventBase + XCB_XFIXES_CURSOR_NOTIFY
IsSelectionNotify(e) ==
    e.response_type = FixesEventBase + XCB_XFIXES_SELECTION_NOTIFY
IsXkbMappingNotify(e) ==
    e.response_type = XkbEventBase /\ e.pad0 = XCB_XKB_NEW_KEYBOARD_NOTIFY

\* Mutation of IsSelectionResponse: the send_event bit not masked off.
IsSelectionResponseUnmasked(e) == e.response_type = XCB_SELECTION_NOTIFY

\* (response_type & ~0x80) == XCB_SELECTION_NOTIFY: an answer the owner sent
\* with SendEvent is recognised as well as one the server generated.
IsSelectionResponse(e) == e.response_type % 128 = XCB_SELECTION_NOTIFY

-----------------------------------------------------------------------------
(* The dispatch thread                                                     *)

\* blit_exact: a null window is skipped by its callers; on a screen window
\* the platform has destroyed, setBuffersGeometry or ANativeWindow_lock
\* fails and the frame is dropped (logged, not retried).
Blit(shown, w) == IF w \notin Wins \/ life[w] = "live" THEN shown \cup {w} ELSE shown

\* refresh_screen: if (screen.win && c.conn && !paused), shm get and blit.
ScreenAfterRefresh(w, isPaused) ==
    IF w # NoWin /\ ~isPaused THEN Blit(fbShown, w) ELSE fbShown

\* refresh_cursor: if (cursor.win && c.conn), get_cursor_image and blit.
CursorAfterRefresh(w) == IF w # NoWin THEN Blit(curShown, w) ELSE curShown

\* Mutation of NeedRedraw: need_redraw assigned from each event instead of
\* set once, so only the last event of a batch counts.
NeedRedrawLastOnly(evs) == evs # <<>> /\ IsDamageNotify(evs[Len(evs)])

\* need_redraw: set by any damage notify of the batch.
NeedRedraw(evs) == \E i \in 1..Len(evs) : IsDamageNotify(evs[i])

NeedReloadKeymaps(evs) == \E i \in 1..Len(evs) : IsXkbMappingNotify(evs[i])

\* A cursor notify refreshes the cursor inside the loop.
CursorRefreshed(evs) == \E i \in 1..Len(evs) : IsCursorNotify(evs[i])

\* Each selection-owner notify, while clipboard sync is on, sends
\* xcb_convert_selection(clip.win, CLIPBOARD, STRING, prop_sel).
Conversions(evs) == IF sync THEN Len(SelectSeq(evs, IsSelectionNotify)) ELSE 0

\* A selection response, while clipboard sync is on, reads prop_sel (length
\* first, then that many bytes) and calls set_clipboard_text with it.  The
\* property is neither checked against None nor deleted.
Delivers(evs) == sync /\ \E i \in 1..Len(evs) : IsSelectionResponse(evs[i])

\* connection_poll_func: the fd callback drains every queued event, then
\* refreshes the screen and reloads the keymaps if the batch asked for it.
connection_poll_func ==
    /\ wire # <<>>
    /\ wire' = <<>>
    /\ requests' = requests + Conversions(wire)
    /\ curShown' = IF CursorRefreshed(wire) THEN CursorAfterRefresh(cursorWin)
                                             ELSE curShown
    /\ clip' = IF Delivers(wire) THEN prop ELSE clip
    /\ fbShown' = IF NeedRedraw(wire) THEN ScreenAfterRefresh(screenWin, paused)
                                      ELSE fbShown
    /\ keymapCurrent' = (keymapCurrent \/ NeedReloadKeymaps(wire))
    /\ UNCHANGED <<owner, prop, life, tasks, paused,
                   sync, screenWin, cursorWin>>

HeadIs(t) == tasks # <<>> /\ Head(tasks) = t

\* surface_changed: releases the old window, acquires the new one, stores
\* it and refreshes the screen (update_resolution is ResolutionController's).
surface_changed(w) ==
    /\ HeadIs([kind |-> "surface", win |-> w])
    /\ tasks' = Tail(tasks)
    /\ screenWin' = w
    /\ fbShown' = ScreenAfterRefresh(w, paused)
    /\ UNCHANGED <<wire, requests, owner, prop, life,
                   paused, sync, cursorWin, curShown, keymapCurrent, clip>>

\* Mutation of cursor_changed: the window stored without refresh_cursor.
cursor_changed_no_refresh(w) ==
    /\ HeadIs([kind |-> "cursor", win |-> w])
    /\ tasks' = Tail(tasks)
    /\ cursorWin' = w
    /\ UNCHANGED <<wire, requests, owner, prop, life,
                   paused, sync, screenWin, fbShown, curShown, keymapCurrent, clip>>

\* cursor_changed: stores the new cursor window and refreshes the cursor.
cursor_changed(w) ==
    /\ HeadIs([kind |-> "cursor", win |-> w])
    /\ tasks' = Tail(tasks)
    /\ cursorWin' = w
    /\ curShown' = CursorAfterRefresh(w)
    /\ UNCHANGED <<wire, requests, owner, prop, life,
                   paused, sync, screenWin, fbShown, keymapCurrent, clip>>

\* The closure of nativeResume: paused = false, then refresh_screen.
resume ==
    /\ HeadIs([kind |-> "resume", win |-> NoWin])
    /\ tasks' = Tail(tasks)
    /\ paused' = FALSE
    /\ fbShown' = ScreenAfterRefresh(screenWin, FALSE)
    /\ UNCHANGED <<wire, requests, owner, prop, life,
                   sync, screenWin, cursorWin, curShown, keymapCurrent, clip>>

-----------------------------------------------------------------------------
(* The platform thread                                                     *)

Post(t) == Len(tasks) < MaxTasks /\ tasks' = Append(tasks, t)

\* A surface handed to windowChanged: null, or a window the platform has
\* not destroyed (ANativeWindow_fromSurface and the extra acquire keep it
\* from being freed and reused).
Usable(w) == w # NoWin => life[w] # "dead"
MadeLive(w) == IF w = NoWin THEN life ELSE [life EXCEPT ![w] = "live"]

\* Java_..._windowChanged: posts surface_changed with the window.
windowChanged(w) ==
    /\ Usable(w)
    /\ Post([kind |-> "surface", win |-> w])
    /\ life' = MadeLive(w)
    /\ UNCHANGED <<wire, requests, owner, prop, paused,
                   sync, screenWin, cursorWin, fbShown, curShown, keymapCurrent, clip>>

\* Java_..._cursorChanged: posts cursor_changed with the window.
cursorChanged(w) ==
    /\ Post([kind |-> "cursor", win |-> w])
    /\ UNCHANGED <<wire, requests, owner, prop, life, paused,
                   sync, screenWin, cursorWin, fbShown, curShown, keymapCurrent, clip>>

\* Java_..._nativeResume: posts the resume closure.
nativeResume ==
    /\ Post([kind |-> "resume", win |-> NoWin])
    /\ UNCHANGED <<wire, requests, owner, prop, life,
                   paused, sync, screenWin, cursorWin, fbShown, curShown,
                   keymapCurrent, clip>>

\* Java_..._nativePause: client.paused = true, on the platform thread.
nativePause ==
    /\ paused' = TRUE
    /\ UNCHANGED <<wire, requests, owner, prop, life,
                   tasks, sync, screenWin, cursorWin, fbShown, curShown,
                   keymapCurrent, clip>>

\* Java_..._setClipboardSyncEnabled, on the platform thread.
setClipboardSyncEnabled(b) ==
    /\ sync' = b
    /\ UNCHANGED <<wire, requests, owner, prop, life,
                   tasks, paused, screenWin, cursorWin, fbShown, curShown,
                   keymapCurrent, clip>>

\* The platform destroys the screen surface (no entry point of the client
\* runs).  Cursor surfaces are not destroyed in this model.
surfaceDestroyed(w) ==
    /\ life[w] = "live"
    /\ life' = [life EXCEPT ![w] = "dead"]
    /\ UNCHANGED <<wire, requests, owner, prop, tasks,
                   paused, sync, screenWin, cursorWin, fbShown, curShown,
                   keymapCurrent, clip>>

-----------------------------------------------------------------------------
(* The X server and the other X clients                                    *)

\* The server originates only the events the client selected, while fewer
\* than MaxEvents events and requests are in flight.
Originate(code) ==
    /\ code \in EventCodes
    /\ Len(wire) + requests < MaxEvents
    /\ wire' = Append(wire, Ev(code))

\* Another client draws on the root window; DAMAGE reports it.  No window
\* shows the new contents yet.
XDraw ==
    /\ Originate("DamageNotify")
    /\ fbShown' = {}
    /\ UNCHANGED <<requests, owner, prop, curShown, keymapCurrent>>

\* The displayed cursor changes; XFixes reports it.
XCursor ==
    /\ Originate("CursorNotify")
    /\ curShown' = {}
    /\ UNCHANGED <<requests, owner, prop, fbShown, keymapCurrent>>

\* A client takes the CLIPBOARD selection; XFixes reports SetSelectionOwner.
XSetOwner(o) ==
    /\ Originate("SelectionOwnerNotify")
    /\ owner' = o
    /\ UNCHANGED <<requests, prop, fbShown, curShown, keymapCurrent>>

\* The owner goes away; only SetSelectionOwner is selected, so no event.
XOwnerGone ==
    /\ owner # NoOwner
    /\ owner' = NoOwner
    /\ UNCHANGED <<wire, requests, prop, fbShown, curShown, keymapCurrent>>

\* The keyboard is replaced; XKB reports NewKeyboardNotify.
XNewKeyboard ==
    /\ Originate("XkbNewKeyboardNotify")
    /\ keymapCurrent' = FALSE
    /\ UNCHANGED <<requests, owner, prop, fbShown, curShown>>

\* Another client changes the keyboard mapping (xmodmap, XkbSetMap) without
\* replacing the keyboard; XKB reports MapNotify.
XRemap ==
    /\ Originate("XkbMapNotify")
    /\ keymapCurrent' = FALSE
    /\ UNCHANGED <<requests, owner, prop, fbShown, curShown>>

\* The SelectionNotify answer; an owner sends it with SendEvent.
Answer(fromOwner) ==
    wire' = Append(wire,
                   [Ev("SelectionNotify") EXCEPT !.response_type =
                       @ + (IF fromOwner THEN 128 ELSE 0)])

\* A ConvertSelection is served: a text owner stores its text in prop_sel
\* and answers with SendEvent; a refusing owner answers with property None;
\* with no owner the server answers itself.
ServeConvert ==
    /\ requests > 0
    /\ requests' = requests - 1
    /\ \/ /\ owner \in Texts
          /\ prop' = owner
          /\ Answer(TRUE)
       \/ /\ owner = Refuser
          /\ Answer(TRUE)
          /\ UNCHANGED prop
       \/ /\ owner = NoOwner
          /\ Answer(FALSE)
          /\ UNCHANGED prop
    /\ UNCHANGED <<owner, fbShown, curShown, keymapCurrent>>

\* What the server's steps leave alone: the platform and the client.
ClientVars == <<life, tasks, paused, sync, screenWin, cursorWin, clip>>

-----------------------------------------------------------------------------

ServerStep ==
    /\ \/ XDraw \/ XCursor \/ XOwnerGone \/ XNewKeyboard \/ XRemap
       \/ \E o \in Texts \cup {Refuser} : XSetOwner(o)
       \/ ServeConvert
    /\ UNCHANGED ClientVars

PlatformStep ==
    \/ \E w \in Wins \cup {NoWin} : windowChanged(w)
    \/ \E w \in CurWins \cup {NoWin} : cursorChanged(w)
    \/ nativeResume
    \/ nativePause
    \/ \E b \in BOOLEAN : setClipboardSyncEnabled(b)
    \/ \E w \in Wins : surfaceDestroyed(w)

\* The closures posted to the looper, run in FIFO order.
RunTask ==
    \/ \E w \in Wins \cup {NoWin} : surface_changed(w)
    \/ \E w \in CurWins \cup {NoWin} : cursor_changed(w)
    \/ resume

Next == ServerStep \/ PlatformStep \/ RunTask \/ connection_poll_func

\* runner_thread calls looper.dispatch for as long as the client lives: a
\* posted closure and a readable connection are eventually served.  The
\* server serves a conversion request and the owner answers it.
Fairness ==
    /\ WF_vars(RunTask)
    /\ WF_vars(connection_poll_func)
    /\ WF_vars(ServeConvert /\ UNCHANGED ClientVars)

Spec == Init /\ [][Next]_vars /\ Fairness

-----------------------------------------------------------------------------
(* Properties                                                              *)

\* Spec 4.3: a damage notify leads to a re-read of the framebuffer.  While
\* the screen window is live and the client not paused, it eventually shows
\* the server's current contents, across damage batches drained in one
\* callback, windows replaced by surface_changed, and nativePause (a direct
\* write) racing the posted resume closure.
ScreenEventuallyFresh ==
    (/\ screenWin # NoWin /\ life[screenWin] = "live" /\ ~paused
     /\ screenWin \notin fbShown)
    ~> \/ screenWin \in fbShown
       \/ screenWin = NoWin \/ life[screenWin] # "live" \/ paused

\* Spec 4.4: a cursor notify, or a new cursor window from cursor_changed,
\* leads to the current cursor image being drawn into the cursor window.
CursorEventuallyShown ==
    (cursorWin # NoWin /\ cursorWin \notin curShown)
    ~> (cursorWin \in curShown \/ cursorWin = NoWin)

\* Spec 4.8: when a client takes the clipboard with a text while sync is on
\* and the selection-owner notify is still to be handled, the platform is
\* eventually handed that text, through convert_selection, the owner's
\* SelectionNotify (sent with the send_event bit) and the two-step property
\* read, unless the owner changes or sync is switched off first.
ClipboardEventuallySynced ==
    \A t \in Texts :
        (/\ owner = t /\ sync
         /\ \E i \in 1..Len(wire) : IsSelectionNotify(wire[i]))
        ~> (clip = t \/ owner # t \/ ~sync)

=============================================================================
