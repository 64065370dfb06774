---------------------------- MODULE KeymapEngine ----------------------------
(***************************************************************************)
(* The keyboard half of xcb_connection (the `xkb` member in                *)
(* src/app/src/main/cpp/lorie/xcb-connection.hpp) against the X server's   *)
(* keymap and key state.                                                   *)
(*                                                                         *)
(* Client state: `codes`, the keysym -> (keycode, modifiers) table built   *)
(* by reload_keymaps from keycodes that carry a layout; `bindings`, the    *)
(* scratch keycodes (keycodes without a layout) used round-robin through   *)
(* current_scratch_index to inject keysyms missing from the layout; and    *)
(* the delayed closures that map a scratch keycode back to NoSymbol 200 ms *)
(* after send_keysym bound it.  Delayed closures with equal delays run in  *)
(* the order they were posted, so pending resets are a FIFO.               *)
(*                                                                         *)
(* Server state: the keysym of each keycode at shift levels 0 and 1 (one   *)
(* layout; a keycode whose levels are all NoSymbol has no layout), and the *)
(* set of keycodes held down.  The effective modifiers are those whose     *)
(* modifier-map keycodes are down; level 1 is chosen when Shift is         *)
(* effective.                                                              *)
(*                                                                         *)
(* Every handler runs on the single dispatch thread as one closure, so     *)
(* each is one atomic action here.                                         *)
(***************************************************************************)
EXTENDS Naturals, Sequences, FiniteSets

CONSTANTS
    Keycodes,     \* X keycodes of the server's keyboard
    Syms,         \* keysyms, model values or strings
    NoSym,        \* NoSymbol (keysym 0)
    Linefeed,     \* XK_Linefeed
    Return,       \* XK_Return
    Requests,     \* keysyms the platform may ask send_keysym to type
    Mods,         \* the core modifiers the model distinguishes
    Shift,        \* the Shift modifier, the one that selects level 1
    ModMap,       \* [Mods -> SUBSET Keycodes]: get_modifier_mapping
    InitKeymap,   \* [Keycodes -> [Levels -> Syms \cup {NoSym}]]
    MaxResets     \* bound on pending delayed resets

Levels == {0, 1}

\* xkb_keymap_key_get_mods_for_level of a two-level key type
LevelMods(l) == IF l = 1 THEN {Shift} ELSE {}

\* The keycode offset send_key adds: Linux evdev codes to X keycodes.
KeycodeOffset == 8

ASSUME /\ NoSym \notin Syms
       /\ {Linefeed, Return} \subseteq Syms
       /\ Requests \subseteq Syms
       /\ Shift \in Mods
       /\ ModMap \in [Mods -> SUBSET Keycodes]
       /\ InitKeymap \in [Keycodes -> [Levels -> Syms \cup {NoSym}]]
       /\ Keycodes \subseteq Nat /\ \A k \in Keycodes : k > KeycodeOffset
       /\ MaxResets \in Nat \ {0}

VARIABLES
    kmap,       \* server: [Keycodes -> [Levels -> Syms \cup {NoSym}]]
    down,       \* server: keycodes held down
    codes,      \* client: the `codes` vector, as a set of records
    bindings,   \* client: the scratch keycodes of `bindings`, in order
    idx,        \* client: current_scratch_index (0-based)
    resets,     \* client: keycodes of the pending delayed reset closures
    lastPress   \* the last key press send_keysym injected (or None)

vars == <<kmap, down, codes, bindings, idx, resets, lastPress>>

None == [none |-> TRUE]

Code == [sym : Syms, key : Keycodes, mods : SUBSET Mods]
Press == [sym : Syms, produced : Syms \cup {NoSym}, meta : SUBSET Mods,
          before : SUBSET Keycodes, after : SUBSET Keycodes]

TypeOK ==
    /\ kmap \in [Keycodes -> [Levels -> Syms \cup {NoSym}]]
    /\ down \subseteq Keycodes
    /\ codes \subseteq Code
    /\ bindings \in Seq(Keycodes)
    /\ bindings # <<>> => idx \in 0..Len(bindings) - 1
    /\ resets \in Seq(Keycodes) /\ Len(resets) <= MaxResets
    /\ lastPress \in Press \cup {None}

-----------------------------------------------------------------------------
(* Helpers                                                                 *)

\* xkb_keymap_num_layouts_for_key(keymap, key) # 0
HasLayout(m, k) == \E l \in Levels : m[k][l] # NoSym

Unbound == [l \in Levels |-> NoSym]

\* The modifiers whose keycodes are down: xkb_get_state's `mods`.
EffectiveMods(d) == {m \in Mods : ModMap[m] \cap d # {}}

LevelOf(d) == IF Shift \in EffectiveMods(d) THEN 1 ELSE 0

ModKeys(ms) == UNION {ModMap[m] : m \in ms}

InBindings(b, k) == \E i \in 1..Len(b) : b[i] = k

\* The keycodes in ascending order: xkb_keymap_key_for_each's order.
RECURSIVE Ascending(_)
Ascending(S) ==
    IF S = {} THEN <<>>
    ELSE LET m == CHOOSE x \in S : \A y \in S : x <= y
         IN <<m>> \o Ascending(S \ {m})

\* The body of reload_keymaps: every keycode already in `bindings` stays a
\* scratch keycode whatever the keymap now says of it (its remembered keysym
\* is never read, so it is not modelled); a keycode with no layout that is
\* not in `bindings` is appended; every other keycode contributes one code
\* per level with a symbol.  The std::sort by ucs only orders the vector;
\* send_keysym searches it linearly by keysym, so a set is enough.
ReloadedBindings(m, b) ==
    b \o Ascending({k \in Keycodes : ~HasLayout(m, k) /\ ~InBindings(b, k)})

ReloadedCodes(m, b) ==
    {[sym |-> m[kl[1]][kl[2]], key |-> kl[1], mods |-> LevelMods(kl[2])] :
        kl \in {kl \in Keycodes \X Levels :
                    /\ ~InBindings(b, kl[1])
                    /\ m[kl[1]][kl[2]] # NoSym}}

Init ==
    /\ kmap = InitKeymap
    /\ down = {}
    /\ bindings = ReloadedBindings(InitKeymap, <<>>)
    /\ codes = ReloadedCodes(InitKeymap, <<>>)
    /\ idx = 0
    /\ resets = <<>>
    /\ lastPress = None

-----------------------------------------------------------------------------
(* Actions                                                                 *)

\* reload_keymaps, run by connection_poll_func after an XKB
\* NewKeyboardNotify: it reads the server's current keymap.
reload_keymaps ==
    /\ codes' = ReloadedCodes(kmap, bindings)
    /\ bindings' = ReloadedBindings(kmap, bindings)
    /\ lastPress' = None
    /\ UNCHANGED <<kmap, down, idx, resets>>

\* Mutation of Inject: the modifiers of the code's level are not pressed.
InjectNoLevelMods(s, meta, key, levelMods, m) ==
    LET pressed == down \cup ModKeys(meta)
        after == (pressed \cup {key}) \ ({key} \cup ModKeys(meta))
    IN /\ down' = after
       /\ lastPress' = [sym |-> s, produced |-> m[key][LevelOf(pressed)],
                        meta |-> meta, before |-> down, after |-> after]

\* The injection that follows the lookup in send_keysym: read the state,
\* press the needed modifiers, press and release the keycode, release the
\* modifiers.  m is the keymap the press is resolved against.
Inject(s, meta, key, levelMods, m) ==
    LET held == EffectiveMods(down)
        modifiers == (levelMods \ held) \cup meta
        pressed == down \cup ModKeys(modifiers)
        after == (pressed \cup {key}) \ ({key} \cup ModKeys(modifiers))
    IN /\ down' = after
       /\ lastPress' = [sym |-> s, produced |-> m[key][LevelOf(pressed)],
                        meta |-> meta, before |-> down, after |-> after]

\* send_keysym with a keysym found in `codes`.
send_keysym_found(sym, meta) ==
    LET s == IF sym = Linefeed THEN Return ELSE sym
    IN \E c \in codes :
          /\ c.sym = s
          /\ Inject(s, meta, c.key, c.mods, kmap)
          /\ UNCHANGED <<kmap, codes, bindings, idx, resets>>

\* Mutation of send_keysym_missing: the delayed reset is never posted.
send_keysym_missing_no_reset(sym, meta) ==
    LET s == IF sym = Linefeed THEN Return ELSE sym
        key == bindings[idx + 1]
        m == [kmap EXCEPT ![key] = [l \in Levels |-> s]]
    IN /\ ~\E c \in codes : c.sym = s
       /\ Len(bindings) > 0
       /\ kmap' = m
       /\ idx' = (idx + 1) % Len(bindings)
       /\ Inject(s, meta, key, {}, m)
       /\ UNCHANGED <<codes, bindings, resets>>

\* Mutation of send_keysym_missing: the round-robin index wraps one step
\* late (`>` for `>=` against bindings.size()).
send_keysym_missing_late_wrap(sym, meta) ==
    LET s == IF sym = Linefeed THEN Return ELSE sym
        key == bindings[idx + 1]
        m == [kmap EXCEPT ![key] = [l \in Levels |-> s]]
    IN /\ ~\E c \in codes : c.sym = s
       /\ Len(bindings) > 0
       /\ Len(resets) < MaxResets
       /\ kmap' = m
       /\ idx' = IF idx + 1 > Len(bindings) THEN 0 ELSE idx + 1
       /\ resets' = Append(resets, key)
       /\ Inject(s, meta, key, {}, m)
       /\ UNCHANGED <<codes, bindings>>

\* send_keysym with a keysym missing from `codes`: the next scratch keycode
\* is mapped to {s, s} (xcb_change_keyboard_mapping), its reset is posted
\* with a 200 ms delay, and the key is injected with no level modifiers.
send_keysym_missing(sym, meta) ==
    LET s == IF sym = Linefeed THEN Return ELSE sym
        key == bindings[idx + 1]
        m == [kmap EXCEPT ![key] = [l \in Levels |-> s]]
    IN /\ ~\E c \in codes : c.sym = s
       /\ Len(bindings) > 0
       /\ Len(resets) < MaxResets
       /\ kmap' = m
       /\ idx' = (idx + 1) % Len(bindings)
       /\ resets' = Append(resets, key)
       /\ Inject(s, meta, key, {}, m)
       /\ UNCHANGED <<codes, bindings>>

\* The delayed closure of send_keysym: the keycode is mapped to NoSymbol.
reset_scratch ==
    /\ resets # <<>>
    /\ kmap' = [kmap EXCEPT ![Head(resets)] = Unbound]
    /\ resets' = Tail(resets)
    /\ lastPress' = None
    /\ UNCHANGED <<down, codes, bindings, idx>>

\* send_key: a raw keycode from the hardware keyboard or the extra-keys bar,
\* offset by 8 and injected as is.
send_key(code, press) ==
    /\ down' = IF press THEN down \cup {code + KeycodeOffset}
                        ELSE down \ {code + KeycodeOffset}
    /\ lastPress' = None
    /\ UNCHANGED <<kmap, codes, bindings, idx, resets>>

Next ==
    \/ reload_keymaps
    \/ \E sym \in Requests, meta \in SUBSET Mods :
          \/ send_keysym_found(sym, meta)
          \/ send_keysym_missing(sym, meta)
    \/ reset_scratch
    \/ \E k \in Keycodes, press \in BOOLEAN : send_key(k - KeycodeOffset, press)

\* The 200 ms timer of a posted reset eventually expires and the dispatch
\* thread runs it.
Spec == Init /\ [][Next]_vars /\ WF_vars(reset_scratch)

-----------------------------------------------------------------------------
(* Properties                                                              *)

\* The round trip of spec section 8: a keysym typed with no modifier asked
\* for and no key held produces exactly that keysym (Linefeed as Return) at
\* the server, whether it came from the layout with its level's modifiers
\* or from a scratch keycode, however the remaps, their delayed resets,
\* reloads and the round-robin reuse of scratch keycodes interleave.
InjectedKeyProducesSymbol ==
    (lastPress # None /\ lastPress.meta = {} /\ lastPress.before = {})
        => lastPress.produced = lastPress.sym

\* A keycode send_keysym binds to a keysym is eventually bound to nothing
\* again (spec section 8: idempotent cleanup), also when it was rebound
\* before its earlier reset ran.
ScratchEventuallyCleared ==
    \A k \in Keycodes :
        (InBindings(bindings, k) /\ HasLayout(kmap, k)) ~> ~HasLayout(kmap, k)

\* Injecting a keysym leaves the modifier keys that were held before it
\* held after it (spec 4.5: the modifiers asked for minus those already
\* physically held are pressed, and only those are released).
HeldModifierSurvivesInjection ==
    lastPress # None =>
        \A k \in lastPress.before \cap ModKeys(Mods) : k \in lastPress.after

=============================================================================
