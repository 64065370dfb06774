---------------------------- MODULE KeymapForeign ---------------------------
(***************************************************************************)
(* KeymapEngine with another X client (x11vnc, chrome-remote-desktop, the  *)
(* comment of reload_keymaps names them) that binds a keycode left without *)
(* a layout to a keysym of its own.  Its core keyboard-mapping change      *)
(* reaches this client as a MappingNotify, which                           *)
(* is_xkb_mapping_notify_event does not match, so only a later XKB         *)
(* NewKeyboardNotify reloads the tables; reload_keymaps then records the   *)
(* foreign keysym in the scratch entry but keeps the keycode in the pool.  *)
(***************************************************************************)
EXTENDS MCKeymapEngine

VARIABLE foreign   \* the bindings other clients made: a set of <<keycode, keysym>>

fvars == <<vars, foreign>>

\* The keysym the other client binds (also one this client may type).
ForeignSyms == {"y"}

InitF == Init /\ foreign = {}

\* Another client maps a keycode that has no layout (what it sees of it)
\* to its own keysym.
foreign_rebind(k, s) ==
    /\ ~HasLayout(kmap, k)
    /\ kmap' = [kmap EXCEPT ![k] = [l \in Levels |-> s]]
    /\ foreign' = foreign \cup {<<k, s>>}
    /\ UNCHANGED <<down, codes, bindings, idx, resets, lastPress>>

NextF ==
    \/ Next /\ UNCHANGED foreign
    \/ \E k \in Keycodes, s \in ForeignSyms : foreign_rebind(k, s)

SpecF == InitF /\ [][NextF]_fvars

\* A keycode another client bound keeps that client's keysym: this client
\* neither remaps it for its own keysym nor resets it to NoSymbol (the
\* comment at reload_keymaps: "in the case if some other app like x11vnc
\* ... rebinded this keycode").
ForeignBindingPreserved ==
    \A b \in foreign : kmap[b[1]][0] = b[2]
=============================================================================
