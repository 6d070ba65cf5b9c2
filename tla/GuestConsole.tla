----------------------------- MODULE GuestConsole -----------------------------
(***************************************************************************)
(* `wvm vm input` and `wvm vm capture`: keys, text and clicks sent to the  *)
(* guest as emulated hardware over QMP, and the screendump both the        *)
(* pictures and the pointer arithmetic come from (input.rs, the input half *)
(* of supervisor.rs's Qmp, and two arms of run_vm).                        *)
(*                                                                         *)
(* The hardware keeps state that outlives a command: what is held down,    *)
(* and where the pointer is.  QEMU's monitor serves one client at a time   *)
(* and applies the events of one input-send-event together.  The guest     *)
(* reads the pointer's axis in its own time and may change its resolution. *)
(* One axis is modelled; the other is treated alike.                       *)
(***************************************************************************)
EXTENDS Integers, Sequences

CONSTANTS
    Commands,   \* wvm processes
    Jobs,       \* what each may have been asked to do
    Widths,     \* horizontal resolutions of the guest
    Nobody

IsSequence(s) == s \in Seq({s[i] : i \in DOMAIN s})

ConsoleAssumption ==
    /\ Widths \subseteq Nat \ {0} /\ Nobody \notin Commands
    /\ \A j \in Jobs :
          \/ j.kind = "text" /\ IsSequence(j.text)
          \/ j.kind = "key" /\ IsSequence(j.keys)
          \/ j.kind = "click" /\ j.x \in Int /\ j.press \in BOOLEAN
          \/ j.kind = "capture" /\ j.expect \in Nat
ASSUME ConsoleAssumption

VARIABLES
    job, at,
    todo,       \* input-send-event calls still to be made
    result,
    got,        \* keys the guest saw pressed, each with what was held then
    landed,     \* where the guest saw a button go down
    monitor,    \* the client of QEMU's monitor
    held,       \* keys and buttons that are down
    axis,       \* the last absolute position sent
    pointer,    \* the one the guest has applied
    width,      \* of the guest's screen
    stale,      \* commands during which the resolution changed
    interrupted \* a call that is one of several has failed

cmdVars == <<job, at, todo, result, got, landed>>
deviceVars == <<monitor, held, axis, pointer, width, stale, interrupted>>
vars == <<cmdVars, deviceVars>>

Scale == 32767  \* 0x7fff
Rejection == <<[op |-> "refused"]>>

-----------------------------------------------------------------------------
(* input.rs: from characters to keys.  Some characters go by their names.  *)

Letters == [c \in {"A", "B"} |-> IF c = "A" THEN "a" ELSE "b"]
Unshifted == {"a", "b", "0", "1", "2", "3", "4", "5", "6", "7", "8", "9"}

PLAIN ==
    {<<"space", "spc">>, <<"-", "minus">>, <<"=", "equal">>, <<"[", "bracket_left">>,
     <<"]", "bracket_right">>, <<"semicolon", "semicolon">>, <<"apostrophe", "apostrophe">>,
     <<"comma", "comma">>, <<".", "dot">>, <<"/", "slash">>, <<"grave", "grave_accent">>}

SHIFTED ==
    {<<"!", "1">>, <<"@", "apostrophe">>, <<"#", "3">>, <<"$", "4">>, <<"%", "5">>,
     <<"^", "6">>, <<"&", "7">>, <<"*", "8">>, <<"(", "9">>, <<")", "0">>,
     <<"underscore", "minus">>, <<"+", "equal">>,
     <<"brace_left", "bracket_left">>, <<"brace_right", "bracket_right">>,
     <<"|", "backslash">>, <<":", "semicolon">>, <<"quote", "2">>, <<"<", "comma">>,
     <<">", "dot">>, <<"?", "slash">>, <<"~", "grave_accent">>}

Characters(table) == {row[1] : row \in table}

Lookup(table, ch) ==
    LET row == CHOOSE row \in table : row[1] = ch IN row[2]

\* The key and the modifiers of a character; a character of no table is refused.
Typable(ch) == ch \in Unshifted \cup DOMAIN Letters \cup Characters(PLAIN) \cup Characters(SHIFTED)

KeyOf(ch) ==
    CASE ch \in Unshifted -> ch
      [] ch \in DOMAIN Letters -> Letters[ch]
      [] ch \in Characters(PLAIN) -> Lookup(PLAIN, ch)
      [] OTHER -> Lookup(SHIFTED, ch)

Modifiers(ch) ==
    IF ch \in DOMAIN Letters \cup Characters(SHIFTED) THEN <<"shift">> ELSE <<>>

NAMED_KEYS == {"ret", "esc", "tab", "spc", "backspace", "delete", "up", "down", "left", "right",
               "home", "end", "pgup", "pgdn", "ctrl", "ctrl_r", "shift", "shift_r", "alt",
               "alt_r", "meta_l", "meta_r"}

\* parse_chord(): names, or single characters.
ChordOK(keys) == keys # <<>> /\ \A i \in DOMAIN keys : keys[i] \in NAMED_KEYS \cup Unshifted

-----------------------------------------------------------------------------
(* One input-send-event call is a sequence of presses and releases.        *)

Down(keys) == [i \in DOMAIN keys |-> [key |-> keys[i], down |-> TRUE]]
Up(keys) == [i \in DOMAIN keys |-> [key |-> keys[Len(keys) + 1 - i], down |-> FALSE]]
Keys(events) == [op |-> "keys", events |-> events]

\* send_key_event(), pressed and released: two calls for each character.
TypeWith(text, modifiers(_), release(_)) ==
    [i \in 1 .. 2 * Len(text) |->
        LET ch == text[(i + 1) \div 2]
            keys == Append(modifiers(ch), KeyOf(ch))
        IN Keys(IF i % 2 = 1 THEN Down(keys) ELSE release(keys))]

TranslateWith(text, modifiers(_), release(_)) ==
    IF \A i \in DOMAIN text : Typable(text[i])
    THEN TypeWith(text, modifiers, release)
    ELSE Rejection

\* Variant: shift is pressed for upper case only.
TranslateUnshifted(text) ==
    TranslateWith(text, LAMBDA ch : IF ch \in DOMAIN Letters THEN <<"shift">> ELSE <<>>, Up)

\* Variant: each character is translated when its turn comes.
TranslateAsItGoes(text) ==
    LET bad == {i \in DOMAIN text : ~Typable(text[i])}
    IN IF bad = {} THEN TypeWith(text, Modifiers, Up)
       ELSE LET first == CHOOSE i \in bad : \A j \in bad : i <= j
            IN TypeWith(SubSeq(text, 1, first - 1), Modifiers, Up) \o Rejection

Translate(text) == TranslateWith(text, Modifiers, Up)

\* send_chord(): one call, every modifier held across the last key.
\* Variant: the keys are tapped one after another.
ChordTaps(keys) ==
    IF ChordOK(keys)
    THEN <<Keys([i \in 1 .. 2 * Len(keys) |-> [key |-> keys[(i + 1) \div 2], down |-> i % 2 = 1]])>>
    ELSE Rejection

\* Variant: a call for each half.
ChordHalves(keys) ==
    IF ChordOK(keys) THEN <<Keys(Down(keys)), Keys(Up(keys))>> ELSE Rejection

Chord(keys) == IF ChordOK(keys) THEN <<Keys(Down(keys) \o Up(keys))>> ELSE Rejection

\* send_pointer_move(): the coordinate is scaled to the width just read, and
\* clamped.  The division truncates towards zero, and the clamp hides that.
Clamped(v) == IF v < 0 THEN 0 ELSE IF v > Scale THEN Scale ELSE v

Scaled(x, w) == IF x < 0 THEN 0 ELSE Clamped((x * Scale) \div w)

Buttons == [left |-> "btn_left", right |-> "btn_right", middle |-> "btn_middle"]

\* The button's name is looked at when it is sent, after the pointer has moved.
Press(b) ==
    IF b \in DOMAIN Buttons THEN <<Keys(Down(<<Buttons[b]>>)), Keys(Up(<<Buttons[b]>>))>>
    ELSE Rejection

\* Variant: no pause between the move and the button.
ClickAtOnce(j, w) ==
    <<[op |-> "move", to |-> Scaled(j.x, w)]>> \o (IF j.press THEN Press(j.button) ELSE <<>>)

Click(j, w) ==
    <<[op |-> "move", to |-> Scaled(j.x, w)], [op |-> "settle"]>>
    \o (IF j.press THEN Press(j.button) ELSE <<>>)

-----------------------------------------------------------------------------
Init ==
    /\ job \in [Commands -> Jobs]
    /\ at = [c \in Commands |-> "begin"]
    /\ todo = [c \in Commands |-> <<>>]
    /\ result = [c \in Commands |-> "none"]
    /\ got = [c \in Commands |-> <<>>]
    /\ landed = [c \in Commands |-> -1]
    /\ monitor = Nobody /\ held = {}
    /\ axis = 0 /\ pointer = 0
    /\ width \in Widths
    /\ stale = {} /\ interrupted = FALSE

\* The process ends, and its connection with it.
End(c, answer) ==
    /\ at' = [at EXCEPT ![c] = "done"]
    /\ result' = [result EXCEPT ![c] = answer]
    /\ monitor' = IF monitor = c THEN Nobody ELSE monitor

\* The VM is not running, or the monitor does not answer within the timeout.
Unreachable(c) ==
    /\ at[c] = "begin"
    /\ End(c, "failed")
    /\ UNCHANGED <<job, todo, got, landed, held, axis, pointer, width, stale, interrupted>>

\* Qmp::connect, then what the job needs before its first input event.
Connect(c) ==
    /\ at[c] = "begin" /\ monitor = Nobody
    /\ LET calls == IF job[c].kind = "text" THEN Translate(job[c].text)
                    ELSE IF job[c].kind = "key" THEN Chord(job[c].keys) ELSE <<>>
       IN /\ todo' = [todo EXCEPT ![c] = calls]
          /\ at' = [at EXCEPT ![c] =
                       IF job[c].kind \in {"click", "capture"} THEN "dump" ELSE "send"]
          /\ monitor' = c
    /\ UNCHANGED <<job, result, got, landed, held, axis, pointer, width, stale, interrupted>>

\* query_screen_size(), or the picture itself; parse_geometry's expectation is
\* compared with the header of the picture.
Screendump(c) ==
    /\ at[c] = "dump"
    /\ IF job[c].kind = "click"
       THEN /\ todo' = [todo EXCEPT ![c] = Click(job[c], width)]
            /\ at' = [at EXCEPT ![c] = "send"]
            /\ UNCHANGED <<result, monitor>>
       ELSE /\ End(c, IF job[c].expect \in {0, width} THEN "ok" ELSE "failed")
            /\ UNCHANGED todo
    /\ UNCHANGED <<job, got, landed, held, axis, pointer, width, stale, interrupted>>

ScreendumpFails(c) ==
    /\ at[c] = "dump"
    /\ End(c, "failed")
    /\ UNCHANGED <<job, todo, got, landed, held, axis, pointer, width, stale, interrupted>>

\* External: what the guest makes of a position.
PixelAt(position, w) == (position * w) \div (Scale + 1)

\* External: QEMU hands the events of one call to the guest, in order.
HeldAfter(events) ==
    LET h[i \in 0 .. Len(events)] ==
            IF i = 0 THEN held
            ELSE IF events[i].down THEN h[i - 1] \cup {events[i].key}
                 ELSE h[i - 1] \ {events[i].key}
    IN h

Pressed(events) ==
    LET h == HeldAfter(events)
        p[i \in 0 .. Len(events)] ==
            IF i = 0 THEN <<>>
            ELSE IF events[i].down
                 THEN Append(p[i - 1], [key |-> events[i].key, with |-> h[i - 1]])
                 ELSE p[i - 1]
    IN p[Len(events)]

Apply(c, call) ==
    \/ /\ call.op = "keys"
       /\ held' = HeldAfter(call.events)[Len(call.events)]
       /\ got' = [got EXCEPT ![c] = @ \o Pressed(call.events)]
       /\ landed' = IF /\ call.events[1].down
                       /\ \E b \in DOMAIN Buttons : call.events[1].key = Buttons[b]
                    THEN [landed EXCEPT ![c] = PixelAt(pointer, width)] ELSE landed
       /\ UNCHANGED axis
    \/ call.op = "move" /\ axis' = call.to /\ UNCHANGED <<held, got, landed>>

\* An error, or no reply in time: the call may have been carried out or not.
SendFails(c) ==
    /\ at[c] = "send" /\ todo[c] # <<>>
    /\ Head(todo[c]).op \in {"keys", "move"}
    /\ End(c, "failed")
    /\ \/ Apply(c, Head(todo[c]))
       \/ UNCHANGED <<got, landed, held, axis>>
    /\ interrupted' = (interrupted \/ job[c].kind # "key")
    /\ UNCHANGED <<job, todo, pointer, width, stale>>

Send(c) ==
    /\ at[c] = "send" /\ todo[c] # <<>>
    /\ Head(todo[c]).op \in {"keys", "move"}
    /\ Apply(c, Head(todo[c]))
    /\ todo' = [todo EXCEPT ![c] = Tail(@)]
    /\ UNCHANGED <<job, at, result, monitor, pointer, width, stale, interrupted>>

\* translate(), parse_chord() or the button's name says no.
Refuse(c) ==
    /\ at[c] = "send" /\ todo[c] = Rejection
    /\ End(c, "refused")
    /\ UNCHANGED <<job, todo, got, landed, held, axis, pointer, width, stale, interrupted>>

\* 60 ms, in which the guest is taken to have read the axis.
Settle(c) ==
    /\ at[c] = "send" /\ todo[c] # <<>> /\ Head(todo[c]).op = "settle"
    /\ pointer = axis
    /\ todo' = [todo EXCEPT ![c] = Tail(@)]
    /\ UNCHANGED <<job, at, result, got, landed, deviceVars>>

Finish(c) ==
    /\ at[c] = "send" /\ todo[c] = <<>>
    /\ End(c, "ok")
    /\ UNCHANGED <<job, todo, got, landed, held, axis, pointer, width, stale, interrupted>>

GuestReadsAxis ==
    /\ pointer # axis
    /\ pointer' = axis
    /\ UNCHANGED <<cmdVars, monitor, held, axis, width, stale, interrupted>>

GuestResizes(w) ==
    /\ width' = w /\ w # width
    /\ stale' = stale \cup {c \in Commands : at[c] = "send"}
    /\ UNCHANGED <<cmdVars, monitor, held, axis, pointer, interrupted>>

-----------------------------------------------------------------------------
Step(c) ==
    \/ Unreachable(c) \/ Connect(c) \/ Screendump(c) \/ ScreendumpFails(c)
    \/ Send(c) \/ SendFails(c) \/ Refuse(c) \/ Settle(c) \/ Finish(c)

Guest == GuestReadsAxis \/ \E w \in Widths : GuestResizes(w)

Next == (\E c \in Commands : Step(c)) \/ Guest

Spec == Init /\ [][Next]_vars

-----------------------------------------------------------------------------
(* External: the keys of a UK keyboard, each with its legends, shift up and *)
(* down.                                                                   *)

Keyboard ==
    {<<"a", "a", "A">>, <<"b", "b", "B">>, <<"1", "1", "!">>, <<"2", "2", "quote">>,
     <<"3", "3", "pound">>, <<"4", "4", "$">>, <<"5", "5", "%">>, <<"6", "6", "^">>,
     <<"7", "7", "&">>, <<"8", "8", "*">>, <<"9", "9", "(">>, <<"0", "0", ")">>,
     <<"minus", "-", "underscore">>, <<"equal", "=", "+">>, <<"bracket_left", "[", "brace_left">>,
     <<"bracket_right", "]", "brace_right">>, <<"semicolon", "semicolon", ":">>,
     <<"apostrophe", "apostrophe", "@">>, <<"comma", "comma", "<">>, <<"dot", ".", ">">>,
     <<"slash", "/", "?">>, <<"backslash", "#", "~">>,
     <<"grave_accent", "grave", "not_sign">>, <<"spc", "space", "space">>}

Legend(key, shift) ==
    LET row == CHOOSE row \in Keyboard : row[1] = key
    IN IF shift THEN row[3] ELSE row[2]

-----------------------------------------------------------------------------
(* Properties.                                                             *)

KeyNames ==
    NAMED_KEYS \cup Unshifted \cup {row[2] : row \in PLAIN \cup SHIFTED}
    \cup {Buttons[b] : b \in DOMAIN Buttons}

Event == [key : KeyNames, down : BOOLEAN]
Call ==
    [op : {"keys"}, events : Seq(Event)] \cup [op : {"move"}, to : 0 .. Scale]
    \cup [op : {"settle", "refused"}]
Stroke == [key : KeyNames, with : SUBSET KeyNames]

TypeOK ==
    /\ job \in [Commands -> Jobs]
    /\ at \in [Commands -> {"begin", "dump", "send", "done"}]
    /\ todo \in [Commands -> Seq(Call)]
    /\ result \in [Commands -> {"none", "ok", "failed", "refused"}]
    /\ got \in [Commands -> Seq(Stroke)]
    /\ landed \in [Commands -> Nat \cup {-1}]
    /\ monitor \in Commands \cup {Nobody} /\ held \in SUBSET KeyNames
    /\ axis \in 0 .. Scale /\ pointer \in 0 .. Scale
    /\ width \in Widths /\ stale \subseteq Commands /\ interrupted \in BOOLEAN

\* No command leaves a key or a button down for the next one to suffer from,
\* unless one of several calls failed; a chord is one call and never does.
NothingLeftHeld == monitor = Nobody /\ ~interrupted => held = {}

\* What a text editor in the guest makes of the strokes.
Typed(strokes) ==
    LET typed[i \in 0 .. Len(strokes)] ==
            IF i = 0 THEN <<>>
            ELSE IF strokes[i].key = "shift" THEN typed[i - 1]
            ELSE Append(typed[i - 1], Legend(strokes[i].key, "shift" \in strokes[i].with))
    IN typed[Len(strokes)]

\* What a chord is for: its last key goes down while the others, and they
\* alone, are held.
Struck(c) ==
    LET keys == job[c].keys
    IN [key |-> keys[Len(keys)], with |-> {keys[i] : i \in 1 .. Len(keys) - 1}]

\* The guest sees what it was sent, whatever other commands ran before and
\* between: text character for character, translate's keys meaning on the
\* guest's layout what they were chosen for, and a chord as one stroke.
KeysArrive ==
    \A c \in Commands : result[c] = "ok" /\ ~interrupted =>
        /\ job[c].kind = "text" => Typed(got[c]) = job[c].text
        /\ job[c].kind = "key" => got[c][Len(got[c])] = Struck(c)

\* A text or chord that cannot be sent whole is not sent in part.
RefusedSendsNothing ==
    \A c \in Commands :
        job[c].kind \in {"text", "key"} /\ result[c] = "refused" => got[c] = <<>>

\* A button goes down within a pixel of where it was asked for, or at the edge
\* nearest to it, unless the resolution changed under the command.
ClickLands ==
    \A c \in Commands : result[c] = "none" /\ landed[c] >= 0 /\ c \notin stale =>
        LET x == job[c].x
            wanted == IF x < 0 THEN 0 ELSE IF x >= width THEN width - 1 ELSE x
        IN landed[c] - wanted \in -1 .. 1
=============================================================================
