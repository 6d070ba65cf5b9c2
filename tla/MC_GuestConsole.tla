--------------------------- MODULE MC_GuestConsole ---------------------------
(* Texts with both kinds of shift and one that cannot be typed, chords, clicks
   inside and outside the screen, captures with and without an expectation. *)
EXTENDS GuestConsole, TLC
McJobs ==
    {[kind |-> "text", text |-> t] : t \in {<<"A", "2", "quote">>, <<"a", "backslash">>, <<"@", "apostrophe">>}}
    \cup {[kind |-> "key", keys |-> k] : k \in {<<"ctrl", "alt", "delete">>, <<"a">>, <<"ctrl", "f13">>}}
    \cup {[kind |-> "click", x |-> x, button |-> "left", press |-> TRUE] : x \in {-2, 2, 5, 900}}
    \cup {[kind |-> "click", x |-> 3, button |-> "thumb", press |-> TRUE],
          [kind |-> "click", x |-> 3, button |-> "left", press |-> FALSE]}
    \cup {[kind |-> "capture", expect |-> e] : e \in {0, 640}}
\* The characters input.rs has keys for that a UK keyboard has elsewhere.
McUsJobs == {[kind |-> "text", text |-> <<ch>>] : ch \in {"#", "|", "~"}}
=============================================================================
