----------------------------- MODULE MCChatStore -----------------------------
(***************************************************************************)
(* ChatStore in a union of scenarios: each names what the browser starts   *)
(* with and how often each input may come; the inputs come in any order,   *)
(* at any time, among all the steps that they cause.                       *)
(***************************************************************************)
EXTENDS ChatStore

CONSTANTS a, b, x

Envelopes == <<a, b, a, a>>

Allow(inputs) == [i \in Inputs |-> IF i \in DOMAIN inputs THEN inputs[i] ELSE 0]

\* A browser that is opened, and a store that shows chat c.
Fresh(caches, last, old, inputs) ==
    [settled |-> FALSE, existing |-> {a, b}, cached |-> caches, pref |-> last, old |-> old,
     left |-> Allow(inputs)]
Showing(c, chats, old, inputs) ==
    [settled |-> TRUE, existing |-> chats, cached |-> {c}, pref |-> c, old |-> old,
     left |-> Allow(inputs)]

\* Selections and an opening overtake each other, in a running store and
\* while it starts, and calls fail.
Selecting ==
    {Showing(a, {a, b}, 0, [select |-> 2, open |-> 1, fail |-> 1]),
     Fresh({a}, a, 1, [select |-> 1, fail |-> 1]),
     Fresh({a}, a, 1, [open |-> 1]),
     Fresh({}, a, 0, [open |-> 1, fail |-> 1]),
     Fresh({}, NoChat, 0, [select |-> 1, start |-> 1, fail |-> 1]),
     Fresh({}, a, 1, [select |-> 1, fail |-> 1]),
     Showing(a, {a, b}, 0, [select |-> 1, fail |-> 2]),
     Showing(a, {a, b}, 0, [search |-> 2, open |-> 1, fail |-> 1])}

\* Mail comes while the store starts, while chats are evicted and read again,
\* while older pages are read, and by events and reloads at once.
Receiving ==
    {Fresh({a}, a, 0, [arrive |-> 1, ready |-> 1]),
     Showing(a, {a, b, x}, 0, [select |-> 3, arrive |-> 1]),
     Showing(b, {a, b, x}, 0, [select |-> 2, arrive |-> 2]),
     Showing(a, {a, b}, 3, [older |-> 2, arrive |-> 1, select |-> 1, fail |-> 1]),
     Showing(a, {a, b}, 1, [arrive |-> 2, ready |-> 2, fail |-> 1]),
     Showing(a, {a, b}, 1, [arrive |-> 2, open |-> 1]),
     Showing(a, {a, b}, 0, [read |-> 2, start |-> 1, fail |-> 1])}

\* The own message among reloads, selections, restarts and a sign-out.
Sending ==
    {Showing(a, {a, b}, 0, [send |-> 1, receipt |-> 1, ready |-> 1, fail |-> 1, retry |-> 1]),
     Showing(a, {a, b}, 0, [send |-> 1, receipt |-> 1, select |-> 2]),
     Showing(a, {a, b}, 0, [send |-> 1, receipt |-> 1, start |-> 1]),
     Showing(a, {a, b}, 0, [send |-> 1, receipt |-> 1, leave |-> 1, ready |-> 1])}

\* The store is replaced, or the session ends, while operations are under way.
Restarting ==
    {Fresh({a}, a, 0, [start |-> 1, arrive |-> 1]),
     Showing(a, {a, b}, 1, [start |-> 1, select |-> 1, search |-> 1]),
     Showing(a, {a, b}, 0, [start |-> 1, arrive |-> 1, ready |-> 1]),
     Showing(a, {a, b}, 1, [leave |-> 1, arrive |-> 1, select |-> 1]),
     Showing(a, {a, b}, 0, [leave |-> 1, open |-> 1])}

Everything == Selecting \cup Receiving \cup Sending \cup Restarting
=============================================================================
