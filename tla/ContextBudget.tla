--------------------------- MODULE ContextBudget ---------------------------
(***************************************************************************)
(* _manage_context_budget(): the messages of a conversation that go to the *)
(* model.  Pinned and active ones always do, or the request is refused;    *)
(* the rest is history, of which one window that ends at its newest        *)
(* message is kept.  A message is its class and its estimated tokens.      *)
(***************************************************************************)
EXTENDS Integers, Sequences, FiniteSetsExt

Classes == {"pinned", "active", "history"}

PinnedIn(msgs) == {i \in DOMAIN msgs : msgs[i].class = "pinned"}

\* The final turn is active whatever its class
ActiveIn(msgs) ==
    ({i \in DOMAIN msgs : msgs[i].class = "active"} \cup {Len(msgs)}) \ PinnedIn(msgs)

Required(msgs) == PinnedIn(msgs) \cup ActiveIn(msgs)

History(msgs) == DOMAIN msgs \ Required(msgs)

Tokens(msgs, turns) == SumFunctionOnSet([i \in DOMAIN msgs |-> msgs[i].tokens], turns)

Overflows(msgs, effective) == Tokens(msgs, Required(msgs)) > effective

\* variant: a message that does not fit is passed over
PassedOver(scan, tokens) == [scan EXCEPT !.open = TRUE]

\* break, at the first message that does not fit
Closed(scan, tokens) == [scan EXCEPT !.open = FALSE]

\* The loop's body, for a message of the history
Seen(msgs, i, scan) ==
    LET tokens == msgs[i].tokens
    IN  IF i \notin History(msgs) \/ ~scan.open THEN scan
        ELSE IF tokens > scan.left THEN Closed(scan, tokens)
        ELSE [keep |-> scan.keep \cup {i}, left |-> scan.left - tokens, open |-> TRUE]

\* The loop over the history, newest first: scan[i] is its state once it has
\* seen the messages from i on
Window(msgs, remaining) ==
    LET scan[i \in 1..(Len(msgs) + 1)] ==
            IF i > Len(msgs) THEN [keep |-> {}, left |-> remaining, open |-> TRUE]
            ELSE Seen(msgs, i, scan[i + 1])
    IN  scan[1].keep

Kept(msgs, effective) ==
    Required(msgs) \cup Window(msgs, effective - Tokens(msgs, Required(msgs)))

-----------------------------------------------------------------------------
(* Properties *)

\* kept is what the docstring promises: every pinned and active message, within
\* the budget, and of the history a contiguous recent window that no older
\* message could extend.
KeepsTheRecent(msgs, effective, kept) ==
    LET older == History(msgs) \ kept
    IN  /\ Required(msgs) \subseteq kept /\ kept \subseteq DOMAIN msgs
        /\ Tokens(msgs, kept) <= effective
        /\ \A i \in older, j \in History(msgs) \cap kept : i < j
        /\ older # {} => Tokens(msgs, kept \cup {Max(older)}) > effective
=============================================================================
