------------------------------ MODULE MCLockstep ------------------------------
(* Small matches, each with parameters of its own, for model checking.       *)
EXTENDS Lockstep

CONSTANTS a, b, c, d,   \* pads
          m1, m2        \* start identities

\* Every tick of every player has a pad of its own; a player that has none for
\* a tick never publishes it
OwnPads(n) == [p \in Peer |-> [t \in 0..(n - 1) |->
                  IF p = "alpha" THEN IF t = 0 THEN {a} ELSE {b}
                  ELSE IF t = 0 THEN {c} ELSE {d}]]

\* The players always produce the same pad
SamePad == [p \in Peer |-> [t \in 0..1 |-> {a}]]

\* alpha's player may change its mind about tick 0
TwoPads == [p \in Peer |-> [t \in {0} |-> IF p = "alpha" THEN {a, b} ELSE {c}]]

OneByOne(n) == {{t} : t \in 0..(n - 1)}
NoOverride == [p \in Peer |-> {Nothing}]
DeferNone  == [p \in Peer |-> {}]

\* The input exchange of two ticks over an ordered, reliable transport, added
\* in any order and batching, sent at once or held back. The engines run no
\* frame, so no checksum is exchanged.
Exchange ==
    [sample |-> OwnPads(2), overrides |-> NoOverride,
     deferTicks |-> [p \in Peer |-> 0..1], agreement |-> {m1},
     inputTicks |-> 2, delay |-> 1, window |-> 2, maxBatch |-> 2, maxPending |-> 99,
     batches |-> (SUBSET (0..1)) \ {{}}, inOrder |-> FALSE, ordered |-> TRUE,
     faults |-> {}, maxCalls |-> 9, maxRepeats |-> 0, maxCursor |-> 0]

\* A transport that delivers any packet at any time and as often as it likes.
\* beta's player stops after its first tick.
Reorder ==
    [Exchange EXCEPT
        !.sample["beta"] = [t \in 0..1 |-> IF t = 0 THEN {c} ELSE {}],
        !.deferTicks = DeferNone, !.batches = OneByOne(2), !.inOrder = TRUE,
        !.ordered = FALSE, !.maxCalls = 1]

\* Peers that agree or not, a caller that changes a published pad, and every
\* fault of the platform, with a receive queue of two messages.
Faulty ==
    [sample |-> TwoPads, overrides |-> NoOverride, deferTicks |-> DeferNone,
     agreement |-> {m1, m2},
     inputTicks |-> 1, delay |-> 1, window |-> 2, maxBatch |-> 2, maxPending |-> 2,
     batches |-> {{0}}, inOrder |-> FALSE, ordered |-> TRUE,
     faults |-> {"hash", "push", "observer", "transport"},
     maxCalls |-> 1, maxRepeats |-> 2, maxCursor |-> 0]

\* alpha's engine may get another pad than the one alpha publishes, at either
\* of two frames; both engines run, and records are exchanged.
Desync ==
    [sample |-> SamePad,
     overrides |-> [p \in Peer |-> IF p = "beta" THEN {Nothing}
                                   ELSE {[t \in 0..1 |-> IF t = u THEN b ELSE a] : u \in 0..1}],
     deferTicks |-> DeferNone, agreement |-> {m1},
     inputTicks |-> 2, delay |-> 0, window |-> 2, maxBatch |-> 2, maxPending |-> 99,
     batches |-> {0..1}, inOrder |-> TRUE, ordered |-> TRUE,
     faults |-> {}, maxCalls |-> 1, maxRepeats |-> 0, maxCursor |-> 2]

\* Callers that add three ticks in order, beta's holding back its first, against
\* a window and a batch of one: the bounds of the protocol are met exactly.
Narrow ==
    [sample |-> OwnPads(3), overrides |-> NoOverride,
     deferTicks |-> [p \in Peer |-> IF p = "beta" THEN {0} ELSE {}], agreement |-> {m1},
     inputTicks |-> 3, delay |-> 0, window |-> 1, maxBatch |-> 1, maxPending |-> 99,
     batches |-> OneByOne(3), inOrder |-> TRUE, ordered |-> TRUE,
     faults |-> {}, maxCalls |-> 1, maxRepeats |-> 0, maxCursor |-> 0]

\* Two frames when a packet carries one row, and no call is repeated.
Live ==
    [sample |-> SamePad, overrides |-> NoOverride, deferTicks |-> DeferNone,
     agreement |-> {m1},
     inputTicks |-> 2, delay |-> 0, window |-> 2, maxBatch |-> 1, maxPending |-> 99,
     batches |-> OneByOne(2), inOrder |-> TRUE, ordered |-> TRUE,
     faults |-> {}, maxCalls |-> 2, maxRepeats |-> 0, maxCursor |-> 0]

ExchangeSetups == [exchange |-> Exchange, reorder |-> Reorder, faulty |-> Faulty]
BoundsSetups   == [desync |-> Desync, narrow |-> Narrow]
LiveSetups     == [live |-> Live]
=============================================================================
