----------------------------- MODULE Traversal ------------------------------
(***************************************************************************)
(* What a client that follows the cursor to the end is promised, without   *)
(* pages, keys, limits or clocks: nothing is shown to it twice, and when   *)
(* it is told that there is no more it has seen everything that was there  *)
(* when it began.  Orders placed meanwhile may be shown or not.            *)
(***************************************************************************)
EXTENDS Naturals

CONSTANTS Orders, Clients

VARIABLES
    visible,  \* visible[c]: orders that exist and that client c may see
    due,      \* due[c]: those that existed when its traversal began
    shown,    \* shown[c][o]: how often c was shown o
    state     \* state[c]: idle, next, over, or cut when an answer was cut off

vars == <<visible, due, shown, state>>

Seen(c) == {o \in Orders : shown[c][o] > 0}

Init ==
    /\ visible = [c \in Clients |-> {}]
    /\ due     = [c \in Clients |-> {}]
    /\ shown   = [c \in Clients |-> [o \in Orders |-> 0]]
    /\ state   = [c \in Clients |-> "idle"]

Place ==
    /\ visible' \in [Clients -> SUBSET Orders]
    /\ \A c \in Clients : visible[c] \subseteq visible'[c]
    /\ UNCHANGED <<due, shown, state>>

Show(c) ==
    \E page \in SUBSET (visible[c] \ Seen(c)), outcome \in {"next", "over", "cut"} :
        /\ state[c] \in {"idle", "next"}
        /\ due' = IF state[c] = "idle" THEN [due EXCEPT ![c] = visible[c]] ELSE due
        /\ shown' = [shown EXCEPT ![c] =
                        [o \in Orders |-> IF o \in page THEN @[o] + 1 ELSE @[o]]]
        /\ state' = [state EXCEPT ![c] = outcome]
        /\ outcome = "over" => due'[c] \subseteq Seen(c) \cup page
        /\ UNCHANGED visible

Next == Place \/ \E c \in Clients : Show(c)

Spec == Init /\ [][Next]_vars

=============================================================================
