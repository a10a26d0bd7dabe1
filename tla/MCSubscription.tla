--------------------------- MODULE MCSubscription ---------------------------
(* Two accounts and a purchase of either store: of all purchases of the    *)
(* instance one is still good at the start.  An instance with one purchase *)
(* of each store is thus that of a Play purchase beside an expired Apple   *)
(* one, and that of the reverse.  Either two purchase calls or             *)
(* notification handlers overlap, the stores change once and nothing fails,*)
(* or there is one at a time and changes and failures as often as the      *)
(* bounds allow; the nightly jobs interleave with both.                    *)
EXTENDS Subscription, FiniteSets

CONSTANT First        \* the call there is when none overlap

VARIABLE overlap      \* calls may overlap in this behaviour

MCInit ==
    /\ Init /\ Cardinality({t \in Tokens : store[t] = "active"}) = 1
    /\ overlap \in BOOLEAN

\* No fair step is left out: only failures, changes at the stores and new calls.
MCNext ==
    /\ Next /\ UNCHANGED overlap
    /\ overlap  => clock' <= 1 /\ UNCHANGED failures
    /\ ~overlap => \A p \in Calls \ {First} : call'[p] = Idle

MCSpec == MCInit /\ [][MCNext]_<<vars, overlap>> /\ Fairness
=============================================================================
