------------------------------ MODULE MCArbos ------------------------------
(* Instances of Arbos.  A run follows one theme, so that the calls about     *)
(* upgrades, features and prices are not multiplied with one another; blocks *)
(* and upgrades at their start belong to all of them.                        *)
EXTENDS Arbos, TLC

VARIABLE theme

MCParamChoices == {<<"stackDepth", 30000>>, <<"stackDepth", 100>>, <<"cap", 7>>,
                   <<"brotli", 5>>, <<"initScalar", 601>>}
MCPricingChoices == {<<"baseFee", 1>>, <<"minBaseFee", 5>>, <<"speed", 1>>, <<"inertia", 700>>,
                     <<"tolerance", 0>>, <<"backlog", 90>>}
MCConstraint(target, window, backlog) == [target |-> target, window |-> window, backlog |-> backlog]
\* The second divisor, 600, is negative as an i64.
MCWrapped == <<MCConstraint(1, 100, 62), MCConstraint(2, 300, 56)>>
MCConstraintLists == {<<>>, <<MCConstraint(1, 4, 0), MCConstraint(2, 9, 60)>>,
                      <<MCConstraint(3, 2, 0), MCConstraint(1, 0, 0)>>, MCWrapped}
MCMultiLists == {<<>>, <<MultiConstraint(2, 3, 30, [k \in Kinds |-> IF k = SingleDim THEN 1 ELSE 2])>>}

\* Calls that only the theme of features makes use of.
Held == 1

MCSymmetry == Permutations(Accounts)

MCInit ==
    /\ Init
    /\ \/ theme = "upgrades"
       \/ theme = "governs" /\ version = 60 /\ l2.multi = <<>>
       \/ theme = "prices" /\ version \in {1, 50, 51, 60}

MCNext ==
    /\ UNCHANGED theme
    /\ \/ Blocks
       \/ theme = "upgrades" /\ calls > Held /\ Upgrades
       \/ theme = "governs" /\ Governs
       \/ theme = "prices" /\ calls > Held /\ Prices

MCSpec == MCInit /\ [][MCNext]_<<vars, theme>>
=============================================================================
