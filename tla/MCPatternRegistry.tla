-------------------------- MODULE MCPatternRegistry -------------------------
(* Instances of PatternRegistry for TLC: packages that collide with a      *)
(* built-in pattern, with one another and with themselves, one that lists  *)
(* nothing and one that cannot build.                                      *)
EXTENDS PatternRegistry, TLC

CONSTANTS sap, legacy, clumsy, empty, abstract

Packages == {sap, legacy, clumsy, empty, abstract}

TwoBuiltins == {"P01", "P10"}

SomeIds == TwoBuiltins \cup {"X_A", "X_B", "X_C", "X_D"}

Offer(ids, builds) == [ids |-> ids, has_build_runtime |-> builds]

PackageOffers ==
    (sap      :> Offer(<<"X_A", "X_B">>, TRUE))
    @@ (legacy   :> Offer(<<"X_C", "X_B", "X_D">>, TRUE))
    @@ (clumsy   :> Offer(<<"X_D", "P10", "X_A">>, TRUE))
    @@ (empty    :> Offer(<< >>, TRUE))
    @@ (abstract :> Offer(<<"X_C">>, FALSE))

Installations == SUBSET Packages
=============================================================================
