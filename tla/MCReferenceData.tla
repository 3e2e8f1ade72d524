--------------------------- MODULE MCReferenceData ---------------------------
(***************************************************************************)
(* TLC instances of ReferenceData: one configuration and what an operator  *)
(* may make of it, by mistake or not.                                      *)
(***************************************************************************)
EXTENDS ReferenceData

On == [enabled |-> TRUE]
UsdCad == <<"USD", "CAD">>
Fx(symbol) == [dataset |-> "valet", symbol |-> symbol, pair |-> UsdCad, enabled |-> TRUE]
Rate(economy) ==
    [dataset |-> "bis", symbol |-> economy, economy |-> economy, currency |-> "USD", enabled |-> TRUE]
Dataset(days) == [enabled |-> TRUE, approved |-> TRUE, retained |-> TRUE, maxDays |-> days]

Base ==
    [currencies |-> [c \in {"USD", "CAD"} |-> On],
     economies |-> [e \in {"US", "EC"} |-> On],
     relationships |-> {[economy |-> e, currency |-> "USD", from |-> 1, to |-> 9] : e \in {"US", "EC"}},
     pairs |-> [s \in {UsdCad} |-> [base |-> "USD", quote |-> "CAD", enabled |-> TRUE]],
     datasets |-> [d \in {"valet", "bis"} |-> Dataset(2)],
     fx |-> [s \in {"fx"} |-> Fx("FXUSDCAD")],
     rates |-> [s \in {"us", "ec"} |-> IF s = "us" THEN Rate("US") ELSE Rate("EC")],
     policies |-> [s \in {"fx", "us", "ec"} |-> "business"],
     calendars |-> {"business"}]

\* Changes after which the configuration is valid.
Moved == [Base EXCEPT !.fx["fx"].symbol = "FXUSDCADX"]
Withdrawn == [Base EXCEPT !.datasets["valet"].approved = FALSE]
Shorter == [Base EXCEPT !.datasets["bis"].maxDays = 1, !.datasets["valet"].maxDays = 1]
Dropped ==
    [Base EXCEPT !.rates = [s \in {"us"} |-> Rate("US")], !.economies = [e \in {"US"} |-> On],
                 !.relationships = {x \in Base.relationships : x.economy = "US"},
                 !.policies = [s \in {"fx", "us"} |-> "business"]]
Off == [Base EXCEPT !.pairs[UsdCad].enabled = FALSE, !.fx["fx"].enabled = FALSE,
                    !.datasets["valet"].enabled = FALSE]

\* Changes after which it is not.
PairOff == [Base EXCEPT !.pairs[UsdCad].enabled = FALSE]
NoEconomy == [Dropped EXCEPT !.rates = [Base.rates EXCEPT !["ec"].enabled = FALSE]]
NoPolicy == [Base EXCEPT !.policies = [s \in {"fx"} |-> "business"]]
Twice == [Base EXCEPT !.rates["ec"].symbol = "US"]
Endless == [Base EXCEPT !.relationships = @ \cup {[economy |-> "US", currency |-> "USD", from |-> 5, to |-> 99]}]

MCConfigurations ==
    {Base, Moved, Withdrawn, Shorter, Dropped, Off, PairOff, NoEconomy, NoPolicy, Twice, Endless}

MCCommands ==
    {[dataset |-> "valet", days |-> 2, asked |-> {}],
     [dataset |-> "bis", days |-> 3, asked |-> {}],
     [dataset |-> "bis", days |-> 2, asked |-> {}],
     [dataset |-> "bis", days |-> 2, asked |-> {"ec"}]}
==============================================================================
