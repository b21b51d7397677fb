------------------------- MODULE MCMigrationScript --------------------------
(* One silence with a matcher of each kind of isEqual.                      *)
EXTENDS MigrationScript

MCMatcher(value, isEqual) ==
  [name |-> "severity", value |-> value, isRegex |-> FALSE, isEqual |-> isEqual]

MCItems ==
  <<[object |-> [api |-> "v1alpha1", namespace |-> <<>>, name |-> <<"a">>],
     spec |-> [matchers |-> <<MCMatcher("page", Unset), MCMatcher("notify", FALSE)>>,
               validUntil |-> [layout |-> "absent", at |-> 0]]]>>

MCNamespace == <<"team">>
=============================================================================
