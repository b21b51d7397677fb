------------------------------ MODULE MCEdits -------------------------------
(* Contents of both definitions with the edges of each check: no matchers,  *)
(* no name, expressions that do not compile, matchers that ask for nothing, *)
(* each matchType and each isEqual, empty and long durations, starts and    *)
(* ends around each other, and annotations of every layout.                 *)
EXTENDS Edits

ItemV1 == [api |-> "v1alpha1", namespace |-> <<>>, name |-> <<"a">>]
ItemV2 == [api |-> "v1alpha2", namespace |-> <<"team">>, name |-> <<"b">>]
MCItems == {ItemV1, ItemV2}
MCItemV2 == {ItemV2}

Annotations ==
  {[layout |-> "absent", at |-> 0], [layout |-> "RFC3339", at |-> 1],
   [layout |-> "date", at |-> 0], [layout |-> "other", at |-> 0]}

Lists(M) == {<<m>> : m \in M}

\* A matcher that asks for nothing is accepted beside one that does.
WithPage(M, page) == {<<>>} \cup Lists(M) \cup {<<m, page>> : m \in M}

PageV1 == [name |-> "severity", value |-> "page", isRegex |-> FALSE, isEqual |-> Unset]
MCMatchersV1 ==
  Lists([name : {"severity"}, value : {"page"}, isRegex : BOOLEAN,
         isEqual : {Unset} \cup BOOLEAN])
    \cup WithPage({[PageV1 EXCEPT !.name = ""]}
                   \cup [name : {"severity"}, value : {"", ".*", "("}, isRegex : BOOLEAN,
                         isEqual : {Unset, FALSE}], PageV1)

PageV2 == [name |-> "severity", value |-> "page", matchType |-> "="]
MCMatchersV2 ==
  WithPage({[PageV2 EXCEPT !.name = ""], [PageV2 EXCEPT !.matchType = "like"]}
             \cup [name : {"severity"}, value : {"", ".*", "("}, matchType : MatchTypes],
           PageV2)

Absent == [layout |-> "absent", at |-> 0]

MCSpecsV2(matchers, endsAt, duration, validUntil) ==
  [matchers : matchers, startsAt : {Unset, 0, 1, 9}, endsAt : endsAt,
   duration : duration, validUntil : validUntil]

\* Every list of matchers with the default times, and every time with one list.
MCSpecs ==
  [matchers : MCMatchersV1, validUntil : {Absent}]
    \cup [matchers : {<<PageV1>>}, validUntil : Annotations]
    \cup [matchers : MCMatchersV2, startsAt : {Unset}, endsAt : {Unset},
          duration : {Unset}, validUntil : {Absent}]
    \cup MCSpecsV2({<<PageV2>>}, {Unset}, {Unset}, Annotations)
    \cup MCSpecsV2({<<PageV2>>}, {Unset, 1, 2}, {Unset, Overflow, 0, 1}, {Absent})
=============================================================================
