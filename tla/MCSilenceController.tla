------------------------ MODULE MCSilenceController -------------------------
(* Instances of the operator for model checking: one object of each API,    *)
(* a handful of contents, and a clock that passes the end of some of them.  *)
EXTENDS SilenceControllerInv

ObjV1 == [api |-> "v1alpha1", namespace |-> <<>>, name |-> <<"a">>]
ObjV2 == [api |-> "v1alpha2", namespace |-> <<"team">>, name |-> <<"b">>]

NoLabels == <<>>
Labelled(tenant) == [tenant |-> tenant]

Always == [layout |-> "absent", at |-> 0]
Until(hour) == [layout |-> "RFC3339", at |-> hour]
Garbage == [layout |-> "other", at |-> 0]

BodyV1(labels, value, validUntil) ==
  [labels |-> labels,
   spec |-> [matchers |-> <<[name |-> "severity", value |-> value,
                             isRegex |-> FALSE, isEqual |-> Unset]>>,
             validUntil |-> validUntil]]

BodyV2(labels, value, duration) ==
  [labels |-> labels,
   spec |-> [matchers |-> <<[name |-> "severity", value |-> value,
                             matchType |-> "="]>>,
             startsAt |-> Unset, endsAt |-> Unset, duration |-> duration,
             validUntil |-> Always]]

\* A label the silence selector of the instances refuses.
Unselected(body) == [body EXCEPT !.labels = [ignored |-> "yes"]]

NoText == [form |-> "empty", requirements |-> {}]
NotIgnored ==
  [form |-> "requirements",
   requirements |-> {[key |-> "ignored", op |-> "DoesNotExist", values |-> {}]}]
Production ==
  [form |-> "requirements",
   requirements |-> {[key |-> "env", op |-> "In", values |-> {"production"}]}]

---------------------------------------------------------------------------
MCNoObjects == {}
MCTeam == {<<"team">>}
MCTeamLabels == {Missing, [env |-> "production"], [env |-> "staging"]}
MCObjV1 == {ObjV1}
MCObjV2 == {ObjV2}
MCBothObjects == {ObjV1, ObjV2}

\* The v1alpha1 object team-b beside the v1alpha2 object b of the namespace team.
MCSameComment == {[ObjV1 EXCEPT !.name = <<"team", "b">>], ObjV2}

MCBodiesV1 ==
  {BodyV1(NoLabels, "page", Always), BodyV1(NoLabels, "notify", Until(1)),
   BodyV1(NoLabels, "page", Garbage),
   Unselected(BodyV1(NoLabels, "page", Always))}

MCBodiesV2 ==
  {BodyV2(NoLabels, "page", Unset), BodyV2(NoLabels, "page", 1),
   BodyV2(Labelled("team"), "page", Unset),
   Unselected(BodyV2(NoLabels, "page", Unset))}

\* The operator selects every one of them: the tenant alone changes.
MCBodiesRelabel ==
  {BodyV2(NoLabels, "page", Unset), BodyV2(Labelled("team"), "page", Unset)}

MCBodiesLive == {b \in MCBodiesV2 : b.labels # Labelled("team")}

MCBodiesCoexist == {BodyV1(NoLabels, "page", Always), BodyV2(NoLabels, "notify", Unset)}

MCBodiesBoth ==
  {BodyV1(NoLabels, "page", Always),
   BodyV2(Labelled("team"), "page", Unset), BodyV2(Labelled("team"), "page", 1)}
=============================================================================
