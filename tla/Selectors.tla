----------------------------- MODULE Selectors ------------------------------
(* The label selectors of the operator (pkg/config/config.go) and the event *)
(* filters made of them (SetupWithManager of both controllers).             *)
EXTENDS SilenceTypes

CONSTANTS
  SilenceSelectorText,      \* --silence-selector
  NamespaceSelectorText,    \* --namespace-selector
  Missing                   \* the labels of a namespace that cannot be read

(* A selector text is what the parser of label selectors makes of it: no    *)
(* text, a text that does not parse, or requirements.                       *)
Requirement == [key : Text, op : {"In", "NotIn", "Exists", "DoesNotExist"}, values : SUBSET Text]

SelectorTexts ==
  [form : {"empty", "malformed", "requirements"}, requirements : SUBSET Requirement]

ASSUME SelectorAssumption ==
  {SilenceSelectorText, NamespaceSelectorText} \subseteq SelectorTexts

\* Labels are a function from label keys to values.
Meets(labels, r) ==
  CASE r.op = "In" -> r.key \in DOMAIN labels /\ labels[r.key] \in r.values
    [] r.op = "NotIn" -> r.key \in DOMAIN labels => labels[r.key] \notin r.values
    [] r.op = "Exists" -> r.key \in DOMAIN labels
    [] r.op = "DoesNotExist" -> r.key \notin DOMAIN labels

Matches(selector, labels) == \A r \in selector : Meets(labels, r)

---------------------------------------------------------------------------
parseSelectorFails(text) == text.form = "malformed"

(* No selector (nil) and a selector that asks for nothing are the same to   *)
(* both controllers: they set up no filter.                                 *)
NoSelector == {}

parseSelector(text) == IF text.form = "empty" THEN NoSelector ELSE text.requirements

SilenceSelector == parseSelector(SilenceSelectorText)
NamespaceSelector == parseSelector(NamespaceSelectorText)

---------------------------------------------------------------------------
labelPredicate(labels) == SilenceSelector # NoSelector => Matches(SilenceSelector, labels)

(* The namespace filter of the v1alpha2 controller: it drops objects of no  *)
(* namespace, and of one the client cannot show.                            *)
namespacePredicate(namespace, namespaces) ==
  NamespaceSelector # NoSelector =>
    /\ namespace # <<>>
    /\ namespace \in DOMAIN namespaces
    /\ namespaces[namespace] # Missing
    /\ Matches(NamespaceSelector, namespaces[namespace])

EventFilter(o, labels, namespaces) ==
  /\ labelPredicate(labels)
  /\ o.api = "v1alpha2" => namespacePredicate(o.namespace, namespaces)
=============================================================================
