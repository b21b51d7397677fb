------------------------------ MODULE Tenancy -------------------------------
(* The tenant of a silence: from the labels of its object to the header of  *)
(* the request (pkg/tenancy/tenancy.go, pkg/alertmanager/http.go).          *)
EXTENDS SilenceTypes

CONSTANTS
  TenancyEnabled,          \* config.TenancyEnabled
  TenancyLabelKey,         \* config.TenancyLabelKey, "" when none is configured
  TenancyDefaultTenant,    \* config.TenancyDefaultTenant
  TenantId                 \* config.TenantId, the operator's own tenant

ASSUME TenancyAssumption ==
  /\ TenancyEnabled \in BOOLEAN
  /\ {TenancyLabelKey, TenancyDefaultTenant, TenantId} \subseteq Text

(* Labels are a function from label keys to values; the domain of the       *)
(* labels of an object without any is empty.                                *)
ExtractTenant(labels) ==
  IF ~TenancyEnabled THEN ""
  ELSE IF /\ TenancyLabelKey # ""
          /\ TenancyLabelKey \in DOMAIN labels
          /\ labels[TenancyLabelKey] # ""
       THEN labels[TenancyLabelKey]
       ELSE TenancyDefaultTenant

\* The value of X-Scope-OrgID; "" stands for a request without the header.
EffectiveTenant(tenant) == IF tenant # "" THEN tenant ELSE TenantId
=============================================================================
