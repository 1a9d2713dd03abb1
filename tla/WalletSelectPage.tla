-------------------------- MODULE WalletSelectPage --------------------------
(***************************************************************************)
(* The form of wallet-select.html, its two toggling handlers, and the      *)
(* validation of the submitted form by WalletOptions.                      *)
(*                                                                         *)
(* A radio button that is disabled is not part of the submitted form, so   *)
(* what matters besides the choices is which groups are enabled.  The      *)
(* conditional groups start hidden, but enabled.                           *)
(***************************************************************************)
CONSTANT Endpoint   \* the authorization endpoints on offer

VARIABLE form   \* the choices, and which groups are disabled

Protocol == {"previous", "etsi119432"}
Delivery == {"request_uri", "link"}
Method   == {"request", "redirect"}
Group    == {"request_object_delivery", "authorization_endpoint"}

Init ==
  form \in [protocol_version : {"previous"},
            request_object_delivery : {"request_uri"},
            wallet_delivery_method : {"request"},
            authorization_endpoint : Endpoint,
            disabled : {{}}]

Toggled(group, show) ==
  IF show THEN form.disabled \ {group} ELSE form.disabled \cup {group}

\* The onchange handlers run only when another button is chosen; they show a
\* group and enable its inputs, or hide it and disable them.
ToggleReqObjDeliveryStep(v) ==
  /\ v # form.protocol_version
  /\ form' = [form EXCEPT !.protocol_version = v,
              !.disabled = Toggled("request_object_delivery", v = "etsi119432")]

ToggleEndpointStep(v) ==
  /\ v # form.wallet_delivery_method
  /\ form' = [form EXCEPT !.wallet_delivery_method = v,
              !.disabled = Toggled("authorization_endpoint", v = "redirect")]

ChooseDelivery(d) ==
  /\ form.protocol_version = "etsi119432"
  /\ form' = [form EXCEPT !.request_object_delivery = d]

ChooseEndpoint(e) ==
  /\ form.wallet_delivery_method = "redirect"
  /\ form' = [form EXCEPT !.authorization_endpoint = e]

Next ==
  \/ \E v \in Protocol : ToggleReqObjDeliveryStep(v)
  \/ \E v \in Method   : ToggleEndpointStep(v)
  \/ \E d \in Delivery : ChooseDelivery(d)
  \/ \E e \in Endpoint : ChooseEndpoint(e)

Spec == Init /\ [][Next]_form

\* The two conditional fields are Optional, but have no default: pydantic
\* requires them to be present.
Accepted == form.disabled = {}

\* check_conditional_requirements asks for the delivery only with the ETSI
\* protocol, and for the endpoint only with a redirect.
Required(group) ==
  IF group = "request_object_delivery" THEN form.protocol_version = "etsi119432"
                                       ELSE form.wallet_delivery_method = "redirect"

-----------------------------------------------------------------------------
\* What the validator demands, no more: a form that has every field
\* check_conditional_requirements requires is accepted.
CompleteIsAccepted ==
  (\A g \in Group : Required(g) => g \notin form.disabled) => Accepted
=============================================================================
